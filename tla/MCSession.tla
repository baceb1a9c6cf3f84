----------------------------- MODULE MCSession ------------------------------
(***************************************************************************)
(* Small instances of Session: one run of winexe that meets a service of   *)
(* its own version, of another one, of one without "get", or none.         *)
(***************************************************************************)
EXTENDS Session

\* The lines winexe sends.
MCWrites == {GetVersion, Abort} \union {RunCommandOf(a) : a \in Asked}
=============================================================================
