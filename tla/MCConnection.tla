---------------------------- MODULE MCConnection ----------------------------
(***************************************************************************)
(* Small instance of Connection: one connection, every kind of line a      *)
(* client can send, every Windows call failing or not.                     *)
(***************************************************************************)
EXTENDS Connection

L(v, a) == [verb |-> v, arg |-> a]

MCWrites == {<<L("get", "version")>>, <<L("get", "none")>>, <<L("get", "other")>>,
             <<L("set", "runas")>>, <<L("set", "nosystem")>>, <<L("set", "implevel")>>,
             <<L("set", "none")>>, <<L("set", "other")>>,
             <<L("set", "system"), L("run", "command")>>, <<L("run", "command")>>,
             <<L("run", "none")>>, <<L("unknown", "none")>>, <<L("empty", "none")>>}
=============================================================================
