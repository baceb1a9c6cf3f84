---------------------------- MODULE MCServerLoop -----------------------------
(***************************************************************************)
(* A small instance of ServerLoop, with two process ids that differ in the *)
(* upper half only and a service that has almost had 2^16 connections; and *)
(* next to it the lines of one connection (Text).  A behaviour is one of   *)
(* either.                                                                 *)
(***************************************************************************)
EXTENDS ServerLoop, Text

MCTexts == BoundedSeq({"x", "%", "/", "\\"}, 1)
MCCommands == MCTexts \union {<<"\n">>, <<"x", "\n", "x">>, <<" ", "x">>}

MCInit == LoopInit /\ TextInit /\ (phase = "none" \/ pid = 0)

MCNext ==
    \/ phase = "none" /\ LoopNext /\ UNCHANGED textVars
    \/ TextNext /\ UNCHANGED loopVars

MCSpec == MCInit /\ [][MCNext]_<<loopVars, textVars>> /\ LoopFairness
=============================================================================
