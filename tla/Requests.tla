------------------------------ MODULE Requests -------------------------------
(***************************************************************************)
(* What the asynchronous requests of libcli/raw promise to async.c, with   *)
(* no word of multiplex ids, queues, partial transfers or locks: requests  *)
(* reach the server in the order they were made, each comes to one end,    *)
(* and the loss of the line is told to the newest request only.            *)
(***************************************************************************)
EXTENDS Naturals

CONSTANT MaxRequests    \* requests are numbered in the order they are made

Number == 1..MaxRequests
Fate == {"none", "waiting", "answered", "failed", "withdrawn", "refused"}

VARIABLES
    asked,      \* requests made so far
    fate,       \* what became of each
    arrived,    \* how many of them the server has
    line        \* "up" or "lost"

requestVars == <<asked, fate, arrived, line>>

RequestsInit ==
    /\ asked = 0 /\ arrived = 0
    /\ fate = [n \in Number |-> "none"]
    /\ line = "up"

\* The server may be sent requests that were made earlier on any occasion.
Arrive == arrived' \in arrived..asked'

Ask ==
    /\ asked < MaxRequests /\ asked' = asked + 1
    /\ fate' = [fate EXCEPT ![asked'] = IF line = "up" THEN "waiting" ELSE "refused"]
    /\ Arrive
    /\ UNCHANGED line

\* Only requests that wait come to an end, and only those that arrived are
\* answered.
Settle(n, end) ==
    /\ fate[n] = "waiting"
    /\ end = "answered" => n <= arrived
    /\ fate' = [fate EXCEPT ![n] = end]
    /\ UNCHANGED <<asked, arrived, line>>

\* The newest request that waits is told that the line is lost, all others
\* that wait are not; a request during which this is noticed is refused.
Newest == {n \in Number : fate[n] = "waiting"
                          /\ \A k \in Number : fate[k] = "waiting" => k <= n}
Lose ==
    /\ line = "up" /\ line' = "lost"
    /\ asked' \in {asked, asked + 1}
    /\ fate' = [n \in Number |-> CASE n \in Newest -> "failed"
                                   [] n \in (asked + 1)..asked' -> "refused"
                                   [] OTHER -> fate[n]]
    /\ UNCHANGED arrived

RequestsNext ==
    \/ Ask \/ Lose
    \/ Arrive /\ UNCHANGED <<asked, fate, line>>
    \/ \E n \in Number, end \in {"answered", "failed", "withdrawn"} : Settle(n, end)

RequestsSpec == RequestsInit /\ [][RequestsNext]_requestVars
=============================================================================
