------------------------------ MODULE Transport ------------------------------
(***************************************************************************)
(* The requests of one SMB connection: libcli/raw (clitransport.c and      *)
(* rawrequest.c) on top of the packet layer (lib/stream/packet.c).  An     *)
(* action is one event, or what the program does between two of them.      *)
(*                                                                         *)
(* A request or reply is Units long and may be transferred in parts.  The  *)
(* completion function of a reply may take its time: winexe installs the   *)
(* service from there, in an event loop of its own, while timeouts pass    *)
(* and requests are made.                                                  *)
(***************************************************************************)
EXTENDS Integers, Sequences, FiniteSets, SequencesExt

CONSTANTS
    MaxRequests,    \* bound on the requests of a run
    MidSpace,       \* 2^16: a mid is a uint16_t
    FirstRead,      \* the request with which async_read clears the timeout
    MaxPending,     \* requests that winexe has under way at a time
    Window          \* requests made before the server answers one given up

ASSUME TransportAssumption ==
    /\ MaxRequests \in Nat /\ MidSpace \in Nat /\ MidSpace > 1
    /\ FirstRead \in Nat /\ MaxPending \in Nat /\ Window \in Nat

\* Of 2^16 mids winexe has but a few under way: the counter does not come
\* round to a mid before its reply has.
ASSUME MidsSuffice == Window + MaxPending < MidSpace

Serial == 1..MaxRequests    \* requests in the order they are made
Mid == 1..(MidSpace - 1)    \* 0 is for requests that have no mid
Units == 2

VARIABLES
    sent,       \* requests made so far
    next_mid,
    mid,        \* the mid of each request
    state,      \* its state, "unused" before it is made
    pending,    \* transport->pending_recv
    timed,      \* requests with a timer
    queue,      \* pc->send_queue
    sock,       \* the socket is there
    readable,   \* EVENT_FD_READ
    writeable,  \* EVENT_FD_WRITE
    starved,    \* another event is always ready and goes before the socket
    processing, \* pc->processing, 2 for all above 1
    link,       \* the TCP connection, "up" or "cut"
    wire,       \* what the server got, a unit at a time
    replied,    \* requests it has replied to
    stream,     \* what the client has not read of that, a unit at a time
    told,       \* history: calls of the completion function of each request
    answer      \* history: the request whose reply each one was given, or 0

listVars   == <<state, pending, timed>>
makeVars   == <<sent, next_mid, mid>>
reqVars    == <<makeVars, listVars>>
sockVars   == <<sock, readable, writeable, starved>>
serverVars == <<link, wire, replied, stream>>
transVars  == <<reqVars, queue, sockVars, processing, serverVars, told, answer>>

TransInit ==
    /\ sent = 0 /\ next_mid = 0
    /\ mid = [n \in Serial |-> 0]
    /\ state = [n \in Serial |-> "unused"]
    /\ pending = {} /\ timed = {}
    /\ queue = <<>>
    /\ sock = TRUE /\ readable = TRUE /\ writeable = FALSE /\ starved = FALSE
    /\ processing = 0
    /\ link = "up"
    /\ wire = <<>> /\ replied = {} /\ stream = <<>>
    /\ told = [n \in Serial |-> 0]
    /\ answer = [n \in Serial |-> 0]

----------------------------------------------------------------------------
\* Requests.

UsedMids == {mid[n] : n \in pending}
First == IF next_mid = 0 THEN 1 ELSE next_mid
Ahead(m) == (m - First + MidSpace - 1) % (MidSpace - 1)

\* Mutants: pending mids are not looked at; the lowest one that is free.
IsNextMidUnchecked(m) == m \in Mid /\ \A k \in Mid : Ahead(m) <= Ahead(k)
IsNextMidLowest(m) == m \in Mid \ UsedMids /\ \A k \in Mid \ UsedMids : m <= k

\* smbcli_transport_next_mid: the first mid from next_mid on, 0 left out, that
\* no pending request has.
IsNextMid(m) ==
    /\ m \in Mid \ UsedMids
    /\ \A k \in Mid \ UsedMids : Ahead(m) <= Ahead(k)

\* Mutant: the timer stays.
EndsTimed(n, s) ==
    /\ state' = [state EXCEPT ![n] = s]
    /\ pending' = pending \ {n}
    /\ UNCHANGED timed

\* A request is over: taken off the list, its timer gone with it.
Ends(n, s) ==
    /\ state' = [state EXCEPT ![n] = s]
    /\ pending' = pending \ {n}
    /\ timed' = timed \ {n}

Tell(n) == told' = [told EXCEPT ![n] = @ + 1]

Newest(n) == n \in pending /\ \A k \in pending : k <= n

\* smbcli_transport_dead: the newest request, the head of the list, is told.
smbcli_transport_dead ==
    /\ sock' = FALSE /\ readable' = FALSE /\ writeable' = FALSE
    /\ \/ \E n \in pending : Newest(n) /\ Ends(n, "error") /\ Tell(n)
       \/ pending = {} /\ UNCHANGED <<pending, timed, told, state>>
    /\ UNCHANGED starved

----------------------------------------------------------------------------
\* The send queue.

\* Mutants: EVENT_FD_WRITE is not set; the rest of a request is thrown away
\* when it does not fit.
packet_queue_runOnce(q, w) ==
    /\ wire' = IF link = "up" THEN wire \o SubSeq(q, 1, w) ELSE wire
    /\ queue' = SubSeq(q, w + 1, Len(q))
    /\ UNCHANGED writeable
packet_queue_runTruncates(q, w) ==
    /\ wire' = wire \o SubSeq(q, 1, w)
    /\ queue' = SelectSeq(SubSeq(q, w + 1, Len(q)), LAMBDA n : w = 0 \/ n # q[w])
    /\ writeable' = (queue' # <<>>)

\* packet_queue_run: the socket takes w units, and once it takes all of them
\* EVENT_FD_WRITE is cleared.  It does not tell at once that the connection is
\* lost.
packet_queue_run(q, w) ==
    /\ wire' = IF link = "up" THEN wire \o SubSeq(q, 1, w) ELSE wire
    /\ queue' = SubSeq(q, w + 1, Len(q))
    /\ writeable' = (w < Len(q))

Packet(n) == [u \in 1..Units |-> n]

\* The server answers a request that was given up before too many are made
\* after it: an assumption on the server, not a check of the code.
Unheard(n) ==
    /\ state[n] \in {"error", "destroyed"}
    /\ n \notin replied \/ \E i \in DOMAIN stream : stream[i].req = n
Timely == \A n \in 1..sent : Unheard(n) => sent + 1 - n <= Window

\* smbcli_request_setup_transport and smbcli_transport_send.  A request that
\* is made on a dead socket, or kills it, is in error before its completion
\* function is even set: nobody is told.  The first async_read switches the
\* timeout off for all requests that follow.
Make(m) ==
    LET n == sent + 1 IN
    /\ sent < MaxRequests /\ Cardinality(pending) < MaxPending /\ Timely
    /\ IsNextMid(m)
    /\ sent' = n
    /\ next_mid' = (m + 1) % MidSpace
    /\ mid' = [mid EXCEPT ![n] = m]
    /\ \/ /\ sock
          /\ \E w \in 0..(Len(queue) + Units) : packet_queue_run(queue \o Packet(n), w)
          /\ state' = [state EXCEPT ![n] = "recv"]
          /\ pending' = pending \union {n}
          /\ timed' = IF n <= FirstRead THEN timed \union {n} ELSE timed
          /\ UNCHANGED <<sock, readable, starved, told>>
       \/ /\ ~sock
          /\ state' = [state EXCEPT ![n] = "error"]
          /\ UNCHANGED <<pending, timed, queue, sockVars, wire, told>>
    /\ UNCHANGED <<processing, link, replied, stream, answer>>

\* ... the send fails: smbcli_transport_dead is called on the way.
MakeFails(m) ==
    LET n == sent + 1 IN
    /\ sent < MaxRequests /\ Cardinality(pending) < MaxPending /\ Timely
    /\ IsNextMid(m)
    /\ sock /\ link = "cut"
    /\ sent' = n
    /\ next_mid' = (m + 1) % MidSpace
    /\ mid' = [mid EXCEPT ![n] = m]
    /\ queue' = queue \o Packet(n)
    /\ sock' = FALSE /\ readable' = FALSE /\ writeable' = FALSE
    /\ \/ \E k \in pending : /\ Newest(k) /\ Tell(k)
                            /\ state' = [state EXCEPT ![k] = "error", ![n] = "error"]
                            /\ pending' = pending \ {k}
                            /\ timed' = timed \ {k}
       \/ /\ pending = {}
          /\ state' = [state EXCEPT ![n] = "error"]
          /\ UNCHANGED <<pending, timed, told>>
    /\ UNCHANGED <<processing, starved, serverVars, answer>>

\* smbcli_request_destroy by the caller (async_close).  What is in the queue
\* of it is still sent.
Destroy(n) ==
    /\ n \in pending
    /\ Ends(n, "destroyed")
    /\ UNCHANGED <<makeVars, queue, sockVars, processing, serverVars, told, answer>>

\* Mutant: the request stays on the list.
smbcli_timeout_handlerListed(n) ==
    /\ n \in timed
    /\ timed' = timed \ {n}
    /\ Tell(n)
    /\ UNCHANGED <<makeVars, state, pending, queue, sockVars, processing,
                   serverVars, answer>>

\* After 60 seconds.
smbcli_timeout_handler(n) ==
    /\ n \in timed
    /\ Ends(n, "error")
    /\ Tell(n)
    /\ UNCHANGED <<makeVars, queue, sockVars, processing, serverVars, answer>>

----------------------------------------------------------------------------
\* Events of the socket.

\* smbcli_transport_finish_recv: the request with the mid of the reply, in error
\* when the reply is too short or its signature is wrong; the completion
\* function runs until CallbackReturns.
smbcli_transport_finish_recv(r) ==
    \/ \E n \in pending :
          /\ mid[n] = r.mid
          /\ Ends(n, "done")
          /\ Tell(n)
          /\ answer' = [answer EXCEPT ![n] = r.req]
          /\ processing' = 1
    \/ \E n \in pending :
          /\ mid[n] = r.mid
          /\ Ends(n, "error")
          /\ Tell(n)
          /\ processing' = 1
          /\ UNCHANGED answer
    \/ /\ \A n \in pending : mid[n] # r.mid
       /\ UNCHANGED <<state, pending, timed, told, answer, processing>>

Readable == sock /\ readable /\ ~starved /\ (stream # <<>> \/ link = "cut")

\* packet_recv: a part of a reply is read, and the last one completes it.
Recv ==
    /\ Readable /\ processing = 0
    /\ stream # <<>>
    /\ stream' = Tail(stream)
    /\ \/ Head(stream).last /\ smbcli_transport_finish_recv(Head(stream))
       \/ ~Head(stream).last /\ UNCHANGED <<state, pending, timed, told, answer, processing>>
    /\ UNCHANGED <<makeVars, queue, sockVars, link, wire, replied>>

\* ... the end of the stream or an error.
RecvFails ==
    /\ Readable /\ processing = 0
    /\ stream = <<>>
    /\ smbcli_transport_dead
    /\ UNCHANGED <<makeVars, queue, processing, serverVars, answer>>

\* ... a completion function is running: not now.
RecvLater ==
    /\ Readable /\ processing > 0
    /\ readable' = FALSE
    /\ processing' = 2
    /\ UNCHANGED <<reqVars, queue, sock, writeable, starved, serverVars, told, answer>>

\* Mutant: what was put off stays put off.
CallbackReturnsDeaf ==
    /\ processing > 0
    /\ processing' = 0
    /\ UNCHANGED <<reqVars, queue, sockVars, serverVars, told, answer>>

\* packet_recv goes on after the completion function.
CallbackReturns ==
    /\ processing > 0
    /\ readable' = (readable \/ (sock /\ processing = 2))
    /\ processing' = 0
    /\ UNCHANGED <<reqVars, queue, sock, writeable, starved, serverVars, told, answer>>

\* smbcli_transport_event_handler: reading goes first.
Write ==
    /\ sock /\ writeable /\ ~starved /\ ~Readable
    /\ \/ /\ \E w \in 1..Len(queue) : packet_queue_run(queue, w)
          /\ UNCHANGED <<reqVars, sock, readable, starved, told>>
       \/ /\ link = "cut"
          /\ smbcli_transport_dead
          /\ UNCHANGED <<makeVars, queue, wire>>
    /\ UNCHANGED <<processing, link, replied, stream, answer>>

\* Standard input is a file or /dev/null: epoll_ctl refuses it, so select is
\* used, of which only the first event is handled, and the newest comes first.
\* Standard input is ready for ever once it is at its end.
StdinAtEnd ==
    /\ ~starved /\ starved' = TRUE
    /\ UNCHANGED <<reqVars, queue, sock, readable, writeable, processing, serverVars, told, answer>>

----------------------------------------------------------------------------
\* The server and the network.

Complete(n) == Cardinality({i \in DOMAIN wire : wire[i] = n}) = Units

\* Replies come in any order: a read waits until there is something to read.
Serve(n) ==
    /\ link = "up"
    /\ n \in ToSet(wire) \ replied /\ Complete(n)
    /\ replied' = replied \union {n}
    /\ stream' = stream \o [u \in 1..Units |-> [req |-> n, mid |-> mid[n], last |-> u = Units]]
    /\ UNCHANGED <<reqVars, queue, sockVars, processing, link, wire, told, answer>>

\* The connection is lost, with any end of what is under way.
Cut ==
    /\ link = "up" /\ link' = "cut"
    /\ \E i \in 0..Len(stream) : stream' = SubSeq(stream, 1, i)
    /\ UNCHANGED <<reqVars, queue, sockVars, processing, wire, replied, told, answer>>

TransNext ==
    \/ \E m \in Mid : Make(m) \/ MakeFails(m)
    \/ \E n \in Serial : Destroy(n) \/ smbcli_timeout_handler(n) \/ Serve(n)
    \/ Recv \/ RecvFails \/ RecvLater \/ CallbackReturns \/ Write
    \/ StdinAtEnd \/ Cut

TransSpec == TransInit /\ [][TransNext]_transVars

\* The event loop is run, completion functions return, and the server reads
\* what it is sent.
TransFairSpec ==
    /\ TransSpec
    /\ WF_transVars(Recv \/ RecvFails \/ RecvLater)
    /\ WF_transVars(\E n \in Serial : smbcli_timeout_handler(n))
    /\ WF_transVars(CallbackReturns)
    /\ WF_transVars(Write)

----------------------------------------------------------------------------
\* Properties.

TransTypeOK ==
    /\ sent \in 0..MaxRequests
    /\ next_mid \in 0..(MidSpace - 1)
    /\ mid \in [Serial -> 0..(MidSpace - 1)]
    /\ state \in [Serial -> {"unused", "recv", "done", "error", "destroyed"}]
    /\ pending \subseteq 1..sent /\ timed \subseteq pending
    /\ queue \in Seq(Serial) /\ wire \in Seq(Serial)
    /\ sock \in BOOLEAN /\ readable \in BOOLEAN /\ writeable \in BOOLEAN
    /\ processing \in 0..2
    /\ link \in {"up", "cut"}
    /\ replied \subseteq Serial
    /\ stream \in Seq([req : Serial, mid : 0..(MidSpace - 1), last : BOOLEAN])
    /\ told \in [Serial -> Nat] /\ answer \in [Serial -> 0..MaxRequests]

\* No two requests that wait for a reply have the same mid, also when the
\* counter has wrapped round to the mids of reads that wait for hours.
DistinctMids ==
    /\ \A n \in pending : mid[n] # 0
    /\ \A n, k \in pending : mid[n] = mid[k] => n = k

\* The completion function of a request is called once at most, whichever of
\* reply, timeout and loss of the connection come together, and never for a
\* request its caller has destroyed or that is still waited for.
ToldOnce ==
    \A n \in Serial : told[n] <= IF state[n] \in {"done", "error"} THEN 1 ELSE 0

\* Requests reach the server whole and in the order they were made, however
\* little the socket takes at a time and whichever of them are given up while
\* a part of them is sent: "set" arrives before "run".
WireInOrder ==
    \A i \in DOMAIN wire : wire[i] = (i + Units - 1) \div Units

\* The reply to a request that waits for it is passed on, also when it comes
\* while the completion function of another one blocks.
Answered(n) == n \in pending /\ \E i \in DOMAIN stream : stream[i].req = n /\ stream[i].last
AnswersArrive == \A n \in Serial : Answered(n) ~> n \notin pending \/ ~sock \/ starved

\* A request that could not be sent at once is sent later.
AllSent == queue # <<>> ~> queue = <<>> \/ ~sock \/ starved

\* All in all this is what Requests says.  A reply is given to the request it
\* belongs to, although requests are given up and their replies arrive late,
\* when their mids may have come again; each request comes to one end; and when
\* the socket is dead the newest one is told.
FateOf(n) ==
    CASE state[n] = "unused" -> "none"
      [] state[n] = "recv" -> "waiting"
      [] state[n] = "done" /\ answer[n] = n -> "answered"
      [] state[n] = "destroyed" -> "withdrawn"
      [] state[n] = "error" /\ told[n] = 0 -> "refused"
      [] state[n] = "error" /\ told[n] = 1 -> "failed"
      [] OTHER -> "confused"

Promise == INSTANCE Requests WITH
    asked <- sent, fate <- [n \in Serial |-> FateOf(n)],
    arrived <- Len(wire) \div Units, line <- IF sock THEN "up" ELSE "lost"

KeepsPromise == Promise!RequestsSpec
=============================================================================
