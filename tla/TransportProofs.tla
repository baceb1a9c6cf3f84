--------------------------- MODULE TransportProofs ---------------------------
(***************************************************************************)
(* Proofs about Transport, for any number of requests, any space of mids,  *)
(* any number of requests under way and any server.                        *)
(***************************************************************************)
EXTENDS Transport, SequenceTheorems, FiniteSetTheorems, TLAPS

LEMMA PacketType ==
  ASSUME NEW n \in Serial
  PROVE  /\ Packet(n) \in Seq(Serial) /\ Len(Packet(n)) = 2
         /\ Packet(n)[1] = n /\ Packet(n)[2] = n
  BY DEF Packet, Units

----------------------------------------------------------------------------
\* The state of the requests.

\* What is on the list waits, what is not made yet is not in use, and the mids
\* of what is on the list are different.
ListOK ==
    /\ sent \in 0..MaxRequests
    /\ mid \in [Serial -> 0..(MidSpace - 1)]
    /\ state \in [Serial -> {"unused", "recv", "done", "error", "destroyed"}]
    /\ pending \subseteq 1..sent /\ timed \subseteq pending
    /\ told \in [Serial -> Nat]
    /\ \A n \in pending : state[n] = "recv"
    /\ \A n \in Serial : n > sent => state[n] = "unused"
    /\ DistinctMids
    /\ ToldOnce

\* A request that comes to an end, with its completion function called or not.
LEMMA EndsList ==
  ASSUME TransportAssumption, ListOK, NEW n \in pending, NEW s \in {"done", "error", "destroyed"},
         Ends(n, s), UNCHANGED makeVars,
         \/ s # "destroyed" /\ Tell(n)
         \/ told' = told
  PROVE  ListOK'
  <1> USE DEF ListOK, Ends, makeVars, Serial, TransportAssumption
  <1>1. n \in Serial /\ state[n] = "recv" /\ told[n] = 0
    BY SMTT(30) DEF ToldOnce
  <1>2. told' \in [Serial -> Nat]
    BY <1>1, SMTT(30) DEF Tell
  <1>3. DistinctMids'
    BY DEF DistinctMids
  <1>4. ToldOnce'
    BY <1>1 DEF ToldOnce, Tell
  <1>5. \A k \in pending' : state'[k] = "recv"
    BY <1>1
  <1> QED BY <1>1, <1>2, <1>3, <1>4, <1>5

LEMMA DeadList ==
  ASSUME TransportAssumption, ListOK, smbcli_transport_dead, UNCHANGED makeVars
  PROVE  ListOK'
  <1>1. CASE \E n \in pending : Newest(n) /\ Ends(n, "error") /\ Tell(n)
    BY <1>1, EndsList
  <1>2. CASE UNCHANGED <<pending, timed, told, state>>
    BY <1>2 DEF ListOK, makeVars, DistinctMids, ToldOnce
  <1> QED BY <1>1, <1>2 DEF smbcli_transport_dead

\* The new request has a mid that nothing on the list has.
LEMMA MakeList ==
  ASSUME TransportAssumption, ListOK, NEW m \in Mid, Make(m) \/ MakeFails(m)
  PROVE  ListOK'
  <1> DEFINE n == sent + 1
  <1>1. sent < MaxRequests /\ sent' = n /\ mid' = [mid EXCEPT ![n] = m] /\ m \notin UsedMids
    BY DEF Make, MakeFails, IsNextMid
  <1>2. n \in Serial /\ n \notin pending /\ sent' \in 0..MaxRequests
    BY <1>1 DEF ListOK, Serial, TransportAssumption
  <1>3. state[n] = "unused" /\ told[n] = 0
    <2>1. sent \in Int /\ n > sent
      BY DEF ListOK, TransportAssumption
    <2>2. state[n] = "unused"
      BY <1>2, <2>1 DEF ListOK
    <2>3. told[n] \in Nat /\ told[n] <= 0
      BY <1>2, <2>2 DEF ListOK, ToldOnce
    <2> QED BY <2>2, <2>3
  <1>4. \A k \in pending : mid[k] # m /\ k # n /\ k \in Serial
    BY <1>1, <1>2 DEF UsedMids, ListOK, Serial, TransportAssumption
  <1>5. m # 0 /\ mid' \in [Serial -> 0..(MidSpace - 1)]
    BY <1>1, <1>2 DEF ListOK, Mid, TransportAssumption
  <1>6. DistinctMids' /\ pending' \subseteq 1..sent' /\ (\A k \in Serial : k > sent' => k # n /\ state[k] = "unused")
    <2>1. pending' \subseteq pending \union {n}
      BY DEF Make, MakeFails
    <2>2. \A k \in pending : mid'[k] = mid[k]
      BY <1>1, <1>4 DEF ListOK
    <2>3. mid'[n] = m
      BY <1>1, <1>2 DEF ListOK
    <2>4. DistinctMids'
      BY <1>4, <1>5, <2>1, <2>2, <2>3 DEF DistinctMids, ListOK
    <2> QED BY <1>1, <2>1, <2>4 DEF ListOK, Serial, TransportAssumption
  <1>7. CASE /\ state' = [state EXCEPT ![n] = "recv"]
             /\ pending' = pending \union {n}
             /\ timed' = IF n <= FirstRead THEN timed \union {n} ELSE timed
             /\ told' = told
    <2>1. ToldOnce'
      BY <1>2, <1>3, <1>7 DEF ListOK, ToldOnce
    <2> QED BY <1>2, <1>4, <1>5, <1>6, <1>7, <2>1 DEF ListOK
  <1>8. CASE /\ state' = [state EXCEPT ![n] = "error"]
             /\ UNCHANGED <<pending, timed, told>>
    <2>1. ToldOnce'
      BY <1>2, <1>3, <1>8 DEF ListOK, ToldOnce
    <2> QED BY <1>2, <1>4, <1>5, <1>6, <1>8, <2>1 DEF ListOK
  <1>9. ASSUME NEW k \in pending, Tell(k),
               state' = [state EXCEPT ![k] = "error", ![n] = "error"],
               pending' = pending \ {k}, timed' = timed \ {k}
        PROVE  ListOK'
    <2>1. k \in Serial /\ k # n /\ state[k] = "recv"
      BY <1>4 DEF ListOK
    <2>2. told[k] = 0
      <3>1. told[k] \in Nat /\ told[k] <= 0
        BY <2>1 DEF ListOK, ToldOnce
      <3> QED BY <3>1
    <2>3. told' \in [Serial -> Nat] /\ told' = [told EXCEPT ![k] = 1]
      <3>1. told' = [told EXCEPT ![k] = told[k] + 1]
        BY <1>9 DEF Tell
      <3>2. told' = [told EXCEPT ![k] = 1]
        BY <2>2, <3>1
      <3> QED BY <3>2 DEF ListOK
    <2>4. ToldOnce'
      BY <1>2, <1>3, <1>9, <2>1, <2>3 DEF ListOK, ToldOnce
    <2> QED BY <1>2, <1>4, <1>5, <1>6, <1>9, <2>1, <2>3, <2>4 DEF ListOK
  <1> QED BY <1>7, <1>8, <1>9 DEF Make, MakeFails, Newest

\* Every step keeps it.
LEMMA NextList ==
  ASSUME TransportAssumption, ListOK, TransNext
  PROVE  ListOK'
  <1> USE DEF makeVars, reqVars, listVars
  <1>1. CASE \E m \in Mid : Make(m) \/ MakeFails(m)
    BY <1>1, MakeList
  <1>2. CASE \E n \in Serial : Destroy(n)
    BY <1>2, EndsList DEF Destroy
  <1>3. CASE \E n \in Serial : smbcli_timeout_handler(n)
    BY <1>3, EndsList DEF smbcli_timeout_handler, ListOK
  <1>4. CASE Recv
    BY <1>4, EndsList DEF Recv, smbcli_transport_finish_recv, ListOK, DistinctMids, ToldOnce
  <1>5. CASE RecvFails
    BY <1>5, DeadList DEF RecvFails
  <1>6. CASE Write
    <2>1. CASE smbcli_transport_dead /\ UNCHANGED makeVars
      BY <2>1, DeadList
    <2>2. CASE UNCHANGED <<reqVars, told>>
      BY <2>2 DEF ListOK, DistinctMids, ToldOnce
    <2> QED BY <1>6, <2>1, <2>2 DEF Write
  <1>7. CASE \/ \E n \in Serial : Serve(n)
             \/ RecvLater \/ CallbackReturns \/ StdinAtEnd \/ Cut
    BY <1>7 DEF Serve, RecvLater, CallbackReturns, StdinAtEnd, Cut, ListOK, DistinctMids, ToldOnce
  <1> QED BY <1>1, <1>2, <1>3, <1>4, <1>5, <1>6, <1>7 DEF TransNext

LEMMA InitList ==
  ASSUME TransportAssumption, TransInit
  PROVE  ListOK
  BY DEF TransInit, ListOK, DistinctMids, ToldOnce, Serial, TransportAssumption

\* No two requests that wait have the same mid, and none of them has 0
\* (smbcli_transport_next_mid).
THEOREM DistinctMidsCorrect == TransSpec => []DistinctMids
  <1>1. TransInit => ListOK
    BY InitList, TransportAssumption
  <1>2. ListOK /\ [TransNext]_transVars => ListOK'
    BY NextList, TransportAssumption
       DEF transVars, reqVars, makeVars, listVars, ListOK, DistinctMids, ToldOnce
  <1>3. ListOK => DistinctMids
    BY DEF ListOK
  <1> QED BY <1>1, <1>2, <1>3, PTL DEF TransSpec

\* The completion function of a request is called once at most, and only when
\* the request has come to an end.
THEOREM ToldOnceCorrect == TransSpec => []ToldOnce
  <1>1. TransInit => ListOK
    BY InitList, TransportAssumption
  <1>2. ListOK /\ [TransNext]_transVars => ListOK'
    BY NextList, TransportAssumption
       DEF transVars, reqVars, makeVars, listVars, ListOK, DistinctMids, ToldOnce
  <1>3. ListOK => ToldOnce
    BY DEF ListOK
  <1> QED BY <1>1, <1>2, <1>3, PTL DEF TransSpec

----------------------------------------------------------------------------
\* The order of the requests on the way to the server.

\* While the connection is up, what the server has and what is queued make up
\* all requests so far; once it is cut neither the server gets any more nor is
\* what was left of use.
OrderOK ==
    /\ sent \in Nat /\ wire \in Seq(Serial) /\ queue \in Seq(Serial)
    /\ WireInOrder
    /\ link \in {"up", "cut"} /\ sock \in BOOLEAN
    /\ ~sock => link = "cut"
    /\ link = "up" =>
          /\ Len(wire) + Len(queue) = 2 * sent
          /\ \A i \in 1..Len(queue) : queue[i] = (Len(wire) + i + 1) \div 2

\* packet_queue_run moves the head of the queue to the wire.
LEMMA RunOrder ==
  ASSUME OrderOK, sent' \in Nat, link' = link, sock' = sock,
         NEW q \in Seq(Serial), NEW w \in 0..Len(q), packet_queue_run(q, w),
         link = "up" =>
             /\ Len(wire) + Len(q) = 2 * sent'
             /\ \A i \in 1..Len(q) : q[i] = (Len(wire) + i + 1) \div 2
  PROVE  OrderOK'
  <1> DEFINE h == SubSeq(q, 1, w)
             t == SubSeq(q, w + 1, Len(q))
  <1>1. /\ h \in Seq(Serial) /\ Len(h) = w
        /\ \A i \in 1..w : h[i] = q[i]
    OBVIOUS
  <1>2. /\ t \in Seq(Serial) /\ Len(t) = Len(q) - w
        /\ \A i \in 1..(Len(q) - w) : t[i] = q[w + i]
    OBVIOUS
  <1>3. queue' = t
    BY DEF packet_queue_run
  <1>4. CASE link = "up"
    <2>1. wire' = wire \o h
      BY <1>4 DEF packet_queue_run
    <2>2. /\ wire' \in Seq(Serial) /\ Len(wire') = Len(wire) + w
          /\ \A i \in 1..Len(wire) : wire'[i] = wire[i]
          /\ \A i \in 1..w : wire'[Len(wire) + i] = q[i]
      BY <1>1, <2>1 DEF OrderOK
    <2>3. ASSUME NEW i \in 1..Len(wire')
          PROVE  wire'[i] = (i + 1) \div 2
      <3>1. CASE i \in 1..Len(wire)
        <4>1. i \in DOMAIN wire /\ i \in Nat
          BY <3>1 DEF OrderOK
        <4>2. wire[i] = (i + 2 - 1) \div 2
          BY <4>1 DEF OrderOK, WireInOrder, Units
        <4>3. i + 2 - 1 = i + 1
          BY <4>1
        <4> QED BY <2>2, <3>1, <4>2, <4>3
      <3>2. CASE i \notin 1..Len(wire)
        <4>1. i - Len(wire) \in 1..w /\ Len(wire) \in Nat
          BY <2>2, <3>2 DEF OrderOK
        <4>2. PICK j \in 1..w : j = i - Len(wire)
          BY <4>1
        <4>3. i = Len(wire) + j
          BY <4>1, <4>2
        <4>4. q[j] = (Len(wire) + j + 1) \div 2
          BY <1>4, <4>2
        <4> QED BY <2>2, <4>3, <4>4
      <3> QED BY <3>1, <3>2
    <2>4. WireInOrder'
      BY <2>2, <2>3 DEF WireInOrder, Units
    <2>5. Len(wire') + Len(queue') = 2 * sent'
      <3>1. Len(wire) \in Nat /\ Len(q) \in Nat /\ Len(queue') = Len(q) - w
        BY <1>2, <1>3 DEF OrderOK
      <3> QED BY <1>4, <2>2, <3>1
    <2>6. ASSUME NEW i \in 1..Len(queue')
          PROVE  queue'[i] = (Len(wire') + i + 1) \div 2
      <3>1. i \in 1..(Len(q) - w) /\ w + i \in 1..Len(q) /\ Len(wire) \in Nat
        BY <1>2, <1>3 DEF OrderOK
      <3>2. q[w + i] = (Len(wire) + (w + i) + 1) \div 2
        BY <1>4, <3>1
      <3>3. Len(wire) + (w + i) + 1 = Len(wire') + i + 1
        BY <2>2, <3>1
      <3>4. queue'[i] = q[w + i]
        BY <1>2, <1>3, <3>1
      <3> QED BY <3>2, <3>3, <3>4
    <2> QED BY <1>2, <1>3, <2>2, <2>4, <2>5, <2>6 DEF OrderOK
  <1>5. CASE link # "up"
    BY <1>2, <1>3, <1>5 DEF OrderOK, packet_queue_run, WireInOrder
  <1> QED BY <1>4, <1>5

LEMMA TwoMore ==
  ASSUME NEW S, NEW s \in Seq(S), NEW p \in Seq(S), Len(p) = 2
  PROVE  /\ s \o p \in Seq(S) /\ Len(s \o p) = Len(s) + 2
         /\ \A i \in 1..Len(s) : (s \o p)[i] = s[i]
         /\ (s \o p)[Len(s) + 1] = p[1] /\ (s \o p)[Len(s) + 2] = p[2]
  <1>1. Len(s) \in Nat
    OBVIOUS
  <1>2. s \o p \in Seq(S) /\ Len(s \o p) = Len(s) + 2
    <2>1. s \o p \in Seq(S)
      BY ConcatProperties
    <2>2. Len(s \o p) = Len(s) + Len(p)
      BY ConcatProperties
    <2> QED BY <2>1, <2>2
  <1>3. \A i \in 1..(Len(s) + Len(p)) : (s \o p)[i] = IF i <= Len(s) THEN s[i] ELSE p[i - Len(s)]
    BY ConcatProperties
  <1>4. \A i \in 1..Len(s) : (s \o p)[i] = s[i]
    BY <1>1, <1>3
  <1>5. (s \o p)[Len(s) + 1] = p[(Len(s) + 1) - Len(s)]
    <2>1. Len(s) + 1 \in 1..(Len(s) + Len(p)) /\ ~(Len(s) + 1 <= Len(s))
      BY <1>1
    <2> QED BY <1>3, <2>1
  <1>6. (s \o p)[Len(s) + 2] = p[(Len(s) + 2) - Len(s)]
    <2>1. Len(s) + 2 \in 1..(Len(s) + Len(p)) /\ ~(Len(s) + 2 <= Len(s))
      BY <1>1
    <2> QED BY <1>3, <2>1
  <1>7. (Len(s) + 1) - Len(s) = 1 /\ (Len(s) + 2) - Len(s) = 2
    BY <1>1
  <1> QED BY <1>2, <1>4, <1>5, <1>6, <1>7

\* A new request is put at the end of the queue.
LEMMA MakeOrder ==
  ASSUME TransportAssumption, OrderOK, sent < MaxRequests, sent' = sent + 1
  PROVE  LET q == queue \o Packet(sent + 1)
         IN  /\ q \in Seq(Serial) /\ Len(q) = Len(queue) + 2
             /\ link = "up" =>
                   /\ Len(wire) + Len(q) = 2 * sent'
                   /\ \A i \in 1..Len(q) : q[i] = (Len(wire) + i + 1) \div 2
  <1> DEFINE n == sent + 1
             p == Packet(n)
             q == queue \o p
  <1>1. n \in Serial /\ sent \in Nat /\ Len(wire) \in Nat /\ Len(queue) \in Nat
    BY DEF OrderOK, Serial, TransportAssumption
  <1>2. p \in Seq(Serial) /\ Len(p) = 2 /\ p[1] = n /\ p[2] = n
    BY <1>1, PacketType
  <1> HIDE DEF p
  <1>3. /\ q \in Seq(Serial) /\ Len(q) = Len(queue) + 2
        /\ \A i \in 1..Len(queue) : q[i] = queue[i]
        /\ q[Len(queue) + 1] = p[1] /\ q[Len(queue) + 2] = p[2]
    <2>1. queue \in Seq(Serial)
      BY DEF OrderOK
    <2> QED BY <1>2, <2>1, TwoMore
  <1>4. ASSUME link = "up"
        PROVE  /\ Len(wire) + Len(q) = 2 * sent'
               /\ \A i \in 1..Len(q) : q[i] = (Len(wire) + i + 1) \div 2
    <2>1. Len(wire) + Len(queue) = 2 * sent
      BY <1>4 DEF OrderOK
    <2>2. Len(wire) + Len(q) = 2 * sent'
      BY <1>1, <1>3, <2>1, SMTT(30)
    <2>3. ASSUME NEW i \in 1..Len(q)
          PROVE  q[i] = (Len(wire) + i + 1) \div 2
      <3>1. CASE i \in 1..Len(queue)
        BY <1>3, <1>4, <3>1 DEF OrderOK
      <3>2. CASE i = Len(queue) + 1
        <4>1. Len(wire) + i + 1 = 2 * n
          BY <1>1, <2>1, <3>2
        <4>2. (2 * n) \div 2 = n
          BY <1>1
        <4> QED BY <1>2, <1>3, <3>2, <4>1, <4>2
      <3>3. CASE i = Len(queue) + 2
        <4>1. Len(wire) + i + 1 = 2 * n + 1
          BY <1>1, <2>1, <3>3
        <4>2. (2 * n + 1) \div 2 = n
          BY <1>1
        <4> QED BY <1>2, <1>3, <3>3, <4>1, <4>2
      <3> QED BY <1>1, <1>3, <3>1, <3>2, <3>3
    <2> QED BY <2>2, <2>3
  <1> QED BY <1>3, <1>4 DEF p

LEMMA NextOrder ==
  ASSUME TransportAssumption, OrderOK, TransNext
  PROVE  OrderOK'
  <1> USE DEF makeVars, reqVars, sockVars, serverVars
  <1>1. ASSUME NEW m \in Mid, Make(m)
        PROVE  OrderOK'
    <2>1. /\ sent < MaxRequests /\ sent' = sent + 1 /\ link' = link
          /\ sent' \in Nat /\ Len(queue) \in Nat
      BY <1>1 DEF Make, OrderOK
    <2>2. CASE /\ sock /\ sock' = sock
               /\ \E w \in 0..(Len(queue) + Units) :
                      packet_queue_run(queue \o Packet(sent + 1), w)
      <3>1. PICK w \in 0..(Len(queue) + 2) : packet_queue_run(queue \o Packet(sent + 1), w)
        BY <2>2 DEF Units
      <3> QED BY <2>1, <2>2, <3>1, MakeOrder, RunOrder
    <2>3. CASE ~sock /\ UNCHANGED <<queue, sockVars, wire>>
      BY <2>1, <2>3 DEF OrderOK, WireInOrder
    <2> QED BY <1>1, <2>2, <2>3 DEF Make
  <1>2. ASSUME NEW m \in Mid, MakeFails(m)
        PROVE  OrderOK'
    <2>1. /\ sent < MaxRequests /\ sent' = sent + 1 /\ link = "cut" /\ link' = link
          /\ sent' \in Nat /\ wire' = wire /\ sock' = FALSE
          /\ queue' = queue \o Packet(sent + 1)
      BY <1>2 DEF MakeFails, OrderOK
    <2>2. queue' \in Seq(Serial)
      BY <2>1, MakeOrder
    <2> QED BY <2>1, <2>2 DEF OrderOK, WireInOrder
  <1>3. CASE Write
    <2>1. CASE \E w \in 1..Len(queue) : packet_queue_run(queue, w) /\ UNCHANGED <<reqVars, sock>>
      BY <1>3, <2>1, RunOrder DEF Write, OrderOK
    <2>2. CASE link = "cut" /\ smbcli_transport_dead /\ UNCHANGED <<makeVars, queue, wire>>
      BY <1>3, <2>2 DEF Write, smbcli_transport_dead, OrderOK, WireInOrder
    <2> QED BY <1>3, <2>1, <2>2 DEF Write
  <1>4. CASE RecvFails
    BY <1>4 DEF RecvFails, Readable, smbcli_transport_dead, OrderOK, WireInOrder
  <1>5. CASE Cut
    BY <1>5 DEF Cut, OrderOK, WireInOrder
  <1>6. CASE \/ \E n \in Serial : Destroy(n) \/ smbcli_timeout_handler(n) \/ Serve(n)
             \/ Recv \/ RecvLater \/ CallbackReturns \/ StdinAtEnd
    BY <1>6 DEF Destroy, smbcli_timeout_handler, Serve, Recv, RecvLater, CallbackReturns,
                StdinAtEnd, OrderOK, WireInOrder
  <1> QED BY <1>1, <1>2, <1>3, <1>4, <1>5, <1>6 DEF TransNext

\* Requests reach the server whole and in the order they were made, in parts of
\* any length, whichever of them time out or are destroyed on the way.
THEOREM WireInOrderCorrect == TransSpec => []WireInOrder
  <1>1. TransInit => OrderOK
    BY DEF TransInit, OrderOK, WireInOrder
  <1>2. OrderOK /\ [TransNext]_transVars => OrderOK'
    BY NextOrder, TransportAssumption
       DEF transVars, reqVars, makeVars, sockVars, serverVars, OrderOK, WireInOrder
  <1>3. OrderOK => WireInOrder
    BY DEF OrderOK
  <1> QED BY <1>1, <1>2, <1>3, PTL DEF TransSpec

----------------------------------------------------------------------------
\* The types of the rest.

Part == [req : Serial, mid : 0..(MidSpace - 1), last : BOOLEAN]
RestOK ==
    /\ next_mid \in 0..(MidSpace - 1)
    /\ readable \in BOOLEAN /\ writeable \in BOOLEAN
    /\ processing \in 0..2
    /\ replied \subseteq Serial
    /\ stream \in Seq(Part)
    /\ answer \in [Serial -> 0..MaxRequests]

\* All that is proved of the state, by one induction.
TypeInv == ListOK /\ OrderOK /\ RestOK

LEMMA ReplyType ==
  ASSUME NEW n \in Serial, mid[n] \in 0..(MidSpace - 1), stream \in Seq(Part)
  PROVE  stream \o [u \in 1..Units |-> [req |-> n, mid |-> mid[n], last |-> u = Units]] \in Seq(Part)
  <1> DEFINE r == [u \in 1..2 |-> [req |-> n, mid |-> mid[n], last |-> u = 2]]
  <1>1. \A u \in 1..2 : r[u] \in Part
    BY DEF Part
  <1>2. r \in [1..2 -> Part]
    BY <1>1
  <1>3. r \in Seq(Part)
    BY <1>2
  <1> HIDE DEF r
  <1>4. stream \o r \in Seq(Part)
    BY <1>3, ConcatProperties
  <1> QED BY <1>4 DEF r, Units

\* The flags of the socket stay flags.
LEMMA RunFlag ==
  ASSUME NEW q \in Seq(Serial), NEW w \in Int, packet_queue_run(q, w)
  PROVE  writeable' \in BOOLEAN
  <1>1. writeable' = (w < Len(q))
    BY DEF packet_queue_run
  <1>2. (w < Len(q)) \in BOOLEAN
    BY SMT
  <1> QED BY <1>1, <1>2, Zenon

LEMMA NextFlags ==
  ASSUME TransportAssumption, OrderOK, RestOK, TransNext
  PROVE  readable' \in BOOLEAN /\ writeable' \in BOOLEAN
  <1> USE DEF sockVars
  <1>1. readable \in BOOLEAN /\ writeable \in BOOLEAN
    BY DEF RestOK
  <1>2. ASSUME NEW m \in Mid, Make(m) \/ MakeFails(m)
        PROVE  readable' \in BOOLEAN /\ writeable' \in BOOLEAN
    <2>1. CASE Make(m)
      <3> DEFINE q == queue \o Packet(sent + 1)
      <3>1. readable' = readable /\ sent < MaxRequests /\ sent' = sent + 1
        BY <2>1, Zenon DEF Make
      <3>2. CASE \E w \in 0..(Len(queue) + Units) : packet_queue_run(q, w)
        <4>1. PICK w \in 0..(Len(queue) + Units) : packet_queue_run(q, w)
          BY <3>2
        <4>2. w \in Int /\ q \in Seq(Serial)
          BY <3>1, MakeOrder DEF OrderOK, Units
        <4> QED BY <1>1, <3>1, <4>1, <4>2, RunFlag, Zenon
      <3>3. CASE writeable' = writeable
        BY <1>1, <3>1, <3>3, Zenon
      <3> QED BY <2>1, <3>2, <3>3, Zenon DEF Make
    <2>2. CASE MakeFails(m)
      BY <2>2, Zenon DEF MakeFails
    <2> QED BY <1>2, <2>1, <2>2
  <1>3. CASE CallbackReturns
    <2>1. readable' = (readable \/ (sock /\ processing = 2)) /\ writeable' = writeable
      BY <1>3, Zenon DEF CallbackReturns
    <2> QED BY <1>1, <2>1, Zenon
  <1>4. CASE Write
    <2>1. CASE readable' = readable /\ \E w \in 1..Len(queue) : packet_queue_run(queue, w)
      <3>1. PICK w \in 1..Len(queue) : packet_queue_run(queue, w)
        BY <2>1
      <3>2. w \in Int /\ queue \in Seq(Serial)
        BY DEF OrderOK
      <3> QED BY <1>1, <2>1, <3>1, <3>2, RunFlag, Zenon
    <2>2. CASE readable' = FALSE /\ writeable' = FALSE
      BY <2>2, Zenon
    <2> QED BY <1>4, <2>1, <2>2, Zenon DEF Write, smbcli_transport_dead
  <1>5. CASE RecvFails
    BY <1>5, Zenon DEF RecvFails, smbcli_transport_dead
  <1>6. CASE RecvLater
    BY <1>1, <1>6, Zenon DEF RecvLater
  <1>7. CASE \/ \E n \in Serial : Destroy(n) \/ smbcli_timeout_handler(n) \/ Serve(n)
             \/ Recv \/ StdinAtEnd \/ Cut
    <2>1. readable' = readable /\ writeable' = writeable
      BY <1>7, Zenon DEF Destroy, smbcli_timeout_handler, Serve, Recv, StdinAtEnd, Cut
    <2> QED BY <1>1, <2>1, Zenon
  <1> QED BY <1>2, <1>3, <1>4, <1>5, <1>6, <1>7, Zenon DEF TransNext

LEMMA NextRest ==
  ASSUME TransportAssumption, ListOK, OrderOK, RestOK, TransNext
  PROVE  RestOK'
  <1> USE DEF makeVars, reqVars, sockVars, serverVars, listVars
  <1>1. ASSUME NEW m \in Mid, Make(m) \/ MakeFails(m)
        PROVE  RestOK'
    <2>1. next_mid' \in 0..(MidSpace - 1)
      <3>1. next_mid' = (m + 1) % MidSpace
        BY <1>1 DEF Make, MakeFails
      <3>2. m + 1 \in Nat /\ MidSpace \in Nat /\ MidSpace > 0
        BY DEF Mid, TransportAssumption
      <3> QED BY <3>1, <3>2
    <2>2. readable' \in BOOLEAN /\ writeable' \in BOOLEAN
      BY NextFlags
    <2>3. UNCHANGED <<processing, replied, stream, answer>>
      BY <1>1 DEF Make, MakeFails
    <2> QED BY <2>1, <2>2, <2>3 DEF RestOK
  <1>2. ASSUME NEW n \in Serial, Serve(n)
        PROVE  RestOK'
    <2>1. mid[n] \in 0..(MidSpace - 1)
      BY DEF ListOK
    <2>2. stream' \in Seq(Part)
      BY <1>2, <2>1, ReplyType DEF Serve, RestOK
    <2> QED BY <1>2, <2>2 DEF Serve, RestOK
  <1>3. CASE Recv
    <2>1. Head(stream) \in Part /\ stream' \in Seq(Part)
      BY <1>3 DEF Recv, RestOK
    <2>2. CASE smbcli_transport_finish_recv(Head(stream))
      <3>1. Head(stream).req \in 0..MaxRequests
        BY <2>1 DEF Part, Serial, TransportAssumption
      <3>2. answer' \in [Serial -> 0..MaxRequests]
        BY <2>2, <3>1 DEF smbcli_transport_finish_recv, RestOK
      <3>3. processing' \in 0..2
        BY <2>2 DEF smbcli_transport_finish_recv, RestOK
      <3> QED BY <1>3, <2>1, <3>2, <3>3 DEF Recv, RestOK
    <2>3. CASE UNCHANGED <<answer, processing>>
      BY <1>3, <2>1, <2>3 DEF Recv, RestOK
    <2> QED BY <1>3, <2>2, <2>3 DEF Recv
  <1>4. CASE Cut
    BY <1>4 DEF Cut, RestOK
  <1>5. CASE \/ \E n \in Serial : Destroy(n) \/ smbcli_timeout_handler(n)
             \/ Write \/ RecvFails \/ RecvLater \/ CallbackReturns \/ StdinAtEnd
    <2>1. UNCHANGED <<next_mid, replied, stream, answer>> /\ processing' \in {processing, 0, 2}
      BY <1>5 DEF Destroy, smbcli_timeout_handler, Write, RecvFails, RecvLater,
                  CallbackReturns, StdinAtEnd
    <2> QED BY <2>1, NextFlags DEF RestOK
  <1> QED BY <1>1, <1>2, <1>3, <1>4, <1>5 DEF TransNext

LEMMA InitType ==
  ASSUME TransInit
  PROVE  TypeInv
  <1>1. ListOK
    BY InitList, TransportAssumption
  <1>2. OrderOK
    BY DEF TransInit, OrderOK, WireInOrder
  <1>3. RestOK
    <2>1. 0 \in 0..(MidSpace - 1) /\ 0 \in 0..MaxRequests /\ <<>> \in Seq(Part)
      BY TransportAssumption DEF TransportAssumption
    <2>2. answer \in [Serial -> 0..MaxRequests]
      BY <2>1 DEF TransInit
    <2>3. readable \in BOOLEAN /\ writeable \in BOOLEAN
      BY Zenon DEF TransInit
    <2> QED BY <2>1, <2>2, <2>3 DEF TransInit, RestOK
  <1> QED BY <1>1, <1>2, <1>3 DEF TypeInv

\* The state of the connection is of its type in every reachable state.
THEOREM TransTypeCorrect == TransSpec => []TransTypeOK
  <1>1. TransInit => TypeInv
    BY InitType
  <1>2. TypeInv /\ [TransNext]_transVars => TypeInv'
    <2> SUFFICES ASSUME TypeInv, [TransNext]_transVars PROVE TypeInv'
      OBVIOUS
    <2>1. CASE TransNext
      BY <2>1, NextList, NextOrder, NextRest, TransportAssumption DEF TypeInv
    <2>2. CASE UNCHANGED transVars
      BY <2>2 DEF transVars, reqVars, makeVars, listVars, sockVars, serverVars, TypeInv,
                  ListOK, OrderOK, RestOK, DistinctMids, ToldOnce, WireInOrder
    <2> QED BY <2>1, <2>2
  <1>3. TypeInv => TransTypeOK
    BY DEF TypeInv, ListOK, OrderOK, RestOK, Part, TransTypeOK
  <1> QED BY <1>1, <1>2, <1>3, PTL DEF TransSpec
----------------------------------------------------------------------------
\* The mids of the last Window requests. The mids from a to b, and those that
\* are passed over from b to m, round the end of the space.

Between(a, b) == IF a < b THEN {p \in Mid : a < p /\ p < b} ELSE {p \in Mid : a < p \/ p < b}
Stretch(b, m) == IF b <= m THEN {p \in Mid : b <= p /\ p < m} ELSE {p \in Mid : b <= p \/ p < m}
After(m) == IF m = MidSpace - 1 THEN 1 ELSE m + 1

Older(n) == {mid[k] : k \in {j \in pending : j < n}}

\* The mids from a request's own to the next one are those of the requests made
\* since, or were passed over because older requests had them.
LapInv ==
    /\ \A n \in 1..sent : mid[n] \in Mid
    /\ \A n \in 1..sent : sent - n < Window =>
          /\ \A k \in (n + 1)..sent : mid[k] \in Between(mid[n], First)
          /\ Cardinality(Between(mid[n], First) \union Older(n)) <= sent - n + MaxPending - 1

LEMMA Advance ==
  ASSUME TransportAssumption, NEW a \in Mid, NEW b \in Mid, NEW m \in Mid,
         a \notin Stretch(b, m) \union {m}
  PROVE  Between(a, After(m)) = Between(a, b) \union Stretch(b, m) \union {m}
  <1> USE DEF Mid, TransportAssumption
  <1>1. CASE m = MidSpace - 1
    BY <1>1 DEF Between, Stretch, After
  <1>2. CASE m # MidSpace - 1
    BY <1>2 DEF Between, Stretch, After
  <1> QED BY <1>1, <1>2

LEMMA FullLap ==
  ASSUME TransportAssumption, NEW a \in Mid, NEW b \in Mid, NEW m \in Mid,
         a \in Stretch(b, m) \union {m}
  PROVE  Mid \ {a} \subseteq Between(a, b) \union Stretch(b, m)
  BY DEF Mid, TransportAssumption, Between, Stretch

LEMMA Modulo ==
  ASSUME NEW n \in Nat, n > 0, NEW x \in Nat, x < 2 * n
  PROVE  x % n = IF x < n THEN x ELSE x - n
  OBVIOUS

LEMMA FirstMid ==
  ASSUME TransportAssumption, next_mid \in 0..(MidSpace - 1)
  PROVE  First \in Mid
  BY DEF First, Mid, TransportAssumption

\* smbcli_transport_next_mid passes over used mids only.
LEMMA PassedOver ==
  ASSUME TransportAssumption, next_mid \in 0..(MidSpace - 1), NEW m \in Mid, IsNextMid(m)
  PROVE  m \notin UsedMids /\ Stretch(First, m) \subseteq UsedMids
  <1>1. First \in Mid
    BY FirstMid
  <1>2. ASSUME NEW k \in Mid
        PROVE  Ahead(k) = IF First <= k THEN k - First ELSE k - First + MidSpace - 1
    <2>1. CASE First <= k
      <3>1. k - First + MidSpace - 1 \in Nat /\ k - First + MidSpace - 1 < 2 * (MidSpace - 1)
            /\ ~(k - First + MidSpace - 1 < MidSpace - 1) /\ MidSpace - 1 \in Nat /\ MidSpace - 1 > 0
            /\ First \in Int /\ k \in Int
        BY <1>1, <2>1 DEF Mid, TransportAssumption
      <3>2. (k - First + MidSpace - 1) % (MidSpace - 1) = k - First + MidSpace - 1 - (MidSpace - 1)
        BY <3>1, Modulo
      <3> QED BY <2>1, <3>1, <3>2 DEF Ahead
    <2>2. CASE ~(First <= k)
      <3>1. k - First + MidSpace - 1 \in Nat /\ k - First + MidSpace - 1 < 2 * (MidSpace - 1)
            /\ k - First + MidSpace - 1 < MidSpace - 1 /\ MidSpace - 1 \in Nat /\ MidSpace - 1 > 0
        BY <1>1, <2>2 DEF Mid, TransportAssumption
      <3>2. (k - First + MidSpace - 1) % (MidSpace - 1) = k - First + MidSpace - 1
        BY <3>1, Modulo
      <3> QED BY <2>2, <3>2 DEF Ahead
    <2> QED BY <2>1, <2>2
  <1>3. ASSUME NEW p \in Stretch(First, m), p \notin UsedMids
        PROVE  FALSE
    <2>1. p \in Mid /\ Ahead(m) <= Ahead(p)
      BY <1>3 DEF IsNextMid, Stretch
    <2> HIDE DEF First, Ahead
    <2> QED BY <1>1, <1>2, <1>3, <2>1 DEF Stretch, Mid, TransportAssumption
  <1> QED BY <1>3 DEF IsNextMid

LEMMA FirstAfter ==
  ASSUME TransportAssumption, NEW m \in Mid, next_mid' = (m + 1) % MidSpace
  PROVE  First' = After(m)
  <1>1. m + 1 \in Nat /\ MidSpace \in Nat /\ MidSpace > 0 /\ m + 1 < 2 * MidSpace
    BY DEF Mid, TransportAssumption
  <1> DEFINE x == m + 1
  <1> HIDE DEF x
  <1>2. x % MidSpace = IF x < MidSpace THEN x ELSE x - MidSpace
    <2>1. x \in Nat /\ x < 2 * MidSpace
      BY <1>1 DEF x
    <2> QED BY <1>1, <2>1, Modulo
  <1> USE DEF x
  <1> QED BY <1>1, <1>2 DEF First, After, Mid

LEMMA MidsFinite ==
  ASSUME TransportAssumption
  PROVE  /\ IsFiniteSet(Mid) /\ Cardinality(Mid) = MidSpace - 1
         /\ \A a \in Mid : Cardinality(Mid \ {a}) = MidSpace - 2
  <1>1. 1 \in Int /\ MidSpace - 1 \in Int /\ 1 <= MidSpace - 1
    BY DEF TransportAssumption
  <1>2. IsFiniteSet(Mid) /\ Cardinality(Mid) = MidSpace - 1
    BY <1>1, FS_Interval DEF Mid
  <1> QED BY <1>1, <1>2, FS_RemoveElement

LEMMA PendingFinite ==
  ASSUME TransportAssumption, ListOK
  PROVE  IsFiniteSet(pending) /\ Cardinality(UsedMids) <= Cardinality(pending)
  <1>1. IsFiniteSet(1..sent)
    BY FS_Interval DEF ListOK, TransportAssumption
  <1>2. IsFiniteSet(pending)
    BY <1>1, FS_Subset DEF ListOK
  <1> DEFINE f == [n \in pending |-> mid[n]]
  <1>3. f \in Surjection(pending, UsedMids)
    BY DEF Surjection, UsedMids
  <1> HIDE DEF f
  <1> QED BY <1>2, <1>3, FS_Surjection

\* A window of requests fits in the space of mids, so that the mids of no two of
\* them are the same.
LEMMA LapFits ==
  ASSUME TransportAssumption, MidsSuffice, ListOK, LapInv, next_mid \in 0..(MidSpace - 1),
         NEW m \in Mid, IsNextMid(m), NEW n \in 1..sent, sent - n < Window
  PROVE  /\ mid[n] \notin Stretch(First, m) \union {m}
         /\ Stretch(First, m) \subseteq Between(mid[n], First) \union Older(n)
         /\ IsFiniteSet(Between(mid[n], First) \union Older(n))
  <1> DEFINE G == Between(mid[n], First) \union Older(n)
  <1>a. mid[n] \in Mid /\ First \in Mid /\ sent \in Nat /\ n \in Nat
    BY FirstMid DEF LapInv, ListOK, TransportAssumption
  <1>b. Cardinality(G) <= sent - n + MaxPending - 1
    BY DEF LapInv
  <1>1. Stretch(First, m) \subseteq G \union {mid[n]}
    <2> SUFFICES ASSUME NEW p \in Stretch(First, m), p # mid[n]
                 PROVE  p \in G
      OBVIOUS
    <2>1. PICK k \in pending : p = mid[k]
      BY PassedOver DEF UsedMids
    <2>2. k \in 1..sent /\ k # n
      BY <2>1 DEF ListOK
    <2>3. CASE k < n
      BY <2>1, <2>3 DEF Older
    <2>4. CASE k > n
      <3>1. k \in (n + 1)..sent
        BY <2>2, <2>4, <1>a
      <3> QED BY <2>1, <3>1 DEF LapInv
    <2> QED BY <2>2, <2>3, <2>4, <1>a
  <1>2. IsFiniteSet(G)
    <2>1. G \subseteq Mid
      <3>1. Older(n) \subseteq Mid
        BY DEF Older, LapInv, ListOK
      <3> QED BY <3>1 DEF Between
    <2> QED BY <2>1, MidsFinite, FS_Subset
  <1>3. mid[n] \notin Stretch(First, m) \union {m}
    <2> SUFFICES ASSUME mid[n] \in Stretch(First, m) \union {m}
                 PROVE  FALSE
      OBVIOUS
    <2>1. Mid \ {mid[n]} \subseteq G
      BY <1>a, <1>1, FullLap
    <2>2. MidSpace - 2 <= Cardinality(G) /\ Cardinality(G) \in Nat
      <3> HIDE DEF G
      <3>1. Cardinality(Mid \ {mid[n]}) = MidSpace - 2
        BY <1>a, MidsFinite
      <3>2. Cardinality(Mid \ {mid[n]}) <= Cardinality(G)
        BY <2>1, <1>2, FS_Subset
      <3> QED BY <1>2, <3>1, <3>2, FS_CardinalityType
    <2> HIDE DEF G
    <2> QED BY <1>a, <1>b, <2>2 DEF MidsSuffice, TransportAssumption
  <1> QED BY <1>1, <1>2, <1>3

LEMMA MakeLap ==
  ASSUME TransportAssumption, MidsSuffice, ListOK, LapInv, next_mid \in 0..(MidSpace - 1),
         NEW m \in Mid, Make(m) \/ MakeFails(m)
  PROVE  LapInv'
  <1>0. PICK N \in Serial : N = sent + 1
    BY DEF Make, MakeFails, ListOK, Serial, TransportAssumption
  <1>a. /\ IsNextMid(m) /\ sent' = N /\ mid' = [mid EXCEPT ![N] = m] /\ N = sent + 1
        /\ Cardinality(pending) < MaxPending /\ First' = After(m) /\ sent \in Nat
    BY <1>0, FirstAfter DEF Make, MakeFails, ListOK, TransportAssumption
  <1>b. pending' \subseteq pending \union {N}
    BY <1>0 DEF Make, MakeFails
  <1>c. mid'[N] = m /\ \A k \in 1..sent : mid'[k] = mid[k]
    BY <1>a DEF ListOK, Serial
  <1>d. pending \subseteq 1..sent
    BY DEF ListOK
  <1>e. Cardinality(UsedMids) \in Nat /\ IsFiniteSet(UsedMids) /\ Cardinality(UsedMids) <= Cardinality(pending) /\ Cardinality(pending) \in Nat
    <2>1. UsedMids \subseteq Mid
      BY DEF UsedMids, LapInv, ListOK
    <2> QED BY <2>1, MidsFinite, PendingFinite, FS_Subset, FS_CardinalityType
  <1>1. \A n \in 1..sent' : mid'[n] \in Mid
    BY <1>a, <1>c DEF LapInv
  <1>2. Cardinality(Between(m, After(m)) \union Older(N)') <= MaxPending - 1
    <2>1. Between(m, After(m)) = {}
      BY DEF Between, After, Mid, TransportAssumption
    <2>2. Older(N)' \subseteq UsedMids
      <3>1. ASSUME NEW k \in pending', k < N PROVE mid'[k] \in UsedMids
        <4>1. k \in pending
          BY <3>1, <1>a, <1>b, <1>d
        <4> QED BY <4>1, <1>c, <1>d DEF UsedMids
      <3> QED BY <3>1 DEF Older
    <2> QED BY <1>a, <1>e, <2>1, <2>2, FS_Subset, FS_CardinalityType DEF TransportAssumption
  <1>3. ASSUME NEW n \in 1..sent, N - n < Window
        PROVE  /\ \A k \in (n + 1)..N : mid'[k] \in Between(mid[n], After(m))
               /\ Cardinality(Between(mid[n], After(m)) \union Older(n)') <= N - n + MaxPending - 1
    <2> DEFINE G == Between(mid[n], First) \union Older(n)
    <2>1. sent - n < Window /\ mid[n] \in Mid /\ First \in Mid
      BY <1>3, <1>a, FirstMid DEF LapInv, TransportAssumption
    <2>2. /\ mid[n] \notin Stretch(First, m) \union {m} /\ IsFiniteSet(G)
          /\ Stretch(First, m) \subseteq G
      BY <1>a, <2>1, LapFits
    <2>3. Between(mid[n], After(m)) = Between(mid[n], First) \union Stretch(First, m) \union {m}
      BY <2>1, <2>2, Advance
    <2>4. ASSUME NEW k \in (n + 1)..N
          PROVE  mid'[k] \in Between(mid[n], After(m))
      <3>1. k = N \/ k \in (n + 1)..sent
        BY <1>a
      <3>2. k \in (n + 1)..sent => mid[k] \in Between(mid[n], First) /\ mid'[k] = mid[k]
        <4>1. \A j \in (n + 1)..sent : mid[j] \in Between(mid[n], First)
          BY <2>1 DEF LapInv
        <4>2. \A j \in (n + 1)..sent : j \in 1..sent
          BY <1>a
        <4> QED BY <1>c, <4>1, <4>2
      <3> QED BY <1>c, <2>3, <3>1, <3>2
    <2>5. Older(n)' \subseteq Older(n)
      <3>1. ASSUME NEW k \in pending', k < n PROVE k \in pending /\ mid'[k] = mid[k]
        BY <3>1, <1>a, <1>b, <1>c, <1>d
      <3> QED BY <3>1 DEF Older
    <2>6. Between(mid[n], After(m)) \union Older(n)' \subseteq G \union {m}
      BY <2>2, <2>3, <2>5
    <2>7. Cardinality(G) <= sent - n + MaxPending - 1
      BY <2>1 DEF LapInv
    <2> HIDE DEF G
    <2>8. /\ IsFiniteSet(G \union {m}) /\ Cardinality(G \union {m}) <= Cardinality(G) + 1
          /\ Cardinality(G) \in Nat /\ Cardinality(G \union {m}) \in Nat
      <3>1. IsFiniteSet(G) /\ Cardinality(G) \in Nat
        BY <2>2, FS_CardinalityType DEF G
      <3>2. IsFiniteSet(G \union {m}) /\ Cardinality(G \union {m}) \in Nat
        BY <3>1, FS_AddElement, FS_CardinalityType
      <3> QED BY <3>1, <3>2, FS_AddElement
    <2>9. Cardinality(Between(mid[n], After(m)) \union Older(n)') <= Cardinality(G \union {m})
      BY <2>6, <2>8, FS_Subset
    <2>10. Cardinality(Between(mid[n], After(m)) \union Older(n)') \in Nat
      BY <2>6, <2>8, FS_Subset, FS_CardinalityType
    <2> QED BY <1>a, <2>4, <2>7, <2>8, <2>9, <2>10 DEF TransportAssumption
  <1>4. ASSUME NEW n \in 1..sent', sent' - n < Window
        PROVE  /\ \A k \in (n + 1)..sent' : mid'[k] \in Between(mid'[n], First')
               /\ Cardinality(Between(mid'[n], First') \union Older(n)') <= sent' - n + MaxPending - 1
    <2>1. CASE n = N
      <3>1. mid'[n] = m /\ First' = After(m) /\ sent' - n = 0 /\ (n + 1)..sent' = {}
        BY <1>a, <1>c, <2>1
      <3>2. Cardinality(Between(mid'[n], First') \union Older(n)') <= MaxPending - 1
        BY <1>2, <2>1, <3>1
      <3> QED BY <3>1, <3>2 DEF TransportAssumption
    <2>2. CASE n # N
      BY <1>a, <1>c, <1>3, <1>4, <2>2
    <2> QED BY <2>1, <2>2
  <1> QED BY <1>1, <1>4 DEF LapInv

LEMMA KeepsLap ==
  ASSUME TransportAssumption, ListOK, LapInv, UNCHANGED makeVars, pending' \subseteq pending
  PROVE  LapInv'
  <1>1. First' = First /\ sent' = sent /\ mid' = mid
    BY DEF makeVars, First
  <1>2. ASSUME NEW n \in 1..sent
        PROVE  Cardinality(Between(mid[n], First) \union Older(n)')
                  <= Cardinality(Between(mid[n], First) \union Older(n))
    <2>1. Older(n)' \subseteq Older(n)
      BY <1>1 DEF Older
    <2>2. Between(mid[n], First) \union Older(n) \subseteq Mid
      BY DEF Between, Older, LapInv, ListOK
    <2> QED BY <2>1, <2>2, MidsFinite, FS_Subset
  <1>3. ASSUME NEW n \in 1..sent
        PROVE  /\ Cardinality(Between(mid[n], First) \union Older(n)') \in Nat
               /\ Cardinality(Between(mid[n], First) \union Older(n)) \in Nat
    <2>1. Between(mid[n], First) \union Older(n) \subseteq Mid
      BY DEF Between, Older, LapInv, ListOK
    <2>2. Between(mid[n], First) \union Older(n)' \subseteq Mid
      BY <1>1 DEF Between, Older, LapInv, ListOK
    <2> QED BY <2>1, <2>2, MidsFinite, FS_Subset, FS_CardinalityType
  <1>4. ASSUME NEW n \in 1..sent, sent - n < Window
        PROVE  /\ \A k \in (n + 1)..sent : mid[k] \in Between(mid[n], First)
               /\ Cardinality(Between(mid[n], First) \union Older(n)') <= sent - n + MaxPending - 1
    <2>1. /\ \A k \in (n + 1)..sent : mid[k] \in Between(mid[n], First)
          /\ Cardinality(Between(mid[n], First) \union Older(n)) <= sent - n + MaxPending - 1
      BY <1>4 DEF LapInv
    <2>2. sent \in Nat /\ n \in Nat /\ MaxPending \in Nat
      BY DEF ListOK, TransportAssumption
    <2>3. /\ Cardinality(Between(mid[n], First) \union Older(n)')
                <= Cardinality(Between(mid[n], First) \union Older(n))
          /\ Cardinality(Between(mid[n], First) \union Older(n)') \in Nat
          /\ Cardinality(Between(mid[n], First) \union Older(n)) \in Nat
      BY <1>2, <1>3
    <2>4. \A x, y \in Nat : x <= y /\ y <= sent - n + MaxPending - 1 => x <= sent - n + MaxPending - 1
      BY <2>2
    <2> QED BY <2>1, <2>3, <2>4
  <1> QED BY <1>1, <1>4 DEF LapInv

----------------------------------------------------------------------------
\* What becomes of requests and replies.

FateInv ==
    /\ \A n \in 1..sent : state[n] # "unused"
    /\ \A n \in Serial : state[n] = "recv" => n \in pending
    /\ \A n \in Serial : state[n] = "done" => answer[n] = n /\ n \in replied
    /\ \A n \in replied : 2 * n <= Len(wire)
    /\ Len(wire) <= 2 * sent

\* A reply may still come to a request, and has the mid of no other one then.
Unanswered(n) ==
    /\ state[n] \in {"recv", "error", "destroyed"}
    /\ n \notin replied \/ \E i \in DOMAIN stream : stream[i].req = n

ReplyInv ==
    /\ \A n \in 1..sent, k \in pending : k # n /\ Unanswered(n) => mid[k] # mid[n]
    /\ \A i \in DOMAIN stream : /\ stream[i].req \in replied
                                /\ stream[i].mid = mid[stream[i].req]
                                /\ state[stream[i].req] # "done"
    /\ \A i, j \in DOMAIN stream : i < j /\ stream[i].req = stream[j].req => ~stream[i].last

LEMMA RepliedMade ==
  ASSUME TransportAssumption, OrderOK, RestOK, FateInv
  PROVE  replied \subseteq 1..sent
  <1> SUFFICES ASSUME NEW n \in replied
               PROVE  n \in 1..sent
    OBVIOUS
  <1>1. n \in Nat /\ n >= 1 /\ Len(wire) \in Nat /\ sent \in Nat
    BY DEF RestOK, OrderOK, Serial, TransportAssumption
  <1>2. 2 * n <= Len(wire) /\ Len(wire) <= 2 * sent
    BY DEF FateInv
  <1> QED BY <1>1, <1>2

\* The steps that neither make a request nor a reply, nor use one up.
Keeps ==
    /\ UNCHANGED <<makeVars, replied, answer>>
    /\ pending' \subseteq pending
    /\ \A n \in Serial :
          \/ state'[n] = state[n] /\ (n \in pending => n \in pending')
          \/ state[n] = "recv" /\ state'[n] \in {"error", "destroyed"}
    /\ \A i \in DOMAIN stream' : i \in DOMAIN stream /\ stream'[i] = stream[i]

LEMMA KeepsReplies ==
  ASSUME TransportAssumption, ListOK, RestOK, ReplyInv, Keeps
  PROVE  ReplyInv'
  <1>1. \A n \in Serial : Unanswered(n)' => Unanswered(n)
    BY DEF Keeps, Unanswered
  <1>2. \A n \in 1..sent : n \in Serial
    BY DEF ListOK, Serial, TransportAssumption
  <1>3. \A n \in 1..sent', k \in pending' : k # n /\ Unanswered(n)' => mid'[k] # mid'[n]
    BY <1>1, <1>2 DEF Keeps, makeVars, ReplyInv
  <1>4. \A i \in DOMAIN stream' : /\ stream'[i].req \in replied'
                                  /\ stream'[i].mid = mid'[stream'[i].req]
                                  /\ state'[stream'[i].req] # "done"
    <2> SUFFICES ASSUME NEW i \in DOMAIN stream'
                 PROVE  /\ stream'[i].req \in replied'
                        /\ stream'[i].mid = mid'[stream'[i].req]
                        /\ state'[stream'[i].req] # "done"
      OBVIOUS
    <2>1. /\ stream'[i].req \in replied /\ stream'[i].mid = mid[stream'[i].req]
          /\ state[stream'[i].req] # "done"
      BY DEF Keeps, ReplyInv
    <2> QED BY <2>1 DEF Keeps, makeVars, RestOK
  <1> QED BY <1>3, <1>4 DEF ReplyInv, Keeps

LEMMA EndsKeeps ==
  ASSUME ListOK, NEW n \in pending, NEW s \in {"error", "destroyed"}, Ends(n, s),
         UNCHANGED <<makeVars, replied, answer, stream>>
  PROVE  Keeps
  BY DEF ListOK, Ends, Keeps

LEMMA DeadKeeps ==
  ASSUME ListOK, smbcli_transport_dead, UNCHANGED <<makeVars, replied, answer, stream>>
  PROVE  Keeps
  <1>1. CASE \E n \in pending : Ends(n, "error")
    BY <1>1, EndsKeeps
  <1>2. CASE UNCHANGED <<pending, state>>
    BY <1>2 DEF Keeps
  <1> QED BY <1>1, <1>2 DEF smbcli_transport_dead

LEMMA MostKeep ==
  ASSUME ListOK, RestOK,
         \/ \E n \in Serial : Destroy(n) \/ smbcli_timeout_handler(n)
         \/ RecvFails \/ RecvLater \/ CallbackReturns \/ Write \/ StdinAtEnd \/ Cut
  PROVE  Keeps
  <1> USE DEF reqVars, listVars, serverVars
  <1>1. CASE \E n \in Serial : Destroy(n) \/ smbcli_timeout_handler(n)
    BY <1>1, EndsKeeps DEF Destroy, smbcli_timeout_handler, ListOK
  <1>2. CASE RecvFails
    BY <1>2, DeadKeeps DEF RecvFails
  <1>3. CASE Write
    <2>1. CASE smbcli_transport_dead /\ UNCHANGED makeVars
      BY <1>3, <2>1, DeadKeeps DEF Write
    <2>2. CASE UNCHANGED reqVars
      BY <1>3, <2>2 DEF Write, Keeps
    <2> QED BY <1>3, <2>1, <2>2 DEF Write
  <1>4. CASE Cut
    <2>1. PICK i \in 0..Len(stream) : stream' = SubSeq(stream, 1, i)
      BY <1>4 DEF Cut
    <2>2. \A j \in DOMAIN stream' : j \in DOMAIN stream /\ stream'[j] = stream[j]
      BY <2>1 DEF RestOK
    <2> QED BY <1>4, <2>2 DEF Cut, Keeps
  <1>5. CASE RecvLater \/ CallbackReturns \/ StdinAtEnd
    BY <1>5 DEF RecvLater, CallbackReturns, StdinAtEnd, Keeps
  <1> QED BY <1>1, <1>2, <1>3, <1>4, <1>5

\* The wire only grows, and holds no more than was made.
LEMMA WireGrows ==
  ASSUME TransportAssumption, OrderOK, Len(wire) <= 2 * sent, TransNext
  PROVE  Len(wire) <= Len(wire') /\ Len(wire') <= 2 * sent' /\ Len(wire') \in Nat
  <1> USE DEF makeVars, reqVars, sockVars, serverVars
  <1>a. OrderOK'
    BY NextOrder
  <1>b. Len(wire) \in Nat /\ Len(wire') \in Nat /\ sent \in Nat /\ sent' \in Nat
    BY <1>a DEF OrderOK
  <1>1. ASSUME NEW q \in Seq(Serial), NEW w \in 0..Len(q), packet_queue_run(q, w), link' = link,
               sent <= sent'
        PROVE  Len(wire) <= Len(wire') /\ Len(wire') <= 2 * sent'
    <2>1. CASE link = "up"
      <3>1. wire' = wire \o SubSeq(q, 1, w) /\ SubSeq(q, 1, w) \in Seq(Serial) /\ Len(SubSeq(q, 1, w)) = w
        BY <1>1, <2>1 DEF packet_queue_run
      <3>2. Len(wire') = Len(wire) + w
        <4>1. wire \in Seq(Serial)
          BY DEF OrderOK
        <4> QED BY <3>1, <4>1
      <3>3. Len(wire') + Len(queue') = 2 * sent' /\ Len(queue') \in Nat
        BY <1>1, <1>a, <2>1 DEF OrderOK
      <3> QED BY <1>b, <3>2, <3>3
    <2>2. CASE link # "up"
      BY <1>1, <1>b, <2>2 DEF packet_queue_run
    <2> QED BY <2>1, <2>2
  <1>2. CASE \E m \in Mid : Make(m)
    <2>1. PICK m \in Mid : Make(m)
      BY <1>2
    <2>2. /\ sent < MaxRequests /\ sent' = sent + 1 /\ link' = link
      BY <2>1 DEF Make
    <2>3. CASE \E w \in 0..(Len(queue) + Units) : packet_queue_run(queue \o Packet(sent + 1), w)
      <3>1. /\ queue \o Packet(sent + 1) \in Seq(Serial)
            /\ Len(queue \o Packet(sent + 1)) = Len(queue) + Units
        BY <2>2, MakeOrder DEF Units
      <3> DEFINE q == queue \o Packet(sent + 1)
      <3>2. PICK w \in 0..Len(q) : packet_queue_run(q, w)
        BY <2>3, <3>1
      <3>3. q \in Seq(Serial) /\ sent <= sent'
        BY <1>b, <2>2, <3>1
      <3> HIDE DEF q
      <3> QED BY <1>1, <2>2, <3>2, <3>3
    <2>4. CASE wire' = wire
      BY <1>b, <2>2, <2>4
    <2> QED BY <2>1, <2>3, <2>4 DEF Make
  <1>3. CASE \E m \in Mid : MakeFails(m)
    BY <1>3, <1>b DEF MakeFails
  <1>4. CASE Write
    <2>1. CASE \E w \in 1..Len(queue) : packet_queue_run(queue, w) /\ sent' = sent
      BY <1>1, <1>4, <1>b, <2>1 DEF Write, OrderOK
    <2>2. CASE wire' = wire /\ sent' = sent
      BY <1>b, <2>2
    <2> QED BY <1>4, <2>1, <2>2 DEF Write
  <1>5. CASE \/ \E n \in Serial : Destroy(n) \/ smbcli_timeout_handler(n) \/ Serve(n)
             \/ Recv \/ RecvFails \/ RecvLater \/ CallbackReturns \/ StdinAtEnd \/ Cut
    <2>1. wire' = wire /\ sent' = sent
      BY <1>5 DEF Destroy, smbcli_timeout_handler, Serve, Recv, RecvFails, RecvLater,
                  CallbackReturns, StdinAtEnd, Cut
    <2> QED BY <1>b, <2>1
  <1> QED BY <1>b, <1>2, <1>3, <1>4, <1>5 DEF TransNext

\* What the server replies to has arrived as a whole.
LEMMA CompleteArrived ==
  ASSUME OrderOK, NEW n \in Serial, Complete(n)
  PROVE  2 * n <= Len(wire)
  <1> DEFINE S == {i \in DOMAIN wire : wire[i] = n}
  <1>a. n \in Nat /\ Len(wire) \in Nat /\ DOMAIN wire = 1..Len(wire)
    BY DEF OrderOK, Serial
  <1> SUFFICES ASSUME Len(wire) < 2 * n
               PROVE  FALSE
    BY <1>a
  <1>1. ASSUME NEW i \in S PROVE i = 2 * n - 1
    <2>1. n = (i + 1) \div 2 /\ i < 2 * n /\ i \in Nat
      <3>1. i + 2 - 1 = i + 1
        BY <1>a
      <3> QED BY <1>a, <3>1 DEF OrderOK, WireInOrder, Units
    <2> QED BY <2>1, <1>a
  <1>2. S \subseteq {2 * n - 1}
    BY <1>1
  <1> HIDE DEF S
  <1>3. Cardinality(S) <= 1 /\ Cardinality(S) \in Nat
    <2>1. IsFiniteSet({2 * n - 1}) /\ Cardinality({2 * n - 1}) = 1
      BY FS_Singleton
    <2> QED BY <1>2, <2>1, FS_Subset, FS_CardinalityType
  <1> QED BY <1>3 DEF Complete, Units, S

LEMMA KeepsFates ==
  ASSUME TransportAssumption, ListOK, OrderOK, RestOK, FateInv, Keeps, TransNext
  PROVE  FateInv'
  <1>1. Len(wire) <= Len(wire') /\ Len(wire') <= 2 * sent' /\ Len(wire') \in Nat
    BY WireGrows DEF FateInv
  <1>2. \A n \in replied' : 2 * n <= Len(wire')
    BY <1>1 DEF Keeps, FateInv, RestOK, OrderOK, Serial
  <1>3. \A n \in 1..sent' : state'[n] # "unused"
    <2>1. sent' = sent /\ \A n \in 1..sent : n \in Serial
      BY DEF Keeps, makeVars, ListOK, Serial, TransportAssumption
    <2> QED BY <2>1 DEF Keeps, FateInv
  <1>4. \A n \in Serial : (state'[n] = "recv" => n \in pending')
                          /\ (state'[n] = "done" => answer'[n] = n /\ n \in replied')
    BY DEF Keeps, FateInv
  <1> QED BY <1>1, <1>2, <1>3, <1>4 DEF FateInv

\* A request that is made.
Makes(N, m) ==
    /\ N \in Serial /\ N = sent + 1 /\ sent' = N
    /\ mid' = [mid EXCEPT ![N] = m] /\ m \notin UsedMids
    /\ UNCHANGED <<replied, answer, stream>>
    /\ \A k \in 1..sent : \/ state'[k] = state[k] /\ (k \in pending => k \in pending')
                          \/ state[k] = "recv" /\ state'[k] = "error"
    /\ state' \in [Serial -> {"unused", "recv", "done", "error", "destroyed"}]
    /\ \A k \in Serial : k > N => state'[k] = "unused"
    /\ pending' \subseteq pending \union {N}
    /\ state'[N] = "error" \/ (state'[N] = "recv" /\ N \in pending')

LEMMA MakeMakes ==
  ASSUME TransportAssumption, ListOK, NEW m \in Mid, Make(m) \/ MakeFails(m)
  PROVE  \E N \in Serial : Makes(N, m)
  <1>1. PICK N \in Serial : N = sent + 1
    BY DEF Make, MakeFails, ListOK, Serial, TransportAssumption
  <1>2. /\ sent' = N /\ mid' = [mid EXCEPT ![N] = m] /\ m \notin UsedMids
        /\ UNCHANGED <<replied, answer, stream>>
    BY <1>1 DEF Make, MakeFails, IsNextMid, serverVars
  <1>3. /\ pending \subseteq 1..sent /\ sent \in Nat /\ \A k \in 1..sent : k \in Serial /\ k # N
        /\ state \in [Serial -> {"unused", "recv", "done", "error", "destroyed"}]
        /\ \A k \in Serial : k > sent => state[k] = "unused"
    BY <1>1 DEF ListOK, Serial, TransportAssumption
  <1>a. ListOK'
    BY MakeList
  <1>4. CASE \/ state' = [state EXCEPT ![N] = "recv"] /\ pending' = pending \union {N}
             \/ state' = [state EXCEPT ![N] = "error"] /\ pending' = pending
    BY <1>1, <1>2, <1>3, <1>4, <1>a DEF Makes, ListOK
  <1>5. ASSUME NEW k \in pending, pending' = pending \ {k},
               state' = [state EXCEPT ![k] = "error", ![N] = "error"]
        PROVE  Makes(N, m)
    BY <1>1, <1>2, <1>3, <1>5, <1>a DEF Makes, ListOK
  <1> QED BY <1>1, <1>4, <1>5 DEF Make, MakeFails, Newest

LEMMA MakeFates ==
  ASSUME TransportAssumption, ListOK, OrderOK, RestOK, FateInv, TransNext,
         NEW m \in Mid, NEW N \in Serial, Makes(N, m)
  PROVE  FateInv'
  <1>1. Len(wire) <= Len(wire') /\ Len(wire') <= 2 * sent' /\ Len(wire') \in Nat
    BY WireGrows DEF FateInv
  <1>2. \A n \in replied' : 2 * n <= Len(wire')
    BY <1>1 DEF Makes, FateInv, RestOK, OrderOK, Serial
  <1>3. \A n \in Serial : n \in 1..sent \/ n = N \/ n > N
    BY DEF Makes, ListOK, Serial, TransportAssumption
  <1>4. \A n \in 1..sent' : state'[n] # "unused"
    <2>1. \A n \in 1..sent' : n \in 1..sent \/ n = N
      BY DEF Makes, ListOK, Serial, TransportAssumption
    <2> QED BY <2>1 DEF Makes, FateInv
  <1>5. \A n \in Serial : (state'[n] = "recv" => n \in pending')
                          /\ (state'[n] = "done" => answer'[n] = n /\ n \in replied')
    BY <1>3 DEF Makes, FateInv
  <1> QED BY <1>1, <1>2, <1>4, <1>5 DEF FateInv

LEMMA MakeReplies ==
  ASSUME TransportAssumption, MidsSuffice, ListOK, RestOK, LapInv, FateInv, ReplyInv, OrderOK,
         NEW m \in Mid, Make(m) \/ MakeFails(m), NEW N \in Serial, Makes(N, m)
  PROVE  ReplyInv'
  <1>a. /\ sent \in Nat /\ pending \subseteq 1..sent
        /\ \A n \in 1..sent : n \in Serial /\ n # N /\ mid'[n] = mid[n]
        /\ mid'[N] = m /\ \A n \in 1..N : n \in 1..sent \/ n = N
    BY DEF Makes, ListOK, Serial, TransportAssumption
  <1>b. \A n \in 1..sent : Unanswered(n)' => Unanswered(n)
    BY <1>a DEF Makes, Unanswered
  <1>c. \A k \in pending : mid[k] # m
    BY DEF Makes, UsedMids
  <1>1. ASSUME NEW n \in 1..sent, Unanswered(n)
        PROVE  mid[n] # m
    <2>1. CASE state[n] = "recv"
      BY <1>a, <1>c, <2>1 DEF FateInv
    <2>2. CASE state[n] # "recv"
      <3>1. Unheard(n)
        BY <1>1, <2>2 DEF Unanswered, Unheard
      <3>2. sent + 1 - n <= Window /\ IsNextMid(m)
        BY <3>1 DEF Timely, Make, MakeFails
      <3>3. sent - n < Window
        BY <3>2, <1>a DEF TransportAssumption
      <3> QED BY <3>2, <3>3, LapFits DEF RestOK
    <2> QED BY <2>1, <2>2
  <1>2. ASSUME NEW n \in 1..sent', NEW k \in pending', k # n, Unanswered(n)'
        PROVE  mid'[k] # mid'[n]
    <2>1. n \in 1..sent \/ n = N
      BY <1>a DEF Makes
    <2>2. k \in pending \/ k = N
      BY DEF Makes
    <2>3. CASE n = N
      BY <1>2, <1>a, <1>c, <2>2, <2>3
    <2>4. CASE n \in 1..sent /\ k = N
      BY <1>2, <1>1, <1>a, <1>b, <2>4
    <2>5. CASE n \in 1..sent /\ k \in pending
      BY <1>2, <1>a, <1>b, <2>5 DEF ReplyInv
    <2> QED BY <2>1, <2>2, <2>3, <2>4, <2>5
  <1>3. ASSUME NEW i \in DOMAIN stream
        PROVE  LET r == stream[i] IN r.req \in replied /\ r.mid = mid'[r.req] /\ state'[r.req] # "done"
    <2>1. /\ stream[i].req \in replied /\ stream[i].mid = mid[stream[i].req]
          /\ state[stream[i].req] # "done"
      BY DEF ReplyInv
    <2>2. stream[i].req \in 1..sent
      BY <2>1, RepliedMade
    <2> QED BY <2>1, <2>2, <1>a DEF Makes
  <1> QED BY <1>2, <1>3 DEF ReplyInv, Makes

\* The server replies to a request that has arrived, once.
LEMMA ServeReplies ==
  ASSUME TransportAssumption, ListOK, OrderOK, RestOK, FateInv, ReplyInv,
         NEW n \in Serial, Serve(n)
  PROVE  FateInv' /\ ReplyInv'
  <1> USE DEF reqVars, makeVars, listVars
  <1>a. UNCHANGED <<sent, mid, state, pending, wire, answer>> /\ replied' = replied \union {n} /\ n \notin replied
    BY DEF Serve
  <1>b. 2 * n <= Len(wire) /\ n \in 1..sent
    <2>1. 2 * n <= Len(wire)
      BY CompleteArrived DEF Serve
    <2> QED BY <2>1 DEF FateInv, ListOK, OrderOK, Serial, TransportAssumption
  <1> DEFINE p == [u \in 1..Units |-> [req |-> n, mid |-> mid[n], last |-> u = Units]]
             L == Len(stream)
  <1>1. /\ p \in Seq(Part) /\ Len(p) = 2
        /\ p[1].req = n /\ p[1].mid = mid[n] /\ ~p[1].last
        /\ p[2].req = n /\ p[2].mid = mid[n]
    <2>1. mid[n] \in 0..(MidSpace - 1)
      BY DEF ListOK
    <2>2. p = [u \in 1..2 |-> [req |-> n, mid |-> mid[n], last |-> u = 2]]
      BY DEF Units
    <2>3. \A u \in 1..2 : /\ p[u] \in Part
                          /\ p[u].req = n /\ p[u].mid = mid[n] /\ (p[u].last <=> u = 2)
      BY <2>1, <2>2 DEF Part
    <2>4. DOMAIN p = 1..2
      BY <2>2
    <2> HIDE DEF p
    <2>5. p = [u \in 1..2 |-> p[u]]
      BY <2>2 DEF p
    <2>6. p \in Seq(Part) /\ Len(p) = 2
      BY <2>3, <2>4, <2>5
    <2>7. /\ p[1].req = n /\ p[1].mid = mid[n] /\ ~p[1].last
          /\ p[2].req = n /\ p[2].mid = mid[n]
      BY <2>3
    <2> QED BY <2>6, <2>7
  <1>2. stream' = stream \o p
    BY DEF Serve
  <1> HIDE DEF p
  <1>3. /\ stream' \in Seq(Part) /\ Len(stream') = L + 2 /\ L \in Nat
        /\ \A i \in 1..L : stream'[i] = stream[i]
        /\ stream'[L + 1] = p[1] /\ stream'[L + 2] = p[2]
    BY <1>1, <1>2, TwoMore DEF RestOK
  <1>4. /\ DOMAIN stream = 1..L /\ \A i \in DOMAIN stream' : i \in 1..L \/ i = L + 1 \/ i = L + 2
        /\ DOMAIN stream' = 1..(L + 2) /\ 1..L \subseteq DOMAIN stream'
    BY <1>3 DEF RestOK
  <1>5. /\ \A i \in 1..L : stream[i].req \in replied /\ stream[i].mid = mid[stream[i].req]
                           /\ state[stream[i].req] # "done" /\ stream[i].req # n
        /\ \A i, j \in 1..L : i < j /\ stream[i].req = stream[j].req => ~stream[i].last
    BY <1>a, <1>4 DEF ReplyInv
  <1>6. FateInv'
    BY <1>a, <1>b DEF FateInv
  <1>7. state[n] # "done"
    BY <1>a DEF FateInv
  <1>8. ASSUME NEW k \in Serial, Unanswered(k)'
        PROVE  Unanswered(k)
    <2>1. CASE k = n
      BY <1>8, <1>a, <2>1 DEF Unanswered
    <2>2. CASE k # n
      BY <1>8, <1>a, <1>1, <1>3, <1>4, <2>2 DEF Unanswered
    <2> QED BY <2>1, <2>2
  <1>9. \A i \in DOMAIN stream' : /\ stream'[i].req \in replied' /\ stream'[i].mid = mid'[stream'[i].req]
                                  /\ state'[stream'[i].req] # "done"
    BY <1>a, <1>1, <1>3, <1>4, <1>5, <1>7
  <1>10. ASSUME NEW i \in DOMAIN stream', NEW j \in DOMAIN stream', i < j, stream'[i].req = stream'[j].req
         PROVE  ~stream'[i].last
    <2>1. CASE i \in 1..L
      BY <1>10, <1>1, <1>3, <1>4, <1>5, <2>1
    <2>2. CASE i = L + 1
      BY <1>1, <1>3, <2>2
    <2>3. i # L + 2
      BY <1>10, <1>3, <1>4
    <2> QED BY <1>4, <2>1, <2>2, <2>3
  <1>11. \A k \in 1..sent : k \in Serial
    BY DEF ListOK, Serial, TransportAssumption
  <1> QED BY <1>6, <1>8, <1>9, <1>10, <1>11, <1>a DEF ReplyInv

\* A reply that is complete is given to its own request: no other request that
\* waits has its mid.
LEMMA OwnReply ==
  ASSUME TransportAssumption, ListOK, OrderOK, RestOK, FateInv, ReplyInv, stream # <<>>,
         NEW n \in pending, mid[n] = Head(stream).mid
  PROVE  n = Head(stream).req
  <1>1. 1 \in DOMAIN stream /\ Head(stream) = stream[1]
    BY DEF RestOK
  <1>2. /\ stream[1].req \in replied /\ stream[1].mid = mid[stream[1].req]
        /\ state[stream[1].req] # "done"
    BY <1>1 DEF ReplyInv
  <1>3. stream[1].req \in 1..sent /\ stream[1].req \in Serial
    BY <1>2, RepliedMade DEF RestOK
  <1>4. Unanswered(stream[1].req)
    <2>1. state[stream[1].req] # "unused"
      BY <1>3 DEF FateInv
    <2>2. state[stream[1].req] \in {"unused", "recv", "done", "error", "destroyed"}
      BY <1>3 DEF ListOK
    <2> QED BY <1>1, <1>2, <2>1, <2>2 DEF Unanswered
  <1> QED BY <1>1, <1>2, <1>3, <1>4 DEF ReplyInv

LEMMA RecvReplies ==
  ASSUME TransportAssumption, ListOK, OrderOK, RestOK, FateInv, ReplyInv, Recv
  PROVE  FateInv' /\ ReplyInv'
  <1> USE DEF makeVars
  <1>a. /\ stream # <<>> /\ stream \in Seq(Part) /\ stream' = Tail(stream)
        /\ UNCHANGED <<sent, mid, wire, replied>>
    BY DEF Recv, RestOK
  <1>b. /\ \A i \in DOMAIN stream' : i + 1 \in DOMAIN stream /\ stream'[i] = stream[i + 1] /\ i \in Nat
        /\ 1 \in DOMAIN stream /\ Head(stream) = stream[1]
    BY <1>a
  <1> DEFINE h == Head(stream).req
  <1>1. \/ UNCHANGED <<state, pending, answer>>
        \/ /\ h \in pending /\ Head(stream).last /\ pending' = pending \ {h}
           /\ \/ state' = [state EXCEPT ![h] = "done"] /\ answer' = [answer EXCEPT ![h] = h]
              \/ state' = [state EXCEPT ![h] = "error"] /\ answer' = answer
    <2>1. CASE Head(stream).last /\ smbcli_transport_finish_recv(Head(stream))
      <3>1. CASE UNCHANGED <<state, pending, answer>>
        BY <3>1
      <3>2. CASE ~UNCHANGED <<state, pending, answer>>
        <4>1. PICK n \in pending :
                 /\ mid[n] = Head(stream).mid
                 /\ \/ Ends(n, "done") /\ answer' = [answer EXCEPT ![n] = Head(stream).req]
                    \/ Ends(n, "error") /\ answer' = answer
          BY <2>1, <3>2 DEF smbcli_transport_finish_recv
        <4>2. n = h
          BY <1>a, <4>1, OwnReply
        <4> QED BY <2>1, <4>1, <4>2 DEF Ends
      <3> QED BY <3>1, <3>2
    <2>2. CASE UNCHANGED <<state, pending, answer>>
      BY <2>2
    <2> QED BY <2>1, <2>2 DEF Recv
  <1>2. h \in replied /\ h \in Serial /\ stream[1].req = h
    BY <1>b DEF ReplyInv, RestOK
  <1> HIDE DEF h
  <1>3. FateInv'
    <2>1. \A n \in Serial : /\ state'[n] = "recv" => n \in pending'
                            /\ state'[n] = "done" => answer'[n] = n /\ n \in replied
      BY <1>1, <1>2 DEF FateInv, ListOK, RestOK
    <2>2. \A n \in 1..sent : state'[n] # "unused"
      <3>1. \A n \in 1..sent : n \in Serial /\ state[n] # "unused"
        BY DEF FateInv, ListOK, Serial, TransportAssumption
      <3>2. \A n \in 1..sent : state'[n] = state[n] \/ state'[n] \in {"done", "error"}
        BY <1>1, <3>1 DEF ListOK
      <3> QED BY <3>1, <3>2
    <2>3. (\A n \in replied' : 2 * n <= Len(wire')) /\ Len(wire') <= 2 * sent'
      BY <1>a DEF FateInv
    <2> QED BY <1>a, <2>1, <2>2, <2>3 DEF FateInv
  <1>4. ASSUME NEW k \in Serial, Unanswered(k)'
        PROVE  Unanswered(k)
    <2>1. state[k] \in {"recv", "error", "destroyed"}
      BY <1>1, <1>2, <1>4 DEF Unanswered, ListOK
    <2> QED BY <1>4, <1>a, <1>b, <2>1 DEF Unanswered
  <1>5. ASSUME NEW i \in DOMAIN stream'
        PROVE  /\ stream'[i].req \in replied /\ stream'[i].mid = mid[stream'[i].req]
               /\ state'[stream'[i].req] # "done"
    <2>1. /\ stream'[i].req \in replied /\ stream'[i].mid = mid[stream'[i].req]
          /\ state[stream'[i].req] # "done" /\ stream'[i].req \in Serial
      BY <1>b DEF ReplyInv, RestOK
    <2>2. stream[1].last => stream'[i].req # h
      <3>1. i + 1 \in DOMAIN stream /\ 1 < i + 1
        BY <1>b, <1>a
      <3> QED BY <3>1, <1>b, <1>2 DEF ReplyInv
    <2> QED BY <2>1, <2>2, <1>1, <1>b DEF ListOK
  <1>6. ASSUME NEW i \in DOMAIN stream', NEW j \in DOMAIN stream', i < j, stream'[i].req = stream'[j].req
        PROVE  ~stream'[i].last
    <2>1. i + 1 \in DOMAIN stream /\ j + 1 \in DOMAIN stream /\ i + 1 < j + 1
      BY <1>6, <1>b
    <2> QED BY <1>6, <1>b, <2>1 DEF ReplyInv
  <1>7. /\ \A k \in 1..sent : k \in Serial
        /\ pending' \subseteq pending
    BY <1>1 DEF ListOK, Serial, TransportAssumption
  <1>8. \A n \in 1..sent, k \in pending' : k # n /\ Unanswered(n)' => mid[k] # mid[n]
    BY <1>4, <1>7 DEF ReplyInv
  <1> QED BY <1>3, <1>5, <1>6, <1>8, <1>a DEF ReplyInv

\* TypeInv, and what keeps the mids of a window of requests apart.
PromiseInv == TypeInv /\ LapInv /\ FateInv /\ ReplyInv

LEMMA NextPromise ==
  ASSUME PromiseInv, TransNext
  PROVE  PromiseInv'
  <1> USE TransportAssumption, MidsSuffice DEF PromiseInv, TypeInv
  <1>a. TypeInv'
    BY NextList, NextOrder, NextRest
  <1>b. next_mid \in 0..(MidSpace - 1)
    BY DEF RestOK
  <1>1. ASSUME NEW m \in Mid, Make(m) \/ MakeFails(m)
        PROVE  PromiseInv'
    <2>1. PICK N \in Serial : Makes(N, m)
      BY <1>1, MakeMakes
    <2>2. LapInv'
      BY <1>1, <1>b, MakeLap
    <2>3. FateInv'
      BY <2>1, MakeFates
    <2>4. ReplyInv'
      BY <1>1, <2>1, MakeReplies
    <2> QED BY <1>a, <2>2, <2>3, <2>4
  <1>2. ASSUME NEW n \in Serial, Serve(n)
        PROVE  PromiseInv'
    <2>1. UNCHANGED makeVars /\ pending' \subseteq pending
      BY <1>2 DEF Serve, reqVars, listVars
    <2> QED BY <1>a, <1>2, <2>1, KeepsLap, ServeReplies
  <1>3. CASE Recv
    <2>1. UNCHANGED makeVars /\ pending' \subseteq pending
      BY <1>3 DEF Recv, smbcli_transport_finish_recv, Ends
    <2> QED BY <1>a, <1>3, <2>1, KeepsLap, RecvReplies
  <1>4. CASE Keeps
    <2>1. UNCHANGED makeVars /\ pending' \subseteq pending
      BY <1>4 DEF Keeps
    <2> QED BY <1>a, <1>4, <2>1, KeepsLap, KeepsFates, KeepsReplies
  <1> QED BY <1>1, <1>2, <1>3, <1>4, MostKeep DEF TransNext

----------------------------------------------------------------------------
\* Each step is one of Requests, or changes nothing that Requests tells of.

\* What state and told say of the fate of a request.
End(s, t) ==
    CASE s = "unused" -> "none"
      [] s = "recv" -> "waiting"
      [] s = "done" -> "answered"
      [] s = "destroyed" -> "withdrawn"
      [] OTHER -> IF t = 0 THEN "refused" ELSE "failed"

LEMMA Fates ==
  ASSUME PromiseInv, PromiseInv'
  PROVE  \A n \in Serial : FateOf(n) = End(state[n], told[n]) /\ FateOf(n)' = End(state'[n], told'[n])
  <1>1. ASSUME NEW n \in Serial
        PROVE  FateOf(n) = End(state[n], told[n])
    <2>1. /\ state[n] \in {"unused", "recv", "done", "error", "destroyed"}
          /\ state[n] = "done" => answer[n] = n
          /\ state[n] = "error" => told[n] \in {0, 1}
      BY DEF PromiseInv, TypeInv, ListOK, ToldOnce, FateInv
    <2> QED BY <2>1 DEF FateOf, End
  <1>2. ASSUME NEW n \in Serial
        PROVE  FateOf(n)' = End(state'[n], told'[n])
    <2>1. /\ state'[n] \in {"unused", "recv", "done", "error", "destroyed"}
          /\ state'[n] = "done" => answer'[n] = n
          /\ state'[n] = "error" => told'[n] \in {0, 1}
      BY DEF PromiseInv, TypeInv, ListOK, ToldOnce, FateInv
    <2> QED BY <2>1 DEF FateOf, End
  <1> QED BY <1>1, <1>2

\* Requests that arrive go on arriving in their order, and on any occasion.
LEMMA Arrival ==
  ASSUME PromiseInv, TransNext
  PROVE  Promise!Arrive
  <1>1. Len(wire) <= Len(wire') /\ Len(wire') <= 2 * sent' /\ Len(wire') \in Nat
    BY WireGrows, TransportAssumption DEF PromiseInv, TypeInv, FateInv
  <1>2. Len(wire) \in Nat /\ sent' \in Nat
    <2>1. sent' \in Nat
      BY NextOrder, TransportAssumption DEF PromiseInv, TypeInv, OrderOK
    <2> QED BY <2>1 DEF PromiseInv, TypeInv, OrderOK
  <1>3. \A a, b, s \in Nat : a <= b /\ b <= 2 * s => b \div 2 \in (a \div 2)..s
    OBVIOUS
  <1> QED BY <1>1, <1>2, <1>3 DEF Promise!Arrive, Units

LEMMA AskStep ==
  ASSUME PromiseInv, PromiseInv', NEW m \in Mid, Make(m), TransNext
  PROVE  Promise!Ask
  <1>1. PICK N \in Serial : N = sent + 1
    BY TransportAssumption DEF PromiseInv, TypeInv, ListOK, Make, Serial
  <1>2. state[N] = "unused" /\ told[N] = 0 /\ told' = told
    <2>1. state[N] = "unused"
      BY <1>1 DEF PromiseInv, TypeInv, ListOK
    <2>2. told[N] \in Nat /\ told[N] <= 0
      BY <2>1 DEF PromiseInv, TypeInv, ListOK, ToldOnce
    <2> QED BY <2>1, <2>2 DEF Make
  <1>3. sock' = sock /\ state' = [state EXCEPT ![N] = IF sock THEN "recv" ELSE "error"]
    BY <1>1 DEF Make, sockVars
  <1>4. [n \in Serial |-> FateOf(n)']
           = [[n \in Serial |-> FateOf(n)] EXCEPT ![N] = IF sock THEN "waiting" ELSE "refused"]
    <2>1. ASSUME NEW n \in Serial, n # N PROVE FateOf(n)' = FateOf(n)
      BY <2>1, <1>2, <1>3, Fates DEF PromiseInv, TypeInv, ListOK
    <2>2. FateOf(N)' = IF sock THEN "waiting" ELSE "refused"
      <3>1. state'[N] = IF sock THEN "recv" ELSE "error"
        BY <1>3 DEF PromiseInv, TypeInv, ListOK
      <3> QED BY <3>1, <1>2, Fates DEF End
    <2> HIDE DEF FateOf
    <2> QED BY <2>1, <2>2
  <1>5. sent < MaxRequests /\ sent' = N
    BY <1>1 DEF Make
  <1> QED BY <1>1, <1>3, <1>4, <1>5, Arrival DEF Promise!Ask

LEMMA ListFacts ==
  ASSUME PromiseInv
  PROVE  /\ sent \in Nat /\ pending \subseteq 1..sent /\ pending \subseteq Serial
         /\ state \in [Serial -> {"unused", "recv", "done", "error", "destroyed"}]
         /\ told \in [Serial -> Nat]
         /\ \A n \in Serial : n > sent => state[n] = "unused" /\ told[n] = 0
         /\ \A n \in pending : state[n] = "recv" /\ told[n] = 0
         /\ \A n \in Serial : state[n] = "recv" => n \in pending
  <1>1. ListOK
    BY DEF PromiseInv, TypeInv
  <1>2. sent \in Nat /\ pending \subseteq 1..sent /\ pending \subseteq Serial
    BY <1>1, TransportAssumption DEF ListOK, Serial, TransportAssumption
  <1>3. \A n \in Serial : state[n] \notin {"done", "error"} => told[n] = 0
    <2>1. \A n \in Serial : told[n] \in Nat
      BY <1>1 DEF ListOK
    <2> QED BY <1>1, <2>1 DEF ListOK, ToldOnce
  <1>4. \A n \in Serial : n > sent => state[n] = "unused" /\ told[n] = 0
    BY <1>1, <1>3 DEF ListOK
  <1>5. \A n \in pending : state[n] = "recv" /\ told[n] = 0
    BY <1>1, <1>2, <1>3 DEF ListOK
  <1> QED BY <1>1, <1>2, <1>4, <1>5 DEF ListOK, PromiseInv, FateInv

\* The socket is found dead, with or without a request being made.
LEMMA LoseStep ==
  ASSUME PromiseInv, PromiseInv', sock, ~sock', wire' = wire,
         NEW new \in SUBSET Serial, new = (sent + 1)..sent', sent' \in {sent, sent + 1},
         NEW head \in SUBSET pending, \A k \in head : Newest(k), head = {} => pending = {},
         \A n \in Serial : /\ state'[n] = IF n \in head \union new THEN "error" ELSE state[n]
                           /\ told'[n] = IF n \in head THEN told[n] + 1 ELSE told[n]
  PROVE  Promise!Lose
  <1>a. /\ \A n \in new : state[n] = "unused" /\ told[n] = 0 /\ n \notin pending
        /\ \A n \in pending : n \in Int /\ n \in Serial /\ state[n] = "recv" /\ told[n] = 0
        /\ \A n \in Serial : state[n] = "recv" => n \in pending
    <2>1. \A n \in new : n \in Serial /\ n > sent /\ n \notin 1..sent
      BY ListFacts
    <2>2. \A n \in pending : n \in Int
      BY ListFacts
    <2> QED BY <2>1, <2>2, ListFacts
  <1>b. \A n \in Serial : FateOf(n) = "waiting" <=> n \in pending
    BY <1>a, Fates DEF End
  <1> DEFINE F == [n \in Serial |-> FateOf(n)]
             top == {n \in Serial : n \in pending /\ \A k \in Serial : k \in pending => k <= n}
  <1>1. top = head
    <2>1. ASSUME NEW n \in head PROVE n \in top
      BY <1>a DEF Newest
    <2>2. ASSUME NEW n \in top PROVE n \in head
      <3>1. PICK h \in head : TRUE
        BY <2>2
      <3>2. h \in pending /\ h \in Int /\ n \in Int /\ n <= h /\ h <= n
        BY <1>a, <2>2, <3>1 DEF Newest
      <3> QED BY <3>1, <3>2
    <2> QED BY <2>1, <2>2
  <1>2. Promise!Newest = head
    BY <1>1, <1>b DEF Promise!Newest, Promise!Number, Serial
  <1>3. ASSUME NEW n \in Serial
        PROVE  FateOf(n)' = CASE n \in head -> "failed"
                              [] n \in new -> "refused"
                              [] OTHER -> FateOf(n)
    BY <1>a, Fates DEF End
  <1> HIDE DEF top
  <1>4. [n \in Serial |-> FateOf(n)']
           = [n \in Serial |-> CASE n \in head -> "failed"
                                 [] n \in new -> "refused"
                                 [] OTHER -> F[n]]
    BY <1>3
  <1> QED BY <1>2, <1>4 DEF Promise!Lose, Promise!Number, Serial

\* ... the newest request of the list is told, or there is none.
LEMMA HeadStep ==
  ASSUME PromiseInv, PromiseInv', sock, ~sock', wire' = wire,
         NEW new \in SUBSET Serial, new = (sent + 1)..sent', sent' \in {sent, sent + 1},
         \/ /\ pending = {} /\ told' = told
            /\ \A n \in Serial : state'[n] = IF n \in new THEN "error" ELSE state[n]
         \/ \E h \in pending : /\ Newest(h) /\ Tell(h)
                               /\ \A n \in Serial : state'[n] = IF n = h \/ n \in new THEN "error" ELSE state[n]
  PROVE  Promise!Lose
  <1>1. ASSUME NEW head \in SUBSET pending, \A k \in head : Newest(k), head = {} => pending = {},
               \A n \in Serial : /\ state'[n] = IF n \in head \union new THEN "error" ELSE state[n]
                                 /\ told'[n] = IF n \in head THEN told[n] + 1 ELSE told[n]
        PROVE  Promise!Lose
    BY <1>1, LoseStep
  <1>2. CASE /\ pending = {} /\ told' = told
             /\ \A n \in Serial : state'[n] = IF n \in new THEN "error" ELSE state[n]
    BY <1>1, <1>2
  <1>3. ASSUME NEW h \in pending, Newest(h), Tell(h),
               \A n \in Serial : state'[n] = IF n = h \/ n \in new THEN "error" ELSE state[n]
        PROVE  Promise!Lose
    <2>1. PICK head \in SUBSET pending : head = {h}
      BY Zenon
    <2>2. \A n \in Serial : told'[n] = IF n \in head THEN told[n] + 1 ELSE told[n]
      BY <1>3, <2>1, ListFacts DEF Tell
    <2>3. \A n \in Serial : state'[n] = IF n \in head \union new THEN "error" ELSE state[n]
      BY <1>3, <2>1
    <2> QED BY <1>1, <1>3, <2>1, <2>2, <2>3, SMTT(30)
  <1> QED BY <1>2, <1>3

LEMMA DeadStep ==
  ASSUME PromiseInv, PromiseInv', smbcli_transport_dead, sock, UNCHANGED <<sent, wire>>
  PROVE  Promise!Lose
  <1>1. PICK new \in SUBSET Serial : new = {}
    OBVIOUS
  <1>2. new = (sent + 1)..sent'
    BY <1>1, ListFacts
  <1>3. \/ pending = {} /\ UNCHANGED <<told, state>>
        \/ \E h \in pending : Newest(h) /\ Tell(h) /\ state' = [state EXCEPT ![h] = "error"]
    BY DEF smbcli_transport_dead, Ends
  <1>4. \/ /\ pending = {} /\ told' = told
           /\ \A n \in Serial : state'[n] = IF n \in new THEN "error" ELSE state[n]
        \/ \E h \in pending : /\ Newest(h) /\ Tell(h)
                              /\ \A n \in Serial : state'[n] = IF n = h \/ n \in new THEN "error" ELSE state[n]
    BY <1>1, <1>3, ListFacts
  <1>5. ~sock'
    BY DEF smbcli_transport_dead
  <1> QED BY <1>2, <1>4, <1>5, HeadStep

LEMMA MakeFailsStep ==
  ASSUME PromiseInv, PromiseInv', NEW m \in Mid, MakeFails(m)
  PROVE  Promise!Lose
  <1>0. PICK N \in Serial : N = sent + 1
    BY ListFacts, TransportAssumption DEF MakeFails, Serial, TransportAssumption
  <1>1. PICK new \in SUBSET Serial : new = {N}
    BY Zenon
  <1>2. new = (sent + 1)..sent' /\ sent' \in {sent, sent + 1}
    BY <1>0, <1>1, ListFacts DEF MakeFails
  <1>3. sock /\ ~sock' /\ wire' = wire
    BY DEF MakeFails, serverVars
  <1>4. \/ pending = {} /\ told' = told /\ state' = [state EXCEPT ![N] = "error"]
        \/ \E h \in pending : Newest(h) /\ Tell(h) /\ state' = [state EXCEPT ![h] = "error", ![N] = "error"]
    BY <1>0 DEF MakeFails
  <1>5. \/ /\ pending = {} /\ told' = told
           /\ \A n \in Serial : state'[n] = IF n \in new THEN "error" ELSE state[n]
        \/ \E h \in pending : /\ Newest(h) /\ Tell(h)
                              /\ \A n \in Serial : state'[n] = IF n = h \/ n \in new THEN "error" ELSE state[n]
    BY <1>1, <1>4, ListFacts
  <1> QED BY <1>2, <1>3, <1>5, HeadStep

\* A request comes to its end.
LEMMA SettleStep ==
  ASSUME PromiseInv, PromiseInv', NEW n \in pending, UNCHANGED <<sent, wire, sock>>,
         \/ Ends(n, "done") /\ Tell(n) /\ 2 * n <= Len(wire)
         \/ Ends(n, "error") /\ Tell(n)
         \/ Ends(n, "destroyed") /\ told' = told
  PROVE  \E end \in {"answered", "failed", "withdrawn"} : Promise!Settle(n, end)
  <1>0. PICK s \in {"done", "error", "destroyed"} :
           /\ Ends(n, s)
           /\ s = "done" => 2 * n <= Len(wire)
           /\ IF s = "destroyed" THEN told' = told ELSE Tell(n)
    OBVIOUS
  <1> DEFINE end == CASE s = "done" -> "answered" [] s = "error" -> "failed" [] OTHER -> "withdrawn"
  <1>1. n \in Serial /\ state[n] = "recv" /\ told[n] = 0
    BY ListFacts
  <1>2. state' = [state EXCEPT ![n] = s] /\ state'[n] = s
    BY <1>0, <1>1, ListFacts DEF Ends
  <1>3. told'[n] = (IF s = "destroyed" THEN 0 ELSE 1) /\ \A k \in Serial : k # n => told'[k] = told[k]
    BY <1>0, <1>1, ListFacts DEF Tell
  <1>4. FateOf(n) = "waiting" /\ FateOf(n)' = end
    BY <1>1, <1>2, <1>3, Fates DEF End
  <1>5. \A k \in Serial : k # n => FateOf(k)' = FateOf(k)
    BY <1>2, <1>3, Fates, ListFacts
  <1>6. [k \in Serial |-> FateOf(k)'] = [[k \in Serial |-> FateOf(k)] EXCEPT ![n] = end]
    <2> HIDE DEF end
    <2> QED BY <1>4, <1>5
  <1>7. s = "done" => n <= Len(wire) \div 2
    <2>1. Len(wire) \in Nat /\ n \in Nat
      BY <1>1 DEF PromiseInv, TypeInv, OrderOK, Serial
    <2> QED BY <1>0, <2>1
  <1>8. end \in {"answered", "failed", "withdrawn"} /\ (end = "answered" => s = "done")
    OBVIOUS
  <1> HIDE DEF end
  <1>9. Promise!Settle(n, end)
    BY <1>1, <1>4, <1>6, <1>7, <1>8 DEF Promise!Settle, Units
  <1> QED BY <1>8, <1>9

\* A complete reply ends its own request, which has arrived, if it still waits.
LEMMA RecvStep ==
  ASSUME PromiseInv, PromiseInv', Recv
  PROVE  \/ \E n \in Serial, end \in {"answered", "failed", "withdrawn"} : Promise!Settle(n, end)
         \/ UNCHANGED <<state, told, answer>>
  <1>1. ASSUME NEW n \in pending, mid[n] = Head(stream).mid, Tell(n),
               Ends(n, "done") \/ Ends(n, "error")
        PROVE  \E k \in Serial, end \in {"answered", "failed", "withdrawn"} : Promise!Settle(k, end)
    <2>1. stream # <<>> /\ UNCHANGED <<sent, wire, sock>>
      BY DEF Recv, makeVars, sockVars
    <2>2. n = Head(stream).req
      BY <1>1, <2>1, OwnReply, TransportAssumption DEF PromiseInv, TypeInv
    <2>3. Head(stream).req \in replied
      <3>1. stream \in Seq(Part)
        BY DEF PromiseInv, TypeInv, RestOK
      <3>2. 1 \in DOMAIN stream /\ Head(stream) = stream[1]
        BY <2>1, <3>1
      <3> QED BY <3>2 DEF PromiseInv, ReplyInv
    <2>4. 2 * n <= Len(wire)
      BY <2>2, <2>3 DEF PromiseInv, FateInv
    <2>5. n \in Serial
      BY ListFacts
    <2> QED BY <1>1, <2>1, <2>4, <2>5, SettleStep
  <1> QED BY <1>1 DEF Recv, smbcli_transport_finish_recv

LEMMA Stutter ==
  ASSUME UNCHANGED <<sent, state, told, answer, wire, sock>>
  PROVE  UNCHANGED Promise!requestVars
  BY DEF Promise!requestVars, FateOf

LEMMA NextStep ==
  ASSUME PromiseInv, PromiseInv', TransNext
  PROVE  Promise!RequestsNext \/ UNCHANGED Promise!requestVars
  <1> USE DEF makeVars, reqVars, listVars, sockVars, serverVars
  <1>1. CASE \E m \in Mid : Make(m) \/ MakeFails(m)
    BY <1>1, AskStep, MakeFailsStep DEF Promise!RequestsNext
  <1>2. ASSUME NEW n \in Serial, Destroy(n) \/ smbcli_timeout_handler(n)
        PROVE  Promise!RequestsNext
    <2>1. n \in pending
      BY <1>2 DEF Destroy, smbcli_timeout_handler, PromiseInv, TypeInv, ListOK
    <2>2. \E end \in {"answered", "failed", "withdrawn"} : Promise!Settle(n, end)
      BY <1>2, <2>1, SettleStep DEF Destroy, smbcli_timeout_handler
    <2> QED BY <2>2 DEF Promise!RequestsNext, Promise!Number, Serial
  <1>3. CASE Recv
    <2>1. CASE UNCHANGED <<state, told, answer>>
      BY <1>3, <2>1, Stutter DEF Recv
    <2>2. CASE \E n \in Serial, end \in {"answered", "failed", "withdrawn"} : Promise!Settle(n, end)
      BY <2>2 DEF Promise!RequestsNext, Promise!Number, Serial
    <2> QED BY <1>3, <2>1, <2>2, RecvStep
  <1>4. CASE RecvFails
    BY <1>4, DeadStep DEF RecvFails, Readable, Promise!RequestsNext
  <1>5. CASE Write
    <2>1. CASE smbcli_transport_dead /\ UNCHANGED <<sent, wire>>
      BY <1>5, <2>1, DeadStep DEF Write, Promise!RequestsNext
    <2>2. CASE UNCHANGED <<reqVars, sock, told>>
      <3>1. UNCHANGED <<sent, state, told, answer, sock>>
        BY <1>5, <2>2 DEF Write
      <3>2. Promise!Arrive
        BY Arrival
      <3> QED BY <3>1, <3>2 DEF Promise!RequestsNext, FateOf
    <2> QED BY <1>5, <2>1, <2>2 DEF Write
  <1>6. CASE (\E n \in Serial : Serve(n)) \/ RecvLater \/ CallbackReturns \/ StdinAtEnd \/ Cut
    BY <1>6, Stutter DEF Serve, RecvLater, CallbackReturns, StdinAtEnd, Cut
  <1> QED BY <1>1, <1>2, <1>3, <1>4, <1>5, <1>6 DEF TransNext

\* The requests of Transport are what Requests promises: each is answered with
\* its own reply or comes to one of the other ends, and when the socket is dead
\* the newest one is told.
THEOREM KeepsPromiseCorrect == TransSpec => KeepsPromise
  <1>1. TransInit => PromiseInv /\ Promise!RequestsInit
    <2> SUFFICES ASSUME TransInit PROVE PromiseInv /\ Promise!RequestsInit
      OBVIOUS
    <2>1. TypeInv
      BY InitType
    <2>2. LapInv /\ FateInv /\ ReplyInv
      BY TransportAssumption DEF TransInit, LapInv, FateInv, ReplyInv, Serial, TransportAssumption
    <2>3. Promise!RequestsInit
      BY DEF TransInit, FateOf, Promise!RequestsInit, Promise!Number, Serial, Units
    <2> QED BY <2>1, <2>2, <2>3 DEF PromiseInv
  <1>2. PromiseInv /\ [TransNext]_transVars => PromiseInv'
    <2>1. ASSUME TypeInv, LapInv, FateInv, ReplyInv, UNCHANGED transVars
          PROVE  TypeInv' /\ LapInv' /\ FateInv' /\ ReplyInv'
      <3> USE <2>1 DEF transVars, reqVars, makeVars, listVars, sockVars, serverVars
      <3>1. TypeInv'
        BY DEF TypeInv, ListOK, OrderOK, RestOK, DistinctMids, ToldOnce, WireInOrder
      <3>2. LapInv'
        BY DEF LapInv, First, Older
      <3>3. FateInv' /\ ReplyInv'
        BY DEF FateInv, ReplyInv, Unanswered
      <3> QED BY <3>1, <3>2, <3>3
    <2> QED BY <2>1, NextPromise DEF PromiseInv
  <1>3. PromiseInv /\ PromiseInv' /\ [TransNext]_transVars => [Promise!RequestsNext]_(Promise!requestVars)
    <2>1. CASE UNCHANGED transVars
      BY <2>1, Stutter DEF transVars, reqVars, makeVars, listVars, sockVars, serverVars
    <2> QED BY <2>1, NextStep
  <1> QED BY <1>1, <1>2, <1>3, PTL DEF TransSpec, KeepsPromise, Promise!RequestsSpec
=============================================================================
