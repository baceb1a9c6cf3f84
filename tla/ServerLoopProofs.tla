--------------------------- MODULE ServerLoopProofs ---------------------------
(***************************************************************************)
(* Proofs about ServerLoop, for any number of clients, process ids, stops  *)
(* and connections the service has had before: types, a thread each, and   *)
(* the names of the standard pipes.                                        *)
(***************************************************************************)
EXTENDS ServerLoop, TLAPS

\* A client that has the control pipe open does not open it again, and there
\* are no threads without a process.
Inside == {"in", "told", "streams", "gone"}
Placed ==
    /\ \A t \in threads : at[t.client] \in Inside
    /\ listener \in Client => at[listener] \in Inside
    /\ pid = 0 => threads = {}

LoopInv == LoopTypeOK /\ OneThreadEach /\ Placed

Thread == [num : Nat, client : Client, by : Client \union {NoClient},
           phase : {"lines", "unserved", "piped", "running", "denied", "ending"}]

LEMMA pipe_nrType ==
  ASSUME NEW p \in Nat, NEW n \in Nat
  PROVE  pipe_nr(p, n) \in Nat \X Nat
  <1>1. n \div Half \in Nat /\ n % Half \in Nat
    BY DEF Half
  <1>2. (p + n \div Half) % Half \in Nat
    <2> DEFINE s == p + n \div Half
    <2>1. s \in Nat
      BY <1>1
    <2> HIDE DEF s
    <2>2. s % Half \in Nat
      BY <2>1 DEF Half
    <2> QED BY <2>2 DEF s
  <1> QED BY <1>1, <1>2 DEF pipe_nr

LEMMA LoopInitInv ==
  ASSUME ServerLoopAssumption, LoopInit
  PROVE  LoopInv
  <1>1. LoopTypeOK
    BY DEF LoopInit, LoopTypeOK, ServerLoopAssumption
  <1>2. OneThreadEach /\ Placed
    BY DEF LoopInit, OneThreadEach, Placed, ServerLoopAssumption
  <1> QED BY <1>1, <1>2 DEF LoopInv

\* A thread that goes on, or is given the opener of its standard pipes, is
\* still the only one of its number and client.
LEMMA OneChanges ==
  ASSUME LoopInv, NEW t \in threads, NEW u \in Thread,
         u.num = t.num, u.client = t.client,
         threads' = (threads \ {t}) \union {u}, UNCHANGED <<pid, listener, conn_number>>,
         \A c \in Client : at[c] \in Inside => at'[c] \in Inside
  PROVE  OneThreadEach' /\ Placed' /\ threads' \subseteq Thread
  <1>1. threads \subseteq Thread
    BY DEF LoopInv, LoopTypeOK, Thread
  <1>2. OneThreadEach'
    BY <1>1 DEF LoopInv, OneThreadEach, Thread
  <1>3. Placed'
    BY <1>1 DEF LoopInv, Placed, Thread
  <1> QED BY <1>1, <1>2, <1>3

\* Steps that leave the threads alone, or take some away.
LEMMA FewerThreads ==
  ASSUME LoopInv, threads' \subseteq threads, UNCHANGED <<pid, listener, conn_number>>,
         \A c \in Client : at[c] \in Inside => at'[c] \in Inside
  PROVE  OneThreadEach' /\ Placed'
  BY DEF LoopInv, LoopTypeOK, OneThreadEach, Placed

LEMMA LoopStepInv ==
  ASSUME ServerLoopAssumption, LoopInv, LoopStep \/ LoopAcceptFails
  PROVE  LoopInv'
  <1> USE DEF historyVars
  <1>1. CASE LoopCreate
    <2>1. LoopTypeOK'
      BY <1>1 DEF LoopCreate, LoopInv, LoopTypeOK
    <2>2. listener' = Free \/ listener' = listener
      BY <1>1 DEF LoopCreate
    <2>3. Free \notin Client
      BY DEF ServerLoopAssumption
    <2>4. OneThreadEach' /\ Placed'
      BY <1>1, <2>2, <2>3 DEF LoopCreate, LoopInv, LoopTypeOK, OneThreadEach, Placed
    <2> QED BY <2>1, <2>4 DEF LoopInv
  <1>2. CASE LoopAccept
    <2> DEFINE u == [num |-> conn_number + 1, client |-> listener, by |-> NoClient, phase |-> "lines"]
    <2>1. /\ listener \in Client /\ listener' = NoClient /\ loop' = "create"
          /\ threads' = threads \/ (threads' = threads \union {u} /\ conn_number' = conn_number + 1)
          /\ conn_number' = conn_number \/ conn_number' = conn_number + 1
          /\ exotic' \subseteq {"pid", "conn"}
          /\ UNCHANGED <<pid, procs, at, told, stops, reruns, past>> /\ pid # 0
      BY <1>2 DEF LoopAccept, LoopInv, LoopTypeOK
    <2>2. conn_number \in Nat /\ u \in Thread /\ threads \subseteq Thread /\ NoClient \notin Client
      BY <2>1 DEF LoopInv, LoopTypeOK, Thread, ServerLoopAssumption
    <2>3. threads' \subseteq Thread
      BY <2>1, <2>2
    <2>4. LoopTypeOK'
      BY <2>1, <2>2, <2>3 DEF LoopInv, LoopTypeOK, Thread
    <2>5. u.num = conn_number + 1 /\ u.client = listener
      OBVIOUS
    <2> HIDE DEF u
    <2>6. \A t \in threads : t.num \in 1..conn_number /\ t.client # listener /\ t.client \in Client
      BY <2>2 DEF LoopInv, OneThreadEach, Thread
    <2>7. OneThreadEach'
      <3>1. \A t, v \in threads' : t.num = v.num \/ t.client = v.client => t = v
        BY <2>1, <2>2, <2>5, <2>6 DEF LoopInv, OneThreadEach
      <3>2. \A t \in threads' : t.num \in 1..conn_number' /\ t.client # listener'
        BY <2>1, <2>2, <2>5, <2>6
      <3> QED BY <3>1, <3>2 DEF OneThreadEach
    <2>8. Placed'
      BY <2>1, <2>2, <2>5 DEF LoopInv, Placed
    <2> QED BY <2>4, <2>7, <2>8 DEF LoopInv
  <1>3. CASE LoopAcceptFails
    <2>1. LoopTypeOK'
      BY <1>3 DEF LoopAcceptFails, LoopInv, LoopTypeOK
    <2>2. OneThreadEach' /\ Placed'
      BY <1>3 DEF LoopAcceptFails, LoopInv, LoopTypeOK, OneThreadEach, Placed, ServerLoopAssumption
    <2> QED BY <2>1, <2>2 DEF LoopInv
  <1> QED BY <1>1, <1>2, <1>3 DEF LoopStep

LEMMA ThreadStepInv ==
  ASSUME ServerLoopAssumption, LoopInv, NEW t \in threads, ThreadStep(t)
  PROVE  LoopInv'
  <1> USE DEF historyVars, serviceVars
  <1>1. t \in Thread /\ t.client \in Client
    BY DEF LoopInv, LoopTypeOK, Thread
  <1>2. \A ph \in {"lines", "unserved", "piped", "running", "denied", "ending"} :
            [t EXCEPT !.phase = ph] \in Thread /\ [t EXCEPT !.phase = ph].num = t.num
            /\ [t EXCEPT !.phase = ph].client = t.client
    BY <1>1 DEF Thread
  <1>3. Number(t) \in Nat \X Nat
    BY <1>1, pipe_nrType DEF Number, Thread, LoopInv, LoopTypeOK
  <1>4. CASE ThreadPipes(t)
    <2>1. PICK ph \in {"piped", "denied"} : Becomes(t, ph)
      BY <1>4 DEF ThreadPipes
    <2>2. told' \in [Client -> (Nat \X Nat) \union {<<>>}] /\ at' \in [Client -> Inside \union {"start", "install", "again", "failed"}]
      BY <1>1, <1>3, <1>4 DEF ThreadPipes, LoopInv, LoopTypeOK, Inside
    <2>3. \A c \in Client : at[c] \in Inside => at'[c] \in Inside
      BY <1>1, <1>4 DEF ThreadPipes, LoopInv, LoopTypeOK, Inside
    <2>4. OneThreadEach' /\ Placed' /\ threads' \subseteq Thread
      BY <1>2, <1>4, <2>1, <2>3, OneChanges DEF ThreadPipes, Becomes
    <2>5. LoopTypeOK'
      BY <1>4, <2>2, <2>4 DEF ThreadPipes, LoopInv, LoopTypeOK, Thread, Inside
    <2> QED BY <2>4, <2>5 DEF LoopInv
  <1>5. CASE ThreadSpawn(t)
    <2>1. PICK ph \in {"running", "ending"} : Becomes(t, ph)
      BY <1>5 DEF ThreadSpawn
    <2>2. OneThreadEach' /\ Placed' /\ threads' \subseteq Thread
      BY <1>2, <1>5, <2>1, OneChanges DEF ThreadSpawn, Becomes
    <2>3. ASSUME NEW us \in SUBSET threads
          PROVE  Spawned(t, us) \in [pid : Nat, num : Nat, holds : SUBSET (Nat \X Nat)]
      <3>1. \A u \in threads : Number(u) \in Nat \X Nat
        BY pipe_nrType DEF Number, LoopInv, LoopTypeOK
      <3>2. {Number(u) : u \in {t} \union us} \subseteq Nat \X Nat
        BY <3>1
      <3>3. pid \in Nat /\ t.num \in Nat
        BY <1>1 DEF LoopInv, LoopTypeOK, Thread
      <3> QED BY <3>2, <3>3 DEF Spawned
    <2>4. procs' \subseteq [pid : Nat, num : Nat, holds : SUBSET (Nat \X Nat)]
      <3>1. \A us \in SUBSET MayInherit(t) : us \union {u \in threads : u.phase = "running"} \in SUBSET threads
        BY DEF MayInherit
      <3> QED BY <1>5, <2>3, <3>1 DEF ThreadSpawn, LoopInv, LoopTypeOK
    <2>5. LoopTypeOK'
      BY <1>5, <2>2, <2>4 DEF ThreadSpawn, LoopInv, LoopTypeOK, Thread
    <2> QED BY <2>2, <2>5 DEF LoopInv
  <1>6. CASE ThreadUnwatch(t)
    <2>1. OneThreadEach' /\ Placed' /\ threads' \subseteq Thread
      BY <1>2, <1>6, OneChanges DEF ThreadUnwatch, Becomes
    <2>2. LoopTypeOK'
      BY <1>6, <2>1 DEF ThreadUnwatch, LoopInv, LoopTypeOK, Thread
    <2> QED BY <2>1, <2>2 DEF LoopInv
  <1>7. CASE ThreadEnd(t)
    <2>1. \A c \in Client : at[c] \in Inside => at'[c] \in Inside
      BY <1>7 DEF ThreadEnd, LoopInv, LoopTypeOK, Inside
    <2>2. OneThreadEach' /\ Placed'
      BY <1>7, <2>1, FewerThreads DEF ThreadEnd
    <2>3. LoopTypeOK'
      BY <1>7 DEF ThreadEnd, LoopInv, LoopTypeOK
    <2> QED BY <2>2, <2>3 DEF LoopInv
  <1>8. CASE ThreadUnserved(t)
    <2>1. OneThreadEach' /\ Placed' /\ threads' \subseteq Thread
      BY <1>2, <1>8, OneChanges DEF ThreadUnserved, Becomes
    <2>2. LoopTypeOK'
      BY <1>8, <2>1 DEF ThreadUnserved, LoopInv, LoopTypeOK, Thread
    <2> QED BY <2>1, <2>2 DEF LoopInv
  <1> QED BY <1>4, <1>5, <1>6, <1>7, <1>8 DEF ThreadStep

LEMMA ClientInv ==
  ASSUME ServerLoopAssumption, LoopInv, NEW c \in Client,
         ClientStep(c) \/ Leave(c) \/ Rerun(c)
  PROVE  LoopInv'
  <1> USE DEF historyVars, serviceVars
  <1>1. at \in [Client -> {"start", "install", "again", "in", "told", "streams", "gone", "failed"}]
    BY DEF LoopInv, LoopTypeOK
  <1>2. CASE OpenControl(c)
    <2>1. PICK l \in {"in", "failed", "install"} :
              /\ Goes(c, l)
              /\ listener' = listener \/ (listener' = c /\ l = "in")
      BY <1>2 DEF OpenControl
    <2>2. at[c] \notin Inside
      BY <1>2 DEF OpenControl, Inside
    <2>3. \A t \in threads : t.client # c /\ t.client \in Client
      BY <2>2 DEF LoopInv, Placed, LoopTypeOK
    <2>4. LoopTypeOK'
      BY <1>2, <2>1 DEF OpenControl, Goes, LoopInv, LoopTypeOK
    <2>5. OneThreadEach'
      BY <1>2, <2>1, <2>3 DEF OpenControl, LoopInv, OneThreadEach
    <2>6. Placed'
      BY <1>1, <1>2, <2>1, <2>2, <2>3 DEF OpenControl, Goes, LoopInv, Placed, Inside
    <2> QED BY <2>4, <2>5, <2>6 DEF LoopInv
  <1>3. CASE Install(c)
    <2>1. LoopTypeOK'
      <3>1. pid' \in Nat /\ loop' \in {"create", "connect", "ended"} /\ conn_number' \in Nat
            /\ past' \subseteq Nat
        <4>1. CASE UNCHANGED <<serviceVars, past>>
          BY <4>1 DEF LoopInv, LoopTypeOK
        <4>2. CASE pid' \in Pids /\ loop' = "create" /\ conn_number' = 0 /\ past' = past \union {pid'}
          BY <4>2 DEF LoopInv, LoopTypeOK, ServerLoopAssumption
        <4> QED BY <1>3, <4>1, <4>2, Zenon DEF Install
      <3>2. exotic' \subseteq {"pid", "conn"}
        <4>1. exotic' = exotic \/ exotic' = exotic \union {"pid"}
          BY <1>3, Zenon DEF Install, serviceVars
        <4> QED BY <4>1 DEF LoopInv, LoopTypeOK
      <3>3. at' \in [Client -> {"start", "install", "again", "in", "told", "streams", "gone", "failed"}]
        BY <1>1, <1>3 DEF Install, Goes
      <3> QED BY <1>3, <3>1, <3>2, <3>3 DEF Install, LoopInv, LoopTypeOK
    <2>2. \A t \in threads : t.client # c /\ t.client \in Client
      BY <1>3 DEF Install, LoopInv, Placed, LoopTypeOK, Inside
    <2>3. listener' = listener /\ listener # c
      BY <1>3 DEF Install, LoopInv, Placed, Inside
    <2>4. Placed'
      BY <1>1, <1>3, <2>2, <2>3 DEF Install, Goes, LoopInv, Placed, Inside
    <2>5. OneThreadEach'
      BY <1>3 DEF Install, LoopInv, Placed, OneThreadEach
    <2> QED BY <2>1, <2>4, <2>5 DEF LoopInv
  <1>4. CASE OpenStandard(c)
    <2>1. /\ at[c] = "told" /\ told' = [told EXCEPT ![c] = <<>>]
          /\ at' = [at EXCEPT ![c] = "streams"] \/ at' = [at EXCEPT ![c] = "gone"]
          /\ UNCHANGED <<serviceVars, procs, historyVars>>
      BY <1>4 DEF OpenStandard, Goes
    <2>2. \A d \in Client : at[d] \in Inside => at'[d] \in Inside
      BY <1>1, <2>1 DEF Inside
    <2>3. CASE \E t \in Finds(c) : threads' = (threads \ {t}) \union {[t EXCEPT !.by = c]}
      <3>1. PICK t \in threads : threads' = (threads \ {t}) \union {[t EXCEPT !.by = c]}
        BY <2>3 DEF Finds
      <3>2. t \in Thread
        BY DEF LoopInv, LoopTypeOK, Thread
      <3>3. /\ [t EXCEPT !.by = c] \in Thread /\ [t EXCEPT !.by = c].num = t.num
            /\ [t EXCEPT !.by = c].client = t.client
        BY <3>2 DEF Thread
      <3>4. OneThreadEach' /\ Placed' /\ threads' \subseteq Thread
        BY <2>1, <2>2, <3>1, <3>3, OneChanges
      <3>5. LoopTypeOK'
        BY <2>1, <3>4 DEF LoopInv, LoopTypeOK, Thread
      <3> QED BY <3>4, <3>5 DEF LoopInv
    <2>4. CASE threads' = threads
      <3>1. OneThreadEach' /\ Placed'
        BY <2>1, <2>2, <2>4, FewerThreads
      <3>2. LoopTypeOK'
        BY <2>1, <2>4 DEF LoopInv, LoopTypeOK
      <3> QED BY <3>1, <3>2 DEF LoopInv
    <2> QED BY <1>4, <2>3, <2>4 DEF OpenStandard
  <1>5. CASE Leave(c)
    <2>1. \A d \in Client : at[d] \in Inside => at'[d] \in Inside
      BY <1>1, <1>5 DEF Leave, Goes, Inside
    <2>2. OneThreadEach' /\ Placed'
      BY <1>5, <2>1, FewerThreads DEF Leave
    <2>3. LoopTypeOK'
      BY <1>5 DEF Leave, Goes, LoopInv, LoopTypeOK
    <2> QED BY <2>2, <2>3 DEF LoopInv
  <1>6. CASE Rerun(c)
    <2>1. LoopTypeOK'
      BY <1>6 DEF Rerun, Goes, LoopInv, LoopTypeOK
    <2>2. \A t \in threads : t.client # c /\ t.client \in Client
      BY <1>6 DEF Rerun, Instances, LoopInv, LoopTypeOK
    <2>3. listener' = listener /\ (listener \in Client => listener # c)
      BY <1>6 DEF Rerun, Instances, ServerLoopAssumption
    <2>4. Placed'
      BY <1>1, <1>6, <2>2, <2>3 DEF Rerun, Goes, LoopInv, Placed
    <2>5. OneThreadEach'
      BY <1>6 DEF Rerun, LoopInv, OneThreadEach
    <2> QED BY <2>1, <2>4, <2>5 DEF LoopInv
  <1> QED BY <1>2, <1>3, <1>4, <1>5, <1>6 DEF ClientStep, Lost

LEMMA OtherInv ==
  ASSUME ServerLoopAssumption, LoopInv, ProcExit \/ Stop
  PROVE  LoopInv'
  <1> USE DEF historyVars, serviceVars
  <1>1. CASE ProcExit
    BY <1>1 DEF ProcExit, LoopInv, LoopTypeOK, OneThreadEach, Placed
  <1>2. CASE Stop
    BY <1>2 DEF Stop, LoopInv, LoopTypeOK, OneThreadEach, Placed, ServerLoopAssumption
  <1> QED BY <1>1, <1>2

LEMMA LoopNextInv ==
  ASSUME ServerLoopAssumption, LoopInv, [LoopNext]_loopVars
  PROVE  LoopInv'
  <1>1. CASE LoopNext
    BY <1>1, LoopStepInv, ThreadStepInv, ClientInv, OtherInv DEF LoopNext
  <1>2. CASE UNCHANGED loopVars
    BY <1>2 DEF loopVars, serviceVars, historyVars, LoopInv, LoopTypeOK, OneThreadEach, Placed
  <1> QED BY <1>1, <1>2

\* The state of the loop, its threads and clients is of its type.
THEOREM LoopTypeCorrect == LoopSpec => []LoopTypeOK
  <1>1. LoopInit => LoopInv
    BY LoopInitInv, ServerLoopAssumption
  <1>2. LoopInv /\ [LoopNext]_loopVars => LoopInv'
    BY LoopNextInv, ServerLoopAssumption
  <1>3. LoopInv => LoopTypeOK
    BY DEF LoopInv
  <1> QED BY <1>1, <1>2, <1>3, PTL DEF LoopSpec

\* Every connection has a thread and a number of its own, and no client is
\* served by two threads or listened to once more.
THEOREM OneThreadEachCorrect == LoopSpec => []OneThreadEach
  <1>1. LoopInit => LoopInv
    BY LoopInitInv, ServerLoopAssumption
  <1>2. LoopInv /\ [LoopNext]_loopVars => LoopInv'
    BY LoopNextInv, ServerLoopAssumption
  <1>3. LoopInv => OneThreadEach
    BY DEF LoopInv
  <1> QED BY <1>1, <1>2, <1>3, PTL DEF LoopSpec

-----------------------------------------------------------------------------
\* The names of the standard pipes. As long as no process id comes again
\* modulo 2^16 and no process of the service has 2^16 connections, a client
\* opens its own pipes and their names are free.

\* A name that no connection to come will have: its process is an old one of
\* the service, or its number has been given out.
Spent(h) == \E q \in past : h[1] = q % Half /\ (q = pid => h[2] <= conn_number)

Apart ==
    /\ 0 \notin past /\ (pid # 0 => pid \in past)
    /\ conn_number < Half
    /\ \A p, q \in past : p % Half = q % Half => p = q

\* What a client was told is its own or nobody's, ...
Told ==
    \A c \in Client : told[c] # <<>> =>
        /\ Spent(told[c])
        /\ \A t \in threads : Number(t) = told[c] => t.client = c

\* ... and what a process holds is not the name a thread is about to create.
Held ==
    \A p \in procs : \A h \in p.holds :
        /\ Spent(h)
        /\ \A t \in threads : Number(t) = h => t.phase # "lines"

NameInv == exotic = {} => Apart /\ Told /\ Held /\ OwnPipes /\ NamesFree

----------------------------------------------------------------------------
\* Numbers.

LEMMA pipe_nrLow ==
  ASSUME NEW p \in Nat, NEW n \in Nat, n < Half
  PROVE  pipe_nr(p, n) = <<p % Half, n>>
  <1>1. n \div Half = 0 /\ n % Half = n
    BY DEF Half
  <1>2. p + 0 = p
    OBVIOUS
  <1> QED BY <1>1, <1>2 DEF pipe_nr

\* Threads have different numbers, all of them spent.
LEMMA NumberIs ==
  ASSUME LoopInv, Apart, NEW t \in threads
  PROVE  Number(t) = <<pid % Half, t.num>> /\ Spent(Number(t)) /\ t.num \in Nat
  <1>1. t.num \in Nat /\ t.num <= conn_number /\ conn_number \in Nat /\ pid \in Nat /\ pid # 0
    BY DEF LoopInv, LoopTypeOK, OneThreadEach, Placed
  <1>2. t.num < Half
    BY <1>1 DEF Apart, Half
  <1>3. Number(t) = <<pid % Half, t.num>>
    BY <1>1, <1>2, pipe_nrLow DEF Number
  <1>4. pid \in past
    BY <1>1 DEF Apart
  <1> QED BY <1>1, <1>3, <1>4 DEF Spent

LEMMA NumbersDiffer ==
  ASSUME LoopInv, Apart, NEW t \in threads, NEW u \in threads, Number(t) = Number(u)
  PROVE  t = u
  <1>1. t.num = u.num
    BY NumberIs
  <1> QED BY <1>1 DEF LoopInv, OneThreadEach

\* Steps that tell nobody anything, ...
LEMMA QuietTold ==
  ASSUME Told, UNCHANGED <<pid, conn_number, past>>,
         \A c \in Client : told'[c] \in {told[c], <<>>},
         \A u \in threads' : \E t \in threads : u.num = t.num /\ u.client = t.client
  PROVE  Told'
  <1> SUFFICES ASSUME NEW c \in Client, told'[c] # <<>>
               PROVE  /\ Spent(told[c])'
                      /\ \A u \in threads' : Number(u)' = told'[c] => u.client = c
    BY DEF Told
  <1>1. told'[c] = told[c] /\ told[c] # <<>>
    OBVIOUS
  <1>2. Spent(told[c])'
    BY <1>1 DEF Told, Spent
  <1>3. \A u \in threads' : Number(u)' = told'[c] => u.client = c
    BY <1>1 DEF Told, Number
  <1> QED BY <1>2, <1>3

\* ... and steps that start no process and no connection.
LEMMA QuietHeld ==
  ASSUME Held, UNCHANGED <<pid, conn_number, past>>, procs' \subseteq procs,
         \A u \in threads' : \E t \in threads :
            u.num = t.num /\ (u.phase = "lines" => t.phase = "lines")
  PROVE  Held'
  <1> SUFFICES ASSUME NEW p \in procs', NEW h \in p.holds
               PROVE  Spent(h)' /\ \A u \in threads' : Number(u)' = h => u.phase # "lines"
    BY DEF Held
  <1>1. p \in procs
    OBVIOUS
  <1>2. Spent(h)'
    BY <1>1 DEF Held, Spent
  <1>3. \A u \in threads' : Number(u)' = h => u.phase # "lines"
    BY <1>1 DEF Held, Number
  <1> QED BY <1>2, <1>3

LEMMA QuietNames ==
  ASSUME LoopInv, exotic' = {}, exotic = {}, NameInv,
         UNCHANGED <<pid, conn_number, past>>,
         procs' \subseteq procs,
         \A c \in Client : told'[c] \in {told[c], <<>>},
         \A u \in threads' : \E t \in threads :
            /\ u.num = t.num /\ u.client = t.client
            /\ (u.phase = "lines" => t.phase = "lines")
            /\ (u.phase = "denied" => t.phase = "denied")
            /\ u.by \in {t.by, NoClient, u.client}
  PROVE  NameInv'
  <1>1. Apart'
    BY DEF NameInv, Apart
  <1>2. Told'
    BY QuietTold DEF NameInv
  <1>3. Held'
    BY QuietHeld DEF NameInv
  <1>4. OwnPipes' /\ NamesFree'
    BY DEF NameInv, OwnPipes, NamesFree
  <1> QED BY <1>1, <1>2, <1>3, <1>4 DEF NameInv

----------------------------------------------------------------------------
\* The steps.

LEMMA InitNames ==
  ASSUME ServerLoopAssumption, ServedAssumption, LoopInit
  PROVE  NameInv
  <1>1. Apart
    <2>1. 0 \notin past /\ (pid # 0 => pid \in past) /\ \A p, q \in past : p = q
      BY DEF LoopInit, ServerLoopAssumption
    <2>2. conn_number < Half
      BY DEF LoopInit, ServedAssumption, Half
    <2> QED BY <2>1, <2>2 DEF Apart
  <1>2. Told /\ Held /\ OwnPipes /\ NamesFree
    BY DEF LoopInit, Told, Held, OwnPipes, NamesFree
  <1> QED BY <1>1, <1>2 DEF NameInv

LEMMA SpentLater ==
  ASSUME NEW h \in Nat \X Nat, Spent(h), conn_number \in Nat,
         conn_number' \in {conn_number, conn_number + 1}, UNCHANGED <<pid, past>>
  PROVE  Spent(h)'
  <1>1. PICK q \in past : h[1] = q % Half /\ (q = pid => h[2] <= conn_number)
    BY DEF Spent
  <1>2. h[2] \in Nat
    OBVIOUS
  <1>3. q = pid' => h[2] <= conn_number'
    BY <1>1, <1>2
  <1> QED BY <1>1, <1>3 DEF Spent

\* A new connection gets a name that is not spent.
LEMMA FreshName ==
  ASSUME Apart, NEW h \in Nat \X Nat, Spent(h), pid \in Nat, pid # 0, conn_number \in Nat
  PROVE  h # <<pid % Half, conn_number + 1>>
  <1>1. PICK q \in past : h[1] = q % Half /\ (q = pid => h[2] <= conn_number)
    BY DEF Spent
  <1>2. SUFFICES ASSUME h = <<pid % Half, conn_number + 1>> PROVE FALSE
    OBVIOUS
  <1>3. h[1] = pid % Half /\ h[2] = conn_number + 1
    BY <1>2
  <1>4. q = pid
    BY <1>1, <1>3 DEF Apart
  <1> QED BY <1>1, <1>3, <1>4

LEMMA LoopStepNames ==
  ASSUME ServerLoopAssumption, LoopInv, NameInv, LoopStep \/ LoopAcceptFails
  PROVE  NameInv'
  <1> USE DEF historyVars
  <1>1. CASE LoopCreate
    <2> SUFFICES ASSUME exotic' = {} PROVE NameInv'
      BY DEF NameInv
    <2> QED BY <1>1, QuietNames DEF LoopCreate
  <1>2. CASE LoopAccept
    <2> SUFFICES ASSUME exotic' = {} PROVE Apart' /\ Told' /\ Held' /\ OwnPipes' /\ NamesFree'
      BY DEF NameInv
    <2> DEFINE u == [num |-> conn_number + 1, client |-> listener, by |-> NoClient, phase |-> "lines"]
    <2>1. /\ UNCHANGED <<pid, procs, told, past>> /\ exotic = {}
          /\ \/ conn_number' = conn_number
             \/ conn_number' = conn_number + 1 /\ ~(conn_number + 1 >= Half)
          /\ \/ threads' = threads
             \/ threads' = threads \union {u} /\ conn_number' = conn_number + 1
      BY <1>2 DEF LoopAccept
    <2>2. conn_number \in Nat /\ pid \in Nat /\ pid # 0 /\ past \subseteq Nat
      BY <1>2 DEF LoopAccept, LoopInv, LoopTypeOK
    <2>3. u.num = conn_number + 1 /\ u.by = NoClient /\ u.phase = "lines"
      OBVIOUS
    <2> HIDE DEF u
    <2>4. \A t \in threads : Number(t)' = Number(t)
      BY <2>1 DEF Number
    <2>5. Apart /\ Told /\ Held /\ OwnPipes /\ NamesFree
      BY <2>1 DEF NameInv
    <2>6. Apart'
      BY <2>1, <2>2, <2>5 DEF Apart, Half
    <2>7. ASSUME NEW v, v.num = conn_number + 1, conn_number' = conn_number + 1
          PROVE  Number(v)' = <<pid % Half, conn_number + 1>>
      <3>1. conn_number + 1 < Half
        BY <2>1, <2>2, <2>7 DEF Half
      <3>2. Number(v)' = pipe_nr(pid, conn_number + 1)
        BY <2>1, <2>7 DEF Number
      <3> QED BY <2>2, <3>1, <3>2, pipe_nrLow
    <2>8. Told'
      <3> SUFFICES ASSUME NEW c \in Client, told'[c] # <<>>
                   PROVE  /\ Spent(told[c])'
                          /\ \A t \in threads' : Number(t)' = told'[c] => t.client = c
        BY DEF Told
      <3>1. told'[c] = told[c] /\ told[c] \in Nat \X Nat /\ Spent(told[c])
        BY <2>1, <2>5 DEF Told, LoopInv, LoopTypeOK
      <3>2. Spent(told[c])'
        BY <2>1, <2>2, <3>1, SpentLater
      <3>3. told[c] # <<pid % Half, conn_number + 1>>
        BY <2>2, <2>5, <3>1, FreshName
      <3>4. \A t \in threads' : Number(t)' = told'[c] => t.client = c
        BY <2>1, <2>3, <2>4, <2>5, <2>7, <3>1, <3>3 DEF Told
      <3> QED BY <3>2, <3>4
    <2>9. Held'
      <3> SUFFICES ASSUME NEW p \in procs', NEW h \in p.holds
                   PROVE  Spent(h)' /\ \A t \in threads' : Number(t)' = h => t.phase # "lines"
        BY DEF Held
      <3>1. h \in Nat \X Nat /\ Spent(h)
        BY <2>1, <2>5 DEF Held, LoopInv, LoopTypeOK
      <3>2. Spent(h)'
        BY <2>1, <2>2, <3>1, SpentLater
      <3>3. h # <<pid % Half, conn_number + 1>>
        BY <2>2, <2>5, <3>1, FreshName
      <3>4. \A t \in threads' : Number(t)' = h => t.phase # "lines"
        BY <2>1, <2>3, <2>4, <2>5, <2>7, <3>3 DEF Held
      <3> QED BY <3>2, <3>4
    <2>10. OwnPipes' /\ NamesFree'
      BY <2>1, <2>3, <2>5 DEF OwnPipes, NamesFree
    <2> QED BY <2>6, <2>8, <2>9, <2>10
  <1>3. CASE LoopAcceptFails
    <2> SUFFICES ASSUME exotic' = {} PROVE NameInv'
      BY DEF NameInv
    <2> QED BY <1>3, QuietNames DEF LoopAcceptFails
  <1> QED BY <1>1, <1>2, <1>3 DEF LoopStep

\* Nobody else has the names a thread is about to create.
LEMMA NotInUse ==
  ASSUME LoopInv, Apart, Held, NEW t \in threads, t.phase = "lines"
  PROVE  ~InUse(Number(t))
  <1>1. Holders(Number(t)) = {}
    BY DEF Held, Holders
  <1>2. \A u \in threads : HasPipes(u) => Number(u) # Number(t)
    BY NumbersDiffer DEF HasPipes
  <1> QED BY <1>1, <1>2 DEF InUse

LEMMA ThreadStepNames ==
  ASSUME ServerLoopAssumption, LoopInv, NameInv, NEW t \in threads, ThreadStep(t)
  PROVE  NameInv'
  <1> SUFFICES ASSUME exotic' = {} PROVE NameInv'
    BY DEF NameInv
  <1> USE DEF historyVars, serviceVars
  <1>1. exotic = {} /\ UNCHANGED <<pid, conn_number, past>>
    BY DEF ThreadStep, ThreadUnserved, ThreadPipes, ThreadSpawn, ThreadUnwatch, ThreadEnd
  <1>2. Apart /\ Told /\ Held /\ OwnPipes /\ NamesFree
    BY <1>1 DEF NameInv
  <1>3. t \in Thread /\ t.client \in Client /\ told \in [Client -> (Nat \X Nat) \union {<<>>}]
    BY DEF LoopInv, LoopTypeOK, Thread
  <1>4. \A ph \in {"unserved", "piped", "running", "denied", "ending"} :
            LET u == [t EXCEPT !.phase = ph]
            IN  u.num = t.num /\ u.client = t.client /\ u.by = t.by /\ u.phase = ph
    BY <1>3 DEF Thread
  <1>5. Apart'
    BY <1>1, <1>2 DEF Apart
  <1>6. CASE ThreadPipes(t)
    <2>1. ~InUse(Number(t))
      BY <1>2, <1>6, NotInUse DEF ThreadPipes
    <2>2. /\ Becomes(t, "piped") /\ procs' = procs
          /\ told' = [told EXCEPT ![t.client] = Number(t)]
      BY <1>6, <2>1 DEF ThreadPipes
    <2> DEFINE u == [t EXCEPT !.phase = "piped"]
    <2>3. threads' = (threads \ {t}) \union {u} /\ u.num = t.num /\ u.client = t.client
          /\ u.by = t.by /\ u.phase = "piped"
      BY <1>4, <2>2 DEF Becomes
    <2> HIDE DEF u
    <2>4. Held'
      BY <1>1, <1>2, <2>2, <2>3, QuietHeld
    <2>5. Number(u)' = Number(t) /\ \A v \in threads : Number(v)' = Number(v)
      BY <1>1, <2>3 DEF Number
    <2>6. Told'
      <3> SUFFICES ASSUME NEW c \in Client, told'[c] # <<>>
                   PROVE  /\ Spent(told'[c])
                          /\ \A v \in threads' : Number(v)' = told'[c] => v.client = c
        BY <1>1 DEF Told, Spent
      <3>1. CASE c = t.client
        <4>1. told'[c] = Number(t)
          BY <1>3, <2>2, <3>1
        <4>2. \A v \in threads : Number(v) = Number(t) => v = t
          BY <1>2, NumbersDiffer
        <4> QED BY <1>2, <2>3, <2>5, <3>1, <4>1, <4>2, NumberIs
      <3>2. CASE c # t.client
        <4>1. told'[c] = told[c]
          BY <1>3, <2>2, <3>2
        <4> QED BY <1>2, <2>3, <2>5, <4>1 DEF Told
      <3> QED BY <3>1, <3>2
    <2>7. OwnPipes' /\ NamesFree'
      BY <1>1, <1>2, <2>3 DEF OwnPipes, NamesFree
    <2> QED BY <1>5, <2>4, <2>6, <2>7 DEF NameInv
  <1>7. CASE ThreadSpawn(t)
    <2>1. PICK ph \in {"running", "ending"} : Becomes(t, ph)
      BY <1>7 DEF ThreadSpawn
    <2> DEFINE u == [t EXCEPT !.phase = ph]
    <2>2. threads' = (threads \ {t}) \union {u} /\ u.num = t.num /\ u.client = t.client
          /\ u.by = t.by /\ u.phase = ph
      BY <1>4, <2>1 DEF Becomes
    <2> HIDE DEF u
    <2>3. told' = told /\ t.phase = "piped"
      BY <1>7 DEF ThreadSpawn
    <2>4. Told'
      BY <1>1, <1>2, <2>2, <2>3, QuietTold
    <2>5. Number(u)' = Number(t) /\ \A v \in threads : Number(v)' = Number(v)
      BY <1>1, <2>2 DEF Number
    <2>6. PICK us \in SUBSET {v \in threads : v.phase # "lines"} : procs' \subseteq procs \union {Spawned(t, us)}
      <3>1. CASE \E us \in SUBSET MayInherit(t) :
                   procs' = procs \union {Spawned(t, us \union {v \in threads : v.phase = "running"})}
        <4>1. PICK us \in SUBSET MayInherit(t) :
                   procs' = procs \union {Spawned(t, us \union {v \in threads : v.phase = "running"})}
          BY <3>1
        <4>2. us \union {v \in threads : v.phase = "running"} \in SUBSET {v \in threads : v.phase # "lines"}
          BY DEF MayInherit
        <4> QED BY <4>1, <4>2
      <3>2. procs' = procs \/ \E us \in SUBSET MayInherit(t) :
                   procs' = procs \union {Spawned(t, us \union {v \in threads : v.phase = "running"})}
        BY <1>7 DEF ThreadSpawn
      <3> QED BY <3>1, <3>2
    <2> DEFINE p == Spawned(t, us)
    <2>7. \A h \in p.holds : \E v \in threads : h = Number(v) /\ v.phase # "lines"
      BY <2>3 DEF Spawned
    <2> HIDE DEF p
    <2>8. Held'
      <3> SUFFICES ASSUME NEW r \in procs', NEW h \in r.holds
                   PROVE  Spent(h) /\ \A v \in threads' : Number(v)' = h => v.phase # "lines"
        BY <1>1 DEF Held, Spent
      <3>1. CASE r \in procs
        BY <1>2, <2>2, <2>5, <3>1 DEF Held
      <3>2. CASE r = p
        <4>1. PICK v \in threads : h = Number(v) /\ v.phase # "lines"
          BY <2>7, <3>2
        <4>2. \A w \in threads : Number(w) = h => w = v
          BY <1>2, <4>1, NumbersDiffer
        <4> QED BY <1>2, <2>2, <2>5, <4>1, <4>2, NumberIs
      <3> QED BY <2>6, <3>1, <3>2 DEF p
    <2>9. OwnPipes' /\ NamesFree'
      BY <1>1, <1>2, <2>2 DEF OwnPipes, NamesFree
    <2> QED BY <1>5, <2>4, <2>8, <2>9 DEF NameInv
  <1>8. CASE ThreadUnwatch(t)
    <2>1. Becomes(t, "ending") /\ procs' \subseteq procs /\ told' = told
      BY <1>8 DEF ThreadUnwatch
    <2>2. \A u \in threads' : \E v \in threads :
            /\ u.num = v.num /\ u.client = v.client /\ u.by = v.by
            /\ (u.phase = "lines" => v.phase = "lines")
            /\ (u.phase = "denied" => v.phase = "denied")
      BY <1>4, <2>1 DEF Becomes
    <2> QED BY <1>1, <2>1, <2>2, QuietNames
  <1>9. CASE ThreadEnd(t)
    <2>1. threads' \subseteq threads /\ procs' = procs
          /\ \A c \in Client : told'[c] \in {told[c], <<>>}
      BY <1>3, <1>9 DEF ThreadEnd
    <2> QED BY <1>1, <2>1, QuietNames
  <1>10. CASE ThreadUnserved(t)
    <2>1. Becomes(t, "unserved") /\ procs' = procs /\ told' = told /\ t.phase = "lines"
      BY <1>10 DEF ThreadUnserved
    <2>2. \A u \in threads' : \E v \in threads :
            /\ u.num = v.num /\ u.client = v.client /\ u.by = v.by
            /\ (u.phase = "lines" => v.phase = "lines")
            /\ (u.phase = "denied" => v.phase = "denied")
      BY <1>4, <2>1 DEF Becomes
    <2> QED BY <1>1, <2>1, <2>2, QuietNames
  <1> QED BY <1>6, <1>7, <1>8, <1>9, <1>10 DEF ThreadStep

\* A client opens only pipes of its own; a new process of the service has a
\* name of its own.
LEMMA ClientNames ==
  ASSUME ServerLoopAssumption, LoopInv, NameInv, NEW c \in Client,
         ClientStep(c) \/ Leave(c) \/ Rerun(c)
  PROVE  NameInv'
  <1> SUFFICES ASSUME exotic' = {} PROVE NameInv'
    BY DEF NameInv
  <1> USE DEF historyVars, serviceVars
  <1>1. told \in [Client -> (Nat \X Nat) \union {<<>>}]
    BY DEF LoopInv, LoopTypeOK
  <1>2. CASE OpenControl(c)
    BY <1>2, QuietNames DEF OpenControl
  <1>3. CASE Install(c)
    <2>1. CASE UNCHANGED <<serviceVars, past, exotic>>
      BY <1>3, <2>1, QuietNames DEF Install
    <2>2. CASE ~UNCHANGED <<serviceVars, past, exotic>>
      <3>1. /\ pid = 0 /\ pid' \in Pids /\ conn_number' = 0 /\ past' = past \union {pid'}
            /\ exotic' = IF \E p \in past : p % Half = pid' % Half
                         THEN exotic \union {"pid"} ELSE exotic
            /\ UNCHANGED <<threads, procs, told>>
        BY <1>3, <2>2 DEF Install
      <3>2. exotic = {} /\ \A p \in past : p % Half # pid' % Half
        BY <3>1
      <3>3. Apart /\ Told /\ Held
        BY <3>2 DEF NameInv
      <3>4. threads = {}
        BY <3>1 DEF LoopInv, Placed
      <3>5. pid' \in Nat /\ pid' # 0
        BY <3>1 DEF ServerLoopAssumption
      <3>6. Apart'
        BY <3>1, <3>2, <3>3, <3>5 DEF Apart, Half
      <3>7. \A h : Spent(h) => Spent(h)'
        BY <3>1, <3>2 DEF Spent
      <3>8. Told' /\ Held'
        BY <3>1, <3>3, <3>4, <3>7 DEF Told, Held
      <3>9. OwnPipes' /\ NamesFree'
        BY <3>1, <3>4 DEF OwnPipes, NamesFree
      <3> QED BY <3>6, <3>8, <3>9 DEF NameInv
    <2> QED BY <2>1, <2>2
  <1>4. CASE OpenStandard(c)
    <2>1. /\ told' = [told EXCEPT ![c] = <<>>]
          /\ UNCHANGED <<serviceVars, procs, historyVars>>
          /\ \/ threads' = threads
             \/ \E t \in Finds(c) : threads' = (threads \ {t}) \union {[t EXCEPT !.by = c]}
      BY <1>4 DEF OpenStandard
    <2>2. \A u \in threads' : \E t \in threads :
            /\ u.num = t.num /\ u.client = t.client /\ u.phase = t.phase
            /\ u.by \in {t.by, u.client}
      <3>1. CASE threads' = threads
        BY <3>1
      <3>2. CASE \E t \in Finds(c) : threads' = (threads \ {t}) \union {[t EXCEPT !.by = c]}
        <4>1. PICK t \in Finds(c) : threads' = (threads \ {t}) \union {[t EXCEPT !.by = c]}
          BY <3>2
        <4>2. t \in threads /\ t \in Thread /\ Number(t) = told[c]
          BY <4>1 DEF Finds, LoopInv, LoopTypeOK, Thread
        <4>3. t.client = c
          <5>1. told[c] # <<>>
            BY <4>2, SMTT(30) DEF Number, pipe_nr
          <5> QED BY <2>1, <4>2, <5>1 DEF NameInv, Told
        <4> QED BY <4>1, <4>2, <4>3 DEF Thread
      <3> QED BY <2>1, <3>1, <3>2
    <2>3. \A d \in Client : told'[d] \in {told[d], <<>>}
      BY <1>1, <2>1
    <2> QED BY <2>1, <2>2, <2>3, QuietNames
  <1>5. CASE Leave(c)
    <2>1. \A d \in Client : told'[d] \in {told[d], <<>>}
      BY <1>1, <1>5 DEF Leave
    <2> QED BY <1>5, <2>1, QuietNames DEF Leave
  <1>6. CASE Rerun(c)
    BY <1>6, QuietNames DEF Rerun
  <1> QED BY <1>2, <1>3, <1>4, <1>5, <1>6 DEF ClientStep, Lost

LEMMA OtherNames ==
  ASSUME ServerLoopAssumption, LoopInv, NameInv, ProcExit \/ Stop
  PROVE  NameInv'
  <1> SUFFICES ASSUME exotic' = {} PROVE NameInv'
    BY DEF NameInv
  <1> USE DEF historyVars, serviceVars
  <1>1. CASE ProcExit
    BY <1>1, QuietNames DEF ProcExit
  <1>2. CASE Stop
    <2>1. /\ pid' = 0 /\ conn_number' = 0 /\ threads' = {}
          /\ UNCHANGED <<procs, told, past, exotic>>
      BY <1>2 DEF Stop
    <2>2. Apart /\ Told /\ Held
      BY <2>1 DEF NameInv
    <2>3. Apart'
      BY <2>1, <2>2 DEF Apart, Half
    <2>4. \A h : Spent(h) => Spent(h)'
      BY <2>1, <2>3 DEF Spent, Apart
    <2>5. Told' /\ Held'
      BY <2>1, <2>2, <2>4 DEF Told, Held
    <2>6. OwnPipes' /\ NamesFree'
      BY <2>1 DEF OwnPipes, NamesFree
    <2> QED BY <2>3, <2>5, <2>6 DEF NameInv
  <1> QED BY <1>1, <1>2

LEMMA NextNames ==
  ASSUME ServerLoopAssumption, LoopInv, NameInv, [LoopNext]_loopVars
  PROVE  NameInv'
  <1>1. CASE LoopNext
    BY <1>1, LoopStepNames, ThreadStepNames, ClientNames, OtherNames DEF LoopNext
  <1>2. CASE UNCHANGED loopVars
    <2>1. UNCHANGED <<pid, conn_number, threads, procs, told, past, exotic>>
      BY <1>2 DEF loopVars, serviceVars, historyVars
    <2> SUFFICES ASSUME exotic' = {} PROVE NameInv'
      BY DEF NameInv
    <2> QED BY <2>1, QuietNames
  <1> QED BY <1>1, <1>2

\* The standard pipes a client opens are those of its own connection, whatever
\* happened to the service and to other clients since it was told their number.
THEOREM OwnPipesCorrect == LoopSpec => []OwnPipes
  <1>1. LoopInit => LoopInv /\ NameInv
    BY LoopInitInv, InitNames, ServerLoopAssumption, ServedAssumption
  <1>2. LoopInv /\ NameInv /\ [LoopNext]_loopVars => LoopInv' /\ NameInv'
    BY LoopNextInv, NextNames, ServerLoopAssumption
  <1>3. NameInv => OwnPipes
    BY DEF NameInv, OwnPipes
  <1> QED BY <1>1, <1>2, <1>3, PTL DEF LoopSpec

\* No connection is refused its pipes because a process that inherited others
\* keeps their names.
THEOREM NamesFreeCorrect == LoopSpec => []NamesFree
  <1>1. LoopInit => LoopInv /\ NameInv
    BY LoopInitInv, InitNames, ServerLoopAssumption, ServedAssumption
  <1>2. LoopInv /\ NameInv /\ [LoopNext]_loopVars => LoopInv' /\ NameInv'
    BY LoopNextInv, NextNames, ServerLoopAssumption
  <1>3. NameInv => NamesFree
    BY DEF NameInv, NamesFree
  <1> QED BY <1>1, <1>2, <1>3, PTL DEF LoopSpec
=============================================================================
