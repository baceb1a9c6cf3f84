---------------------------- MODULE SessionEndProofs ----------------------------
(***************************************************************************)
(* How a run of Session ends in which no call fails, no connection is lost *)
(* and nobody interrupts: with the code of the process.  Whatever the      *)
(* version of the service that is found, every message is sent once and    *)
(* answered by what it asked for, every request meets an open file and an  *)
(* instance that still has both its ends, and the control pipe carries     *)
(* nothing the client does not expect, until the code has been read.       *)
(***************************************************************************)
EXTENDS SessionRunProofs

-----------------------------------------------------------------------------
\* A run in which nothing goes wrong.

\* No call fails, no connection is lost, nobody interrupts.
Smooth == Faults = {} /\ MayFail = {} /\ Signals = {}

\* Only a service that is not there is installed, once.
FineInv ==
    /\ Staying /\ net = "up" /\ ~abort_requested /\ ~abortSent /\ svc # "starting"
    /\ svc = "down" => ~activated
    /\ mode = "install" => svc = "down"

\* The thread reads lines, and its client has the control pipe open.
Ready == Loc \in {"idle", "hgets"} /\ inst["ctrl"] = "conn" /\ "ctrl" \in srvOpen

\* Either the client or the service has something to say: what is written is
\* answered before more is written.
Silent == s2c["ctrl"] = <<>> /\ NoneFetched
TalkInv ==
    /\ \A i \in DOMAIN toSrv : Is(toSrv[i], "write", "ctrl") =>
          /\ Ready /\ toSrv[i].fnum = srvFnum["ctrl"]
          /\ toSrv[i].items = IF state = "RUNNING" THEN RunCommandOf(account) ELSE GetVersion
    /\ \A i \in DOMAIN toCli : Is(toCli[i], "write", "ctrl") => toCli[i].status = "ok"
    /\ OnceOf(toSrv, "write", "ctrl")
    /\ state \in {"OPENING", "CLOSING_FOR_REINSTALL"} => NoneWritten
    /\ state = "GETTING_VERSION" =>
          /\ Ready /\ c2s["ctrl"] \in {<<>>, GetVersion}
          /\ NoneWritten \/ (c2s["ctrl"] = <<>> /\ Silent)
          /\ c2s["ctrl"] = <<>> \/ Silent
          /\ s2c["ctrl"] = <<>> \/ NoneFetched
    /\ state = "RUNNING" =>
          /\ c2s["ctrl"] \in {<<>>, RunCommandOf(account), Tail(RunCommandOf(account))}
          /\ NoneWritten \/ c2s["ctrl"] = <<>>

\* Requests or replies of the control pipe in an order.
Before(q, op, next) ==
    \A i, j \in DOMAIN q : Is(q[i], op, "ctrl") /\ Is(q[j], next, "ctrl") => i < j

\* An open finds the control pipe, unless there is no service, ...
OpeningInv ==
    /\ state = "OPENING" =>
          /\ c2s["ctrl"] = <<>> /\ s2c["ctrl"] = <<>>
          /\ Ready \/ (pc = "idle" /\ inst["ctrl"] = IF svc = "up" THEN "listen" ELSE "none")
          /\ Before(toSrv, "read", "open") /\ Before(toCli, "read", "open")
    /\ NoneOf(toSrv, "open", "ctrl") \/ inst["ctrl"] # "conn"
    /\ \A i \in DOMAIN toCli : Is(toCli[i], "open", "ctrl") =>
          /\ NoneOf(toSrv, "read", "ctrl")
          /\ IF toCli[i].status = "ok" THEN Ready ELSE toCli[i].status = "notfound" /\ svc = "down"

\* ... while it is open it is read, once at a time and with success; ...
ReadingInv ==
    /\ OneUnderway("read", "ctrl") /\ ("ctrl" \in parked => NoneUnderway("read", "ctrl"))
    /\ OnceOf(pending, "read", "ctrl")
    /\ NoneOf(pending, "read", "ctrl") <=> NoneUnderway("read", "ctrl") /\ "ctrl" \notin parked
    /\ \A k \in DOMAIN pending : Is(pending[k], "read", "ctrl") =>
          /\ \A i \in DOMAIN toSrv : Is(toSrv[i], "read", "ctrl") => toSrv[i].fnum = pending[k].fnum
          /\ \A i \in DOMAIN toCli : Is(toCli[i], "read", "ctrl") => toCli[i].fnum = pending[k].fnum
          /\ "ctrl" \in parked => pending[k].fnum = srvFnum["ctrl"]
          /\ state \in {"GETTING_VERSION", "RUNNING"} => pending[k].fnum = srvFnum["ctrl"]
    /\ state \in {"GETTING_VERSION", "RUNNING"} =>
          /\ "ctrl" \in srvOpen
          /\ \A i \in DOMAIN toCli : Is(toCli[i], "read", "ctrl") => toCli[i].status = "ok"
    /\ \A i \in DOMAIN toCli : Fetched(i) => DOMAIN toCli[i].data = {1}

\* ... under the number of the last file; ...
FileInv ==
    /\ state = "OPENING" \/ mode = "reinstall" => io_write["ctrl"] = 0
    /\ state # "OPENING" => io_read["ctrl"] \in {0, srvFnum["ctrl"]} /\ io_write["ctrl"] \in {0, srvFnum["ctrl"]}

\* ... and the read that fails because it is closed fails after that.
ClosingInv ==
    state = "CLOSING_FOR_REINSTALL" /\ mode = "loop" =>
        /\ NoneOf(toCli, "close", "ctrl") => ~NoneOf(toSrv, "close", "ctrl") /\ NoneOf(toCli, "read", "ctrl")
        /\ Before(toSrv, "close", "read") /\ Before(toCli, "close", "read")
        /\ ~NoneOf(pending, "close", "ctrl")
        /\ \A k \in DOMAIN pending : Is(pending[k], "close", "ctrl") => pending[k].fnum = srvFnum["ctrl"]
        /\ \A i \in DOMAIN toCli : Is(toCli[i], "close", "ctrl") => toCli[i].fnum = srvFnum["ctrl"]

\* The thread ends with the code.
PathInv ==
    /\ state = "RUNNING" /\ Loc \in Released => CodeDue
    /\ Loc \in {"closetmp", "revert"} => token # "none"

\* The standard pipes are there when they are opened and until the thread
\* disconnects them.
HoldsOf(p) == CASE p = "in" -> HoldsIn [] p = "out" -> HoldsOut [] OTHER -> HoldsErr
StdFine(p) ==
    /\ inst[p] # "broken" /\ (inst[p] = "closed" => Loc \in Released)
    /\ Loc \in HoldsOf(p) \ Released => inst[p] \in {"listen", "conn"}
    /\ p \in srvOpen => inst[p] \in {"conn", "closed"}
    /\ fd[p] # 0 => p \in srvOpen \/ inst[p] = "closed"
    /\ \A i \in DOMAIN toSrv : toSrv[i].pipe = p =>
          \/ inst[p] = "closed"
          \/ toSrv[i].op = "open" /\ inst[p] = "listen"
          \/ toSrv[i].op \in {"read", "write"} /\ p \in srvOpen /\ toSrv[i].fnum = srvFnum[p]
    /\ \A i \in DOMAIN toCli : toCli[i].pipe = p =>
          inst[p] = "closed" \/ (toCli[i].status = "ok" /\ p \in srvOpen)
StdFineInv ==
    /\ \A p \in Std : StdFine(p)
    /\ Tells(s2c["ctrl"]) \/ (\E i \in DOMAIN toCli : Teller(i)) => Loc = "connin"

\* All of it, in every state of such a run until the code is known.
SmoothInv ==
    IF codeSeen THEN return_code = pcode
    ELSE /\ FineInv /\ TalkInv /\ OpeningInv /\ ReadingInv /\ FileInv /\ ClosingInv
         /\ PathInv /\ StdFineInv

-----------------------------------------------------------------------------
\* Orders in sequences that change.

\* Without its head a sequence keeps its order, and the later kind comes first only alone.
LEMMA BeforeTail ==
  ASSUME NEW S, NEW q \in Seq(S), q # <<>>, NEW op, NEW next, Before(q, op, next)
  PROVE  /\ Before(Tail(q), op, next)
         /\ Is(Head(q), next, "ctrl") => NoneOf(q, op, "ctrl")
  <1> DEFINE t == Tail(q)
  <1>1. /\ DOMAIN q \subseteq Nat \ {0} /\ Head(q) = q[1] /\ 1 \in DOMAIN q
        /\ \A k \in DOMAIN t : k \in Nat /\ k + 1 \in DOMAIN q /\ t[k] = q[k + 1]
    BY TailElements
  <1> HIDE DEF t
  <1>2. ASSUME NEW i \in DOMAIN t, NEW j \in DOMAIN t, Is(t[i], op, "ctrl"), Is(t[j], next, "ctrl")
        PROVE  i < j
    <2>1. i + 1 < j + 1 /\ i \in Nat /\ j \in Nat
      BY <1>1, <1>2 DEF Before
    <2> QED BY <2>1
  <1>3. ASSUME Is(Head(q), next, "ctrl"), NEW i \in DOMAIN q, Is(q[i], op, "ctrl")
        PROVE  FALSE
    <2>1. i < 1 /\ i \in Nat \ {0}
      BY <1>1, <1>3 DEF Before
    <2> QED BY <2>1
  <1> QED BY <1>2, <1>3 DEF t, Before, NoneOf

\* A sequence that grows keeps its order, unless the earlier kind is added to the later one.
LEMMA BeforeMore ==
  ASSUME NEW S, NEW q \in Seq(S), NEW rs \in Seq(S), NEW op, NEW next,
         Before(q, op, next), Before(rs, op, next), NoneOf(q, next, "ctrl") \/ NoneOf(rs, op, "ctrl")
  PROVE  Before(q \o rs, op, next)
  <1> DEFINE s == q \o rs
  <1>1. /\ Len(q) \in Nat /\ DOMAIN q = 1..Len(q) /\ DOMAIN rs \subseteq Nat
        /\ \A k \in DOMAIN s : \/ k \in DOMAIN q /\ s[k] = q[k]
                               \/ /\ k - Len(q) \in DOMAIN rs /\ k = Len(q) + (k - Len(q)) /\ k > Len(q)
                                  /\ s[k] = rs[k - Len(q)]
    BY ConcatSplit
  <1>2. DOMAIN s \subseteq Nat
    BY DEF s
  <1> HIDE DEF s
  <1> SUFFICES ASSUME NEW i \in DOMAIN s, NEW j \in DOMAIN s, Is(s[i], op, "ctrl"), Is(s[j], next, "ctrl")
               PROVE  i < j
    BY DEF s, Before
  <1>3. CASE i \in DOMAIN q /\ s[i] = q[i] /\ j \in DOMAIN q /\ s[j] = q[j]
    BY <1>3 DEF Before
  <1>4. CASE i \in DOMAIN q /\ s[i] = q[i] /\ j > Len(q)
    BY <1>1, <1>2, <1>4
  <1>5. CASE /\ i - Len(q) \in DOMAIN rs /\ s[i] = rs[i - Len(q)]
             /\ j \in DOMAIN q /\ s[j] = q[j]
    BY <1>5 DEF NoneOf
  <1>6. CASE /\ i - Len(q) \in DOMAIN rs /\ s[i] = rs[i - Len(q)]
             /\ j - Len(q) \in DOMAIN rs /\ s[j] = rs[j - Len(q)]
    <2>1. i - Len(q) < j - Len(q)
      BY <1>6 DEF Before
    <2> QED BY <1>1, <1>2, <2>1
  <1> QED BY <1>1, <1>3, <1>4, <1>5, <1>6

\* No pair, no order.
LEMMA BeforeNone ==
  ASSUME NEW q, NEW op, NEW next, NoneOf(q, op, "ctrl") \/ NoneOf(q, next, "ctrl")
  PROVE  Before(q, op, next)
  BY DEF Before, NoneOf

\* Sequences with the same elements of the control pipe, but for opens and
\* writes that are gone.
Alike(q, t) ==
    \E d \in {0, 1} :
        /\ \A k \in DOMAIN t : k \in Nat /\ (t[k].pipe = "ctrl" => k + d \in DOMAIN q /\ t[k] = q[k + d])
        /\ \A k \in DOMAIN q : q[k].pipe = "ctrl" /\ q[k].op \in {"read", "close"} => \E m \in DOMAIN t : t[m] = q[k]

\* What is said of the control pipe goes over to a sequence like it.
LEMMA AlikeOf ==
  ASSUME NEW q, NEW t, DOMAIN q \subseteq Nat, Alike(q, t)
  PROVE  /\ \A op : NoneOf(q, op, "ctrl") => NoneOf(t, op, "ctrl")
         /\ \A op : OnceOf(q, op, "ctrl") => OnceOf(t, op, "ctrl")
         /\ \A op \in {"read", "close"} : NoneOf(t, op, "ctrl") => NoneOf(q, op, "ctrl")
         /\ \A op, next : Before(q, op, next) => Before(t, op, next)
         /\ \A k \in DOMAIN t : t[k].pipe = "ctrl" => \E m \in DOMAIN q : t[k] = q[m]
         /\ \A k \in DOMAIN q : Is(q[k], "read", "ctrl") => \E m \in DOMAIN t : t[m] = q[k]
  <1>1. PICK d \in {0, 1} :
            /\ \A k \in DOMAIN t : k \in Nat /\ (t[k].pipe = "ctrl" => k + d \in DOMAIN q /\ t[k] = q[k + d])
            /\ \A k \in DOMAIN q : q[k].pipe = "ctrl" /\ q[k].op \in {"read", "close"} =>
                  \E m \in DOMAIN t : t[m] = q[k]
    BY DEF Alike
  <1>2. \A op : \A k \in DOMAIN t : Is(t[k], op, "ctrl") => k + d \in DOMAIN q /\ Is(q[k + d], op, "ctrl")
    BY <1>1 DEF Is
  <1>3. \A i, j \in DOMAIN t : (i + d = j + d => i = j) /\ (i + d < j + d => i < j)
    BY <1>1
  <1>4. \A op : NoneOf(q, op, "ctrl") => NoneOf(t, op, "ctrl")
    BY <1>2 DEF NoneOf
  <1>5. ASSUME NEW op, OnceOf(q, op, "ctrl") PROVE OnceOf(t, op, "ctrl")
    BY <1>2, <1>3, <1>5 DEF OnceOf
  <1>6. ASSUME NEW op \in {"read", "close"}, NoneOf(t, op, "ctrl"), NEW k \in DOMAIN q, Is(q[k], op, "ctrl")
        PROVE  FALSE
    <2>1. PICK m \in DOMAIN t : t[m] = q[k]
      BY <1>1, <1>6 DEF Is
    <2> QED BY <1>6, <2>1 DEF NoneOf
  <1>7. ASSUME NEW op, NEW next, Before(q, op, next) PROVE Before(t, op, next)
    BY <1>2, <1>3, <1>7 DEF Before
  <1>8. \A k \in DOMAIN t : t[k].pipe = "ctrl" => \E m \in DOMAIN q : t[k] = q[m]
    BY <1>1
  <1>9. \A k \in DOMAIN q : Is(q[k], "read", "ctrl") => \E m \in DOMAIN t : t[m] = q[k]
    BY <1>1 DEF Is
  <1>10. \A op \in {"read", "close"} : NoneOf(t, op, "ctrl") => NoneOf(q, op, "ctrl")
    BY <1>6 DEF NoneOf
  <1> QED BY <1>4, <1>5, <1>7, <1>8, <1>9, <1>10

\* The same sequence, one without its head, one that grew.
LEMMA AlikeSame ==
  ASSUME NEW S, NEW q \in Seq(S)
  PROVE  Alike(q, q)
  <1>1. \A k \in DOMAIN q : k \in Nat /\ k + 0 \in DOMAIN q /\ q[k] = q[k + 0]
    OBVIOUS
  <1> QED BY <1>1 DEF Alike

\* A sequence is like itself without a head that is no read and no close of the control pipe.
LEMMA AlikeTail ==
  ASSUME NEW S, NEW q \in Seq(S), q # <<>>, Head(q).pipe # "ctrl" \/ Head(q).op \notin {"read", "close"}
  PROVE  Alike(q, Tail(q))
  <1> DEFINE t == Tail(q)
  <1>1. /\ DOMAIN q = 1..Len(q) /\ DOMAIN t = 1..(Len(q) - 1) /\ Len(q) \in Nat
        /\ Head(q) = q[1] /\ 1 \in DOMAIN q
        /\ \A k \in DOMAIN t : k + 1 \in DOMAIN q /\ t[k] = q[k + 1]
    BY TailElements
  <1>2. \A k \in DOMAIN q : k # 1 => k - 1 \in DOMAIN t /\ t[k - 1] = q[k]
    BY <1>1
  <1>3. \A k \in DOMAIN t : k \in Nat
    BY <1>1
  <1> HIDE DEF t
  <1>4. \A k \in DOMAIN q : q[k].pipe = "ctrl" /\ q[k].op \in {"read", "close"} => \E m \in DOMAIN t : t[m] = q[k]
    BY <1>1, <1>2
  <1>5. Alike(q, t)
    BY <1>1, <1>3, <1>4 DEF Alike
  <1> QED BY <1>5 DEF t

\* ... and like itself with more of other pipes.
LEMMA AlikeMore ==
  ASSUME NEW S, NEW q \in Seq(S), NEW rs \in Seq(S), \A j \in DOMAIN rs : rs[j].pipe # "ctrl"
  PROVE  Alike(q, q \o rs)
  <1> DEFINE t == q \o rs
  <1>1. /\ Len(q) \in Nat /\ Len(rs) \in Nat /\ DOMAIN q = 1..Len(q) /\ DOMAIN rs = 1..Len(rs)
        /\ DOMAIN t = 1..(Len(q) + Len(rs))
        /\ \A i \in 1..(Len(q) + Len(rs)) : t[i] = IF i <= Len(q) THEN q[i] ELSE rs[i - Len(q)]
    BY ConcatElements
  <1> HIDE DEF t
  <1>2. \A k \in DOMAIN q : k \in DOMAIN t /\ t[k] = q[k]
    BY <1>1
  <1>3. \A k \in DOMAIN t : k \in Nat /\ (t[k].pipe = "ctrl" => k + 0 \in DOMAIN q /\ t[k] = q[k + 0])
    <2> SUFFICES ASSUME NEW k \in DOMAIN t, t[k].pipe = "ctrl" PROVE k \in DOMAIN q
      BY <1>1, <1>2
    <2>1. k <= Len(q) \/ (k - Len(q) \in DOMAIN rs /\ t[k] = rs[k - Len(q)])
      BY <1>1
    <2> QED BY <1>1, <2>1
  <1>4. Alike(q, t)
    BY <1>2, <1>3 DEF Alike
  <1> QED BY <1>4 DEF t

-----------------------------------------------------------------------------
\* Steps that leave the control pipe aside.

\* The pipe, what the client knows of it, and where everybody is.
CtrlKept ==
    /\ inst'["ctrl"] = inst["ctrl"] /\ c2s'["ctrl"] = c2s["ctrl"] /\ s2c'["ctrl"] = s2c["ctrl"]
    /\ srvFnum'["ctrl"] = srvFnum["ctrl"]
    /\ ("ctrl" \in srvOpen' <=> "ctrl" \in srvOpen) /\ ("ctrl" \in parked' <=> "ctrl" \in parked)
    /\ io_read'["ctrl"] = io_read["ctrl"] /\ io_write'["ctrl"] = io_write["ctrl"]
    /\ UNCHANGED <<account, state, mode, codeSeen, svc, pc, cont, token>>

\* What is waited for on it, but for opens and writes.
WaitsKept ==
    /\ OnceOf(pending, "read", "ctrl") => OnceOf(pending', "read", "ctrl")
    /\ \A op \in {"read", "close"} : NoneOf(pending', op, "ctrl") <=> NoneOf(pending, op, "ctrl")
    /\ \A k \in DOMAIN pending', op \in {"read", "close"} : Is(pending'[k], op, "ctrl") =>
          \E m \in DOMAIN pending : Is(pending[m], op, "ctrl") /\ pending'[k].fnum = pending[m].fnum

Aside == CtrlKept /\ WaitsKept /\ Alike(toSrv, toSrv') /\ Alike(toCli, toCli')

\* What is said of the control pipe in the requests and replies stays true.
LEMMA AsideOf ==
  ASSUME ClientTypeOK, Alike(toSrv, toSrv'), Alike(toCli, toCli')
  PROVE  /\ \A op : /\ NoneOf(toSrv, op, "ctrl") => NoneOf(toSrv', op, "ctrl")
                    /\ NoneOf(toCli, op, "ctrl") => NoneOf(toCli', op, "ctrl")
                    /\ OnceOf(toSrv, op, "ctrl") => OnceOf(toSrv', op, "ctrl")
                    /\ OnceOf(toCli, op, "ctrl") => OnceOf(toCli', op, "ctrl")
         /\ \A op \in {"read", "close"} : /\ NoneOf(toSrv', op, "ctrl") => NoneOf(toSrv, op, "ctrl")
                                          /\ NoneOf(toCli', op, "ctrl") => NoneOf(toCli, op, "ctrl")
         /\ \A op, next : /\ Before(toSrv, op, next) => Before(toSrv', op, next)
                          /\ Before(toCli, op, next) => Before(toCli', op, next)
         /\ \A k \in DOMAIN toSrv' : toSrv'[k].pipe = "ctrl" => \E m \in DOMAIN toSrv : toSrv'[k] = toSrv[m]
         /\ \A k \in DOMAIN toCli' : toCli'[k].pipe = "ctrl" => \E m \in DOMAIN toCli : toCli'[k] = toCli[m]
         /\ NoneFetched => NoneFetched'
         /\ (\E i \in DOMAIN toCli : Coder(i)) => \E i \in DOMAIN toCli' : Coder(i)'
  <1>1. DOMAIN toSrv \subseteq Nat /\ DOMAIN toCli \subseteq Nat
    BY DEF ClientTypeOK
  <1>2. /\ \A op : NoneOf(toSrv, op, "ctrl") => NoneOf(toSrv', op, "ctrl")
        /\ \A op : OnceOf(toSrv, op, "ctrl") => OnceOf(toSrv', op, "ctrl")
        /\ \A op \in {"read", "close"} : NoneOf(toSrv', op, "ctrl") => NoneOf(toSrv, op, "ctrl")
        /\ \A op, next : Before(toSrv, op, next) => Before(toSrv', op, next)
        /\ \A k \in DOMAIN toSrv' : toSrv'[k].pipe = "ctrl" => \E m \in DOMAIN toSrv : toSrv'[k] = toSrv[m]
    BY <1>1, AlikeOf
  <1>3. /\ \A op : NoneOf(toCli, op, "ctrl") => NoneOf(toCli', op, "ctrl")
        /\ \A op : OnceOf(toCli, op, "ctrl") => OnceOf(toCli', op, "ctrl")
        /\ \A op \in {"read", "close"} : NoneOf(toCli', op, "ctrl") => NoneOf(toCli, op, "ctrl")
        /\ \A op, next : Before(toCli, op, next) => Before(toCli', op, next)
        /\ \A k \in DOMAIN toCli' : toCli'[k].pipe = "ctrl" => \E m \in DOMAIN toCli : toCli'[k] = toCli[m]
        /\ \A k \in DOMAIN toCli : Is(toCli[k], "read", "ctrl") => \E m \in DOMAIN toCli' : toCli'[m] = toCli[k]
    BY <1>1, AlikeOf
  <1>4. NoneFetched => NoneFetched'
    BY <1>3 DEF NoneFetched, Fetched, OnCtrl
  <1>5. (\E i \in DOMAIN toCli : Coder(i)) => \E i \in DOMAIN toCli' : Coder(i)'
    BY <1>3 DEF Coder, Fetched, OnCtrl, Is
  <1> QED BY <1>2, <1>3, <1>4, <1>5

\* Such a step keeps the order of question and answer, ...
LEMMA AsideTalk ==
  ASSUME ClientTypeOK, TalkInv, Aside
  PROVE  TalkInv'
  <1>1. /\ \A op : /\ NoneOf(toSrv, op, "ctrl") => NoneOf(toSrv', op, "ctrl")
                   /\ OnceOf(toSrv, op, "ctrl") => OnceOf(toSrv', op, "ctrl")
        /\ \A k \in DOMAIN toSrv' : toSrv'[k].pipe = "ctrl" => \E m \in DOMAIN toSrv : toSrv'[k] = toSrv[m]
        /\ \A k \in DOMAIN toCli' : toCli'[k].pipe = "ctrl" => \E m \in DOMAIN toCli : toCli'[k] = toCli[m]
        /\ NoneFetched => NoneFetched'
    BY AsideOf DEF Aside
  <1>2. /\ Ready' = Ready /\ state' = state /\ account' = account
        /\ c2s'["ctrl"] = c2s["ctrl"] /\ s2c'["ctrl"] = s2c["ctrl"] /\ srvFnum'["ctrl"] = srvFnum["ctrl"]
    BY DEF Aside, CtrlKept, Ready, Loc
  <1>3. NoneWritten => NoneWritten'
    BY <1>1 DEF NoneWritten
  <1>4. Silent => Silent'
    BY <1>1, <1>2 DEF Silent
  <1>5. \A i \in DOMAIN toSrv' : Is(toSrv'[i], "write", "ctrl") =>
            /\ Ready' /\ toSrv'[i].fnum = srvFnum'["ctrl"]
            /\ toSrv'[i].items = IF state' = "RUNNING" THEN RunCommandOf(account') ELSE GetVersion
    BY <1>1, <1>2 DEF TalkInv, Is
  <1>6. \A i \in DOMAIN toCli' : Is(toCli'[i], "write", "ctrl") => toCli'[i].status = "ok"
    BY <1>1 DEF TalkInv, Is
  <1>7. OnceOf(toSrv', "write", "ctrl")
    BY <1>1 DEF TalkInv
  <1>8. /\ state' \in {"OPENING", "CLOSING_FOR_REINSTALL"} => NoneWritten'
        /\ state' = "GETTING_VERSION" =>
              /\ Ready' /\ c2s'["ctrl"] \in {<<>>, GetVersion}
              /\ NoneWritten' \/ (c2s'["ctrl"] = <<>> /\ Silent')
              /\ c2s'["ctrl"] = <<>> \/ Silent'
              /\ s2c'["ctrl"] = <<>> \/ NoneFetched'
        /\ state' = "RUNNING" =>
              /\ c2s'["ctrl"] \in {<<>>, RunCommandOf(account'), Tail(RunCommandOf(account'))}
              /\ NoneWritten' \/ c2s'["ctrl"] = <<>>
    BY <1>1, <1>2, <1>3, <1>4 DEF TalkInv
  <1> QED BY <1>5, <1>6, <1>7, <1>8 DEF TalkInv

\* ... the open that is under way, ...
LEMMA AsideOpening ==
  ASSUME ClientTypeOK, OpeningInv, Aside
  PROVE  OpeningInv'
  <1>1. /\ \A op : NoneOf(toSrv, op, "ctrl") => NoneOf(toSrv', op, "ctrl")
        /\ \A op, next : /\ Before(toSrv, op, next) => Before(toSrv', op, next)
                         /\ Before(toCli, op, next) => Before(toCli', op, next)
        /\ \A k \in DOMAIN toCli' : toCli'[k].pipe = "ctrl" => \E m \in DOMAIN toCli : toCli'[k] = toCli[m]
    BY AsideOf DEF Aside
  <1>2. /\ Ready' = Ready /\ state' = state /\ svc' = svc /\ pc' = pc /\ inst'["ctrl"] = inst["ctrl"]
        /\ c2s'["ctrl"] = c2s["ctrl"] /\ s2c'["ctrl"] = s2c["ctrl"]
    BY DEF Aside, CtrlKept, Ready, Loc
  <1>3. \A i \in DOMAIN toCli' : Is(toCli'[i], "open", "ctrl") =>
            /\ NoneOf(toSrv', "read", "ctrl")
            /\ IF toCli'[i].status = "ok" THEN Ready' ELSE toCli'[i].status = "notfound" /\ svc' = "down"
    BY <1>1, <1>2 DEF OpeningInv, Is
  <1> QED BY <1>1, <1>2, <1>3 DEF OpeningInv

\* ... the read that is under way, ...
LEMMA AsideReading ==
  ASSUME ClientTypeOK, ReadingInv, Aside
  PROVE  ReadingInv'
  <1>1. /\ \A op : /\ NoneOf(toSrv, op, "ctrl") => NoneOf(toSrv', op, "ctrl")
                   /\ NoneOf(toCli, op, "ctrl") => NoneOf(toCli', op, "ctrl")
                   /\ OnceOf(toSrv, op, "ctrl") => OnceOf(toSrv', op, "ctrl")
                   /\ OnceOf(toCli, op, "ctrl") => OnceOf(toCli', op, "ctrl")
        /\ NoneOf(toSrv', "read", "ctrl") => NoneOf(toSrv, "read", "ctrl")
        /\ NoneOf(toCli', "read", "ctrl") => NoneOf(toCli, "read", "ctrl")
        /\ \A k \in DOMAIN toSrv' : toSrv'[k].pipe = "ctrl" => \E m \in DOMAIN toSrv : toSrv'[k] = toSrv[m]
        /\ \A k \in DOMAIN toCli' : toCli'[k].pipe = "ctrl" => \E m \in DOMAIN toCli : toCli'[k] = toCli[m]
    BY AsideOf DEF Aside
  <1>2. /\ state' = state /\ srvFnum'["ctrl"] = srvFnum["ctrl"]
        /\ ("ctrl" \in srvOpen' <=> "ctrl" \in srvOpen) /\ ("ctrl" \in parked' <=> "ctrl" \in parked)
    BY DEF Aside, CtrlKept
  <1>3. /\ OnceOf(pending, "read", "ctrl") => OnceOf(pending', "read", "ctrl")
        /\ NoneOf(pending', "read", "ctrl") <=> NoneOf(pending, "read", "ctrl")
        /\ \A k \in DOMAIN pending' : Is(pending'[k], "read", "ctrl") =>
              \E m \in DOMAIN pending : Is(pending[m], "read", "ctrl") /\ pending'[k].fnum = pending[m].fnum
    BY DEF Aside, WaitsKept
  <1>4. /\ OneUnderway("read", "ctrl")' /\ ("ctrl" \in parked' => NoneUnderway("read", "ctrl")')
        /\ OnceOf(pending', "read", "ctrl")
        /\ NoneOf(pending', "read", "ctrl") <=> NoneUnderway("read", "ctrl")' /\ "ctrl" \notin parked'
    BY <1>1, <1>2, <1>3 DEF ReadingInv, OneUnderway, NoneUnderway
  <1>5. ASSUME NEW k \in DOMAIN pending', Is(pending'[k], "read", "ctrl")
        PROVE  /\ \A i \in DOMAIN toSrv' : Is(toSrv'[i], "read", "ctrl") => toSrv'[i].fnum = pending'[k].fnum
               /\ \A i \in DOMAIN toCli' : Is(toCli'[i], "read", "ctrl") => toCli'[i].fnum = pending'[k].fnum
               /\ "ctrl" \in parked' => pending'[k].fnum = srvFnum'["ctrl"]
               /\ state' \in {"GETTING_VERSION", "RUNNING"} => pending'[k].fnum = srvFnum'["ctrl"]
    <2>1. PICK m \in DOMAIN pending : Is(pending[m], "read", "ctrl") /\ pending'[k].fnum = pending[m].fnum
      BY <1>3, <1>5
    <2>2. /\ \A i \in DOMAIN toSrv : Is(toSrv[i], "read", "ctrl") => toSrv[i].fnum = pending[m].fnum
          /\ \A i \in DOMAIN toCli : Is(toCli[i], "read", "ctrl") => toCli[i].fnum = pending[m].fnum
          /\ "ctrl" \in parked => pending[m].fnum = srvFnum["ctrl"]
          /\ state \in {"GETTING_VERSION", "RUNNING"} => pending[m].fnum = srvFnum["ctrl"]
      BY <2>1 DEF ReadingInv
    <2> QED BY <1>1, <1>2, <2>1, <2>2 DEF Is
  <1>6. state' \in {"GETTING_VERSION", "RUNNING"} =>
            /\ "ctrl" \in srvOpen'
            /\ \A i \in DOMAIN toCli' : Is(toCli'[i], "read", "ctrl") => toCli'[i].status = "ok"
    BY <1>1, <1>2 DEF ReadingInv, Is
  <1>7. \A i \in DOMAIN toCli' : Fetched(i)' => DOMAIN (toCli'[i].data) = {1}
    BY <1>1 DEF ReadingInv, Fetched, OnCtrl
  <1> QED BY <1>4, <1>5, <1>6, <1>7 DEF ReadingInv

\* ... and the close that is under way.
LEMMA AsideClosing ==
  ASSUME ClientTypeOK, ClosingInv, Aside
  PROVE  ClosingInv'
  <1>1. /\ \A op : /\ NoneOf(toSrv, op, "ctrl") => NoneOf(toSrv', op, "ctrl")
                   /\ NoneOf(toCli, op, "ctrl") => NoneOf(toCli', op, "ctrl")
        /\ NoneOf(toSrv', "close", "ctrl") => NoneOf(toSrv, "close", "ctrl")
        /\ NoneOf(toCli', "close", "ctrl") => NoneOf(toCli, "close", "ctrl")
        /\ \A op, next : /\ Before(toSrv, op, next) => Before(toSrv', op, next)
                         /\ Before(toCli, op, next) => Before(toCli', op, next)
        /\ \A k \in DOMAIN toCli' : toCli'[k].pipe = "ctrl" => \E m \in DOMAIN toCli : toCli'[k] = toCli[m]
    BY AsideOf DEF Aside
  <1>2. state' = state /\ mode' = mode /\ srvFnum'["ctrl"] = srvFnum["ctrl"]
    BY DEF Aside, CtrlKept
  <1>3. /\ NoneOf(pending', "close", "ctrl") <=> NoneOf(pending, "close", "ctrl")
        /\ \A k \in DOMAIN pending' : Is(pending'[k], "close", "ctrl") =>
              \E m \in DOMAIN pending : Is(pending[m], "close", "ctrl") /\ pending'[k].fnum = pending[m].fnum
    BY DEF Aside, WaitsKept
  <1> SUFFICES ASSUME state = "CLOSING_FOR_REINSTALL" /\ mode = "loop"
               PROVE  /\ NoneOf(toCli', "close", "ctrl") =>
                            ~NoneOf(toSrv', "close", "ctrl") /\ NoneOf(toCli', "read", "ctrl")
                      /\ Before(toSrv', "close", "read") /\ Before(toCli', "close", "read")
                      /\ ~NoneOf(pending', "close", "ctrl")
                      /\ \A k \in DOMAIN pending' : Is(pending'[k], "close", "ctrl") => pending'[k].fnum = srvFnum'["ctrl"]
                      /\ \A i \in DOMAIN toCli' : Is(toCli'[i], "close", "ctrl") => toCli'[i].fnum = srvFnum'["ctrl"]
    BY <1>2 DEF ClosingInv
  <1>4. \A k \in DOMAIN pending' : Is(pending'[k], "close", "ctrl") => pending'[k].fnum = srvFnum'["ctrl"]
    BY <1>2, <1>3 DEF ClosingInv
  <1>5. \A i \in DOMAIN toCli' : Is(toCli'[i], "close", "ctrl") => toCli'[i].fnum = srvFnum'["ctrl"]
    BY <1>1, <1>2 DEF ClosingInv, Is
  <1> QED BY <1>1, <1>2, <1>3, <1>4, <1>5 DEF ClosingInv

\* Such a step keeps all that is said of the control pipe.
CtrlFine == TalkInv /\ OpeningInv /\ ReadingInv /\ FileInv /\ ClosingInv /\ PathInv

\* ... all of it.
LEMMA AsideFine ==
  ASSUME ClientTypeOK, CtrlFine, Aside
  PROVE  CtrlFine'
  <1>1. FileInv'
    BY DEF CtrlFine, FileInv, Aside, CtrlKept
  <1>2. (\E i \in DOMAIN toCli : Coder(i)) => \E i \in DOMAIN toCli' : Coder(i)'
    BY AsideOf DEF Aside
  <1>3. CodeDue => CodeDue'
    BY <1>2 DEF CodeDue, Aside, CtrlKept
  <1>4. PathInv'
    BY <1>3 DEF CtrlFine, PathInv, Aside, CtrlKept, Loc
  <1> QED BY <1>1, <1>4, AsideTalk, AsideOpening, AsideReading, AsideClosing DEF CtrlFine

-----------------------------------------------------------------------------
\* Requests of the control pipe that are carried out.

\* The oldest request is taken; a reply is sent.
LEMMA QueryTaken ==
  ASSUME ClientTypeOK, toSrv # <<>>, toSrv' = Tail(toSrv), NEW op, Is(Query, op, "ctrl")
  PROVE  /\ \A o : /\ NoneOf(toSrv, o, "ctrl") => NoneOf(toSrv', o, "ctrl")
                   /\ OnceOf(toSrv, o, "ctrl") => OnceOf(toSrv', o, "ctrl")
                   /\ o # op => (NoneOf(toSrv', o, "ctrl") => NoneOf(toSrv, o, "ctrl"))
                   /\ Before(toSrv, o, op) => NoneOf(toSrv, o, "ctrl")
         /\ OnceOf(toSrv, op, "ctrl") => NoneOf(toSrv', op, "ctrl")
         /\ ~NoneOf(toSrv, op, "ctrl")
         /\ \A o, next : Before(toSrv, o, next) => Before(toSrv', o, next)
         /\ \A k \in DOMAIN toSrv' : \E m \in DOMAIN toSrv : toSrv'[k] = toSrv[m]
         /\ 1 \in DOMAIN toSrv /\ Query = toSrv[1] /\ Query \in Wired(account) /\ Query.fnum \in Nat
  <1>1. toSrv \in Seq(Wired(account)) /\ Query \in Wired(account) /\ Query.fnum \in Nat
    BY QueryType DEF ClientTypeOK
  <1>2. /\ 1 \in DOMAIN toSrv /\ Query = toSrv[1]
        /\ \A k \in DOMAIN toSrv' : k + 1 \in DOMAIN toSrv /\ toSrv'[k] = toSrv[k + 1]
    BY <1>1, TailElements DEF Query
  <1>3. \A o : /\ NoneOf(toSrv, o, "ctrl") => NoneOf(toSrv', o, "ctrl")
               /\ OnceOf(toSrv, o, "ctrl") => OnceOf(toSrv', o, "ctrl")
               /\ OnceOf(toSrv, o, "ctrl") /\ Is(Query, o, "ctrl") => NoneOf(toSrv', o, "ctrl")
               /\ NoneOf(toSrv', o, "ctrl") => NoneOf(toSrv, o, "ctrl") \/ Is(Query, o, "ctrl")
    BY <1>1, TailOf DEF Query
  <1>4. \A o : Is(Query, o, "ctrl") => o = op
    BY DEF Is
  <1>5. \A o, next : Before(toSrv, o, next) =>
            Before(toSrv', o, next) /\ (Is(Query, next, "ctrl") => NoneOf(toSrv, o, "ctrl"))
    BY <1>1, BeforeTail DEF Query
  <1>6. ~NoneOf(toSrv, op, "ctrl")
    BY <1>2 DEF NoneOf
  <1> QED BY <1>1, <1>2, <1>3, <1>4, <1>5, <1>6

\* The server replies about the control pipe: what that is to the replies there are.
LEMMA ReplyAdded ==
  ASSUME ClientTypeOK, NEW r \in Replied, toCli' = toCli \o <<r>>, NEW op, Is(r, op, "ctrl")
  PROVE  /\ \A o : /\ OnceOf(toCli, o, "ctrl") /\ o # op => OnceOf(toCli', o, "ctrl")
                   /\ o # op => (NoneOf(toCli', o, "ctrl") <=> NoneOf(toCli, o, "ctrl"))
         /\ NoneOf(toCli, op, "ctrl") => OnceOf(toCli', op, "ctrl")
         /\ ~NoneOf(toCli', op, "ctrl")
         /\ \A o, next : /\ Before(toCli, o, next) /\ o # next
                         /\ o # op \/ NoneOf(toCli, next, "ctrl")
                         => Before(toCli', o, next)
         /\ \A k \in DOMAIN toCli' : toCli'[k] = r \/ \E m \in DOMAIN toCli : toCli'[k] = toCli[m]
         /\ \A k \in DOMAIN toCli : \E m \in DOMAIN toCli' : toCli'[m] = toCli[k]
  <1> DEFINE rs == <<r>>
  <1>1. toCli \in Seq(Replied) /\ rs \in Seq(Replied) /\ DOMAIN rs = {1} /\ rs[1] = r
    BY DEF ClientTypeOK
  <1>2. /\ Len(toCli) \in Nat /\ DOMAIN toCli' = 1..(Len(toCli) + 1) /\ DOMAIN toCli = 1..Len(toCli)
        /\ \A k \in DOMAIN toCli : toCli'[k] = toCli[k]
        /\ toCli'[Len(toCli) + 1] = r
    <2>1. Len(rs) = 1
      OBVIOUS
    <2> QED BY <1>1, <2>1, ConcatElements
  <1>3. \A o : Is(r, o, "ctrl") <=> o = op
    BY DEF Is
  <1>4. \A o : /\ NoneOf(rs, o, "ctrl") <=> o # op
               /\ OnceOf(rs, o, "ctrl")
    BY <1>1, <1>3 DEF NoneOf, OnceOf
  <1>5. toCli' = toCli \o rs
    OBVIOUS
  <1> HIDE DEF rs
  <1>6. \A o : /\ NoneOf(toCli, o, "ctrl") /\ NoneOf(rs, o, "ctrl") => NoneOf(toCli', o, "ctrl")
               /\ OnceOf(toCli, o, "ctrl") /\ NoneOf(rs, o, "ctrl") => OnceOf(toCli', o, "ctrl")
               /\ NoneOf(toCli, o, "ctrl") /\ OnceOf(rs, o, "ctrl") => OnceOf(toCli', o, "ctrl")
               /\ NoneOf(toCli', o, "ctrl") => NoneOf(toCli, o, "ctrl") /\ NoneOf(rs, o, "ctrl")
    BY <1>1, <1>5, ConcatOf
  <1>7. \A o, next : o # next => Before(rs, o, next)
    BY <1>1, <1>3 DEF Before, Is
  <1>8. ASSUME NEW o, NEW next, Before(toCli, o, next), o # next, o # op \/ NoneOf(toCli, next, "ctrl")
        PROVE  Before(toCli', o, next)
    BY <1>1, <1>4, <1>5, <1>7, <1>8, BeforeMore
  <1>9. \A k \in DOMAIN toCli' : toCli'[k] = r \/ \E m \in DOMAIN toCli : toCli'[k] = toCli[m]
    BY <1>2
  <1>10. \A k \in DOMAIN toCli : \E m \in DOMAIN toCli' : toCli'[m] = toCli[k]
    BY <1>2
  <1> QED BY <1>4, <1>6, <1>8, <1>9, <1>10

\* Nothing of this is said in another state, or when no open is under way.
LEMMA NotOpening ==
  ASSUME state' # "OPENING", NoneUnderway("open", "ctrl")'
  PROVE  OpeningInv'
  <1>1. NoneOf(toSrv', "open", "ctrl") /\ NoneOf(toCli', "open", "ctrl")
    BY DEF NoneUnderway
  <1> QED BY <1>1 DEF OpeningInv, NoneOf

\* Nothing is said of a close but while the client closes for another service.
LEMMA NotClosing ==
  ASSUME state' # "CLOSING_FOR_REINSTALL" \/ mode' # "loop"
  PROVE  ClosingInv'
  BY DEF ClosingInv

\* The state of such a run.
FineState == /\ SessTypeOK /\ ServiceInv /\ OnceInv /\ TimedInv /\ Stored /\ RunInv
             /\ Smooth /\ ~codeSeen /\ FineInv /\ CtrlFine /\ StdFineInv

\* What the server leaves alone.
LEMMA ServerSame ==
  ASSUME FineState, ServerNext
  PROVE  /\ UNCHANGED <<account, state, mode, codeSeen, svc, pc, cont, token, pending, io_read, io_write, Loc>>
         /\ \A rs : Answers(rs) => toCli' = toCli \o rs
  <1>1. UNCHANGED <<account, state, mode, codeSeen, svc, pc, cont, token, pending, io_read, io_write>>
    BY DEF ServerNext, threadVars, stateVars, ioVars, userVars
  <1>2. net = "up" /\ mode \notin Gone
    BY DEF FineState, FineInv, Staying, Gone
  <1> QED BY <1>1, <1>2 DEF Loc, Answers

\* The control pipe is opened (or is not there).
LEMMA OpenFine ==
  ASSUME FineState, ServerNext, ServeOpen, Query.pipe = "ctrl"
  PROVE  CtrlFine'
  <1>1. /\ toSrv # <<>> /\ toSrv' = Tail(toSrv) /\ Is(Query, "open", "ctrl") /\ ClientTypeOK
        /\ toSrv \in Seq(Wired(account))
    BY DEF ServeOpen, Serve, Is, FineState, SessTypeOK, ClientTypeOK
  <1>2. /\ UNCHANGED <<account, state, mode, codeSeen, svc, pc, cont, token, pending, io_read, io_write, Loc>>
        /\ \A rs : Answers(rs) => toCli' = toCli \o rs
    BY ServerSame
  <1>3. /\ \A o : NoneOf(toSrv, o, "ctrl") => NoneOf(toSrv', o, "ctrl")
        /\ \A o : OnceOf(toSrv, o, "ctrl") => OnceOf(toSrv', o, "ctrl")
        /\ \A o : o # "open" => (NoneOf(toSrv', o, "ctrl") => NoneOf(toSrv, o, "ctrl"))
        /\ \A o : Before(toSrv, o, "open") => NoneOf(toSrv, o, "ctrl")
        /\ OnceOf(toSrv, "open", "ctrl") => NoneOf(toSrv', "open", "ctrl")
        /\ ~NoneOf(toSrv, "open", "ctrl")
        /\ \A o, next : Before(toSrv, o, next) => Before(toSrv', o, next)
        /\ \A k \in DOMAIN toSrv' : \E m \in DOMAIN toSrv : toSrv'[k] = toSrv[m]
    BY <1>1, QueryTaken
  <1>4. /\ state = "OPENING" /\ mode = "loop" /\ OneUnderway("open", "ctrl")
    <2>1. "ctrl" \in Pipe
      BY DEF Pipe
    <2> QED BY <1>3, <2>1 DEF FineState, Stored, RoundInv, NoneUnderway
  <1>5. /\ NoneOf(toSrv', "open", "ctrl") /\ NoneOf(toCli, "open", "ctrl")
        /\ NoneOf(toSrv, "read", "ctrl") /\ NoneOf(toSrv', "read", "ctrl")
        /\ NoneWritten /\ NoneWritten'
    BY <1>3, <1>4 DEF OneUnderway, FineState, CtrlFine, OpeningInv, TalkInv, NoneWritten
  <1>6. pc = "idle" /\ inst["ctrl"] = IF svc = "up" THEN "listen" ELSE "none"
    BY <1>3, <1>4 DEF FineState, CtrlFine, OpeningInv, Ready
  <1>7. "ctrl" \notin parked /\ NoneFetched
    BY <1>4 DEF FineState, OnceInv, ReadInv, QuietCtrl
  <1>8. PICK r \in Replied :
            /\ toCli' = toCli \o <<r>> /\ Is(r, "open", "ctrl")
            /\ UNCHANGED <<parked, c2s, s2c>>
            /\ \/ r.status = "ok" /\ inst'["ctrl"] = "conn" /\ "ctrl" \in srvOpen'
               \/ r.status = "notfound" /\ inst["ctrl"] # "listen" /\ UNCHANGED <<inst, srvOpen, srvFnum>>
    <2>1. Query.fnum \in Nat /\ srvFnum["ctrl"] \in Nat /\ "ctrl" \in Pipe /\ "ctrl" \in DOMAIN inst
      BY <1>1, QueryType DEF FineState, SessTypeOK, ServerTypeOK, ConnTypeOK, PipeTypeOK, Pipe
    <2>2. CASE /\ ClientOpen("ctrl") /\ srvOpen' = srvOpen \union {"ctrl"}
               /\ Answers(<<Answer("open", "ctrl", srvFnum["ctrl"] + 1, "ok", <<>>)>>)
               /\ UNCHANGED parked
      <3> DEFINE r == Answer("open", "ctrl", srvFnum["ctrl"] + 1, "ok", <<>>)
      <3>1. r \in Replied
        <4>1. srvFnum["ctrl"] + 1 \in Nat
          BY <2>1
        <4> QED BY <2>1, <4>1, AnswerType DEF ReqOp
      <3>2. Is(r, "open", "ctrl") /\ r.status = "ok"
        BY DEF Answer, Is
      <3>3. toCli' = toCli \o <<r>>
        BY <1>2, <2>2
      <3>4. inst'["ctrl"] = "conn" /\ UNCHANGED <<c2s, s2c>>
        BY <2>1, <2>2 DEF ClientOpen
      <3> QED BY <2>2, <3>1, <3>2, <3>3, <3>4
    <2>3. CASE inst["ctrl"] # "listen" /\ Refuse("notfound")
      <3> DEFINE r == Answer("open", "ctrl", Query.fnum, "notfound", <<>>)
      <3>1. r \in Replied
        BY <2>1, AnswerType DEF ReqOp
      <3>2. Is(r, "open", "ctrl") /\ r.status = "notfound"
        BY DEF Answer, Is
      <3>3. toCli' = toCli \o <<r>>
        BY <1>1, <1>2, <2>3 DEF Refuse, Result, Is
      <3> QED BY <2>3, <3>1, <3>2, <3>3 DEF Refuse, pipeVars, srvVars
    <2> QED BY <1>1, <2>2, <2>3 DEF ServeOpen, Is
  <1>9. /\ \A o : o # "open" => (NoneOf(toCli', o, "ctrl") <=> NoneOf(toCli, o, "ctrl"))
        /\ \A o : OnceOf(toCli, o, "ctrl") /\ o # "open" => OnceOf(toCli', o, "ctrl")
        /\ Before(toCli, "read", "open") => Before(toCli', "read", "open")
        /\ \A k \in DOMAIN toCli' : toCli'[k] = r \/ \E m \in DOMAIN toCli : toCli'[k] = toCli[m]
        /\ \A k \in DOMAIN toCli : \E m \in DOMAIN toCli' : toCli'[m] = toCli[k]
    <2>1. \A o, next : /\ Before(toCli, o, next) /\ o # next
                       /\ o # "open" \/ NoneOf(toCli, next, "ctrl")
                       => Before(toCli', o, next)
      BY <1>1, <1>8, ReplyAdded
    <2>2. Before(toCli, "read", "open") => Before(toCli', "read", "open")
      BY <2>1
    <2> QED BY <1>1, <1>8, <2>2, ReplyAdded
  <1>10. TalkInv'
    <2>1. \A i \in DOMAIN toCli' : Is(toCli'[i], "write", "ctrl") => toCli'[i].status = "ok"
      BY <1>8, <1>9 DEF Is, FineState, CtrlFine, TalkInv
    <2>2. OnceOf(toSrv', "write", "ctrl") /\ \A i \in DOMAIN toSrv' : ~Is(toSrv'[i], "write", "ctrl")
      BY <1>5 DEF NoneWritten, OnceOf, NoneOf
    <2> QED BY <1>2, <1>4, <1>5, <2>1, <2>2 DEF TalkInv
  <1>11. OpeningInv'
    <2>1. c2s'["ctrl"] = <<>> /\ s2c'["ctrl"] = <<>>
      BY <1>4, <1>8 DEF FineState, CtrlFine, OpeningInv
    <2>2. Before(toSrv', "read", "open") /\ Before(toCli', "read", "open")
      BY <1>3, <1>4, <1>9 DEF FineState, CtrlFine, OpeningInv
    <2>3. r.status = "ok" => Ready'
      BY <1>2, <1>6, <1>8 DEF Ready, Loc
    <2>4. r.status # "ok" => r.status = "notfound" /\ svc' = "down" /\ pc' = "idle"
                             /\ inst'["ctrl"] = IF svc' = "up" THEN "listen" ELSE "none"
      BY <1>2, <1>6, <1>8 DEF FineState, FineInv, SessTypeOK, ServerTypeOK
    <2>5. \A i \in DOMAIN toCli' : Is(toCli'[i], "open", "ctrl") => toCli'[i] = r
      BY <1>5, <1>9 DEF NoneOf
    <2> QED BY <1>5, <2>1, <2>2, <2>3, <2>4, <2>5 DEF OpeningInv
  <1>12. ReadingInv'
    <2>1. /\ OneUnderway("read", "ctrl")' /\ "ctrl" \notin parked'
          /\ NoneUnderway("read", "ctrl")' <=> NoneUnderway("read", "ctrl")
      BY <1>5, <1>7, <1>8, <1>9 DEF FineState, CtrlFine, ReadingInv, OneUnderway, NoneUnderway, NoneOf, OnceOf
    <2>2. \A i \in DOMAIN toSrv' : ~Is(toSrv'[i], "read", "ctrl")
      BY <1>5 DEF NoneOf
    <2>3. \A i \in DOMAIN toCli' : Is(toCli'[i], "read", "ctrl") => \E m \in DOMAIN toCli : toCli'[i] = toCli[m]
      BY <1>8, <1>9 DEF Is
    <2>4. \A i \in DOMAIN toCli' : ~Fetched(i)'
      BY <1>7, <2>3 DEF NoneFetched, Fetched, OnCtrl, Is
    <2> QED BY <1>2, <1>4, <1>7, <1>8, <2>1, <2>2, <2>3, <2>4 DEF FineState, CtrlFine, ReadingInv
  <1>13. FileInv' /\ ClosingInv' /\ PathInv'
    BY <1>2, <1>4, NotClosing DEF FineState, CtrlFine, FileInv, PathInv
  <1> QED BY <1>10, <1>11, <1>12, <1>13 DEF CtrlFine

\* What is the same in all of them: the oldest request is of this kind.
LEMMA CtrlServed ==
  ASSUME FineState, ServerNext, NEW op, Serve(op), Query.pipe = "ctrl"
  PROVE  /\ ClientTypeOK /\ Is(Query, op, "ctrl") /\ Query = toSrv[1] /\ 1 \in DOMAIN toSrv
         /\ Query \in Wired(account) /\ Query.fnum \in Nat /\ toSrv' = Tail(toSrv)
         /\ UNCHANGED <<account, state, mode, codeSeen, svc, pc, cont, token, pending, io_read, io_write, Loc>>
         /\ \A rs : Answers(rs) => toCli' = toCli \o rs
         /\ \A o : NoneOf(toSrv, o, "ctrl") => NoneOf(toSrv', o, "ctrl")
         /\ \A o : OnceOf(toSrv, o, "ctrl") => OnceOf(toSrv', o, "ctrl")
         /\ \A o : o # op => (NoneOf(toSrv', o, "ctrl") => NoneOf(toSrv, o, "ctrl"))
         /\ \A o : Before(toSrv, o, op) => NoneOf(toSrv, o, "ctrl")
         /\ OnceOf(toSrv, op, "ctrl") => NoneOf(toSrv', op, "ctrl")
         /\ ~NoneOf(toSrv, op, "ctrl")
         /\ \A o, next : Before(toSrv, o, next) => Before(toSrv', o, next)
         /\ \A k \in DOMAIN toSrv' : \E m \in DOMAIN toSrv : toSrv'[k] = toSrv[m]
  <1>1. /\ toSrv # <<>> /\ toSrv' = Tail(toSrv) /\ Is(Query, op, "ctrl") /\ ClientTypeOK
    BY DEF Serve, Is, FineState, SessTypeOK
  <1>2. /\ UNCHANGED <<account, state, mode, codeSeen, svc, pc, cont, token, pending, io_read, io_write, Loc>>
        /\ \A rs : Answers(rs) => toCli' = toCli \o rs
    BY ServerSame
  <1> QED BY <1>1, <1>2, QueryTaken

\* A reply of the control pipe is added: which kinds of reply there are then, in which order.
LEMMA CtrlReplied ==
  ASSUME FineState, NEW r \in Replied, toCli' = toCli \o <<r>>, NEW op, Is(r, op, "ctrl"),
         UNCHANGED codeSeen
  PROVE  /\ \A o : OnceOf(toCli, o, "ctrl") /\ o # op => OnceOf(toCli', o, "ctrl")
         /\ \A o : o # op => (NoneOf(toCli', o, "ctrl") <=> NoneOf(toCli, o, "ctrl"))
         /\ NoneOf(toCli, op, "ctrl") => OnceOf(toCli', op, "ctrl")
         /\ ~NoneOf(toCli', op, "ctrl")
         /\ \A o, next : /\ Before(toCli, o, next) /\ o # next
                         /\ o # op \/ NoneOf(toCli, next, "ctrl")
                         => Before(toCli', o, next)
         /\ \A k \in DOMAIN toCli' : toCli'[k] = r \/ \E m \in DOMAIN toCli : toCli'[k] = toCli[m]
         /\ op # "read" \/ r.status # "ok" => (NoneFetched => NoneFetched')
         /\ s2c'["ctrl"] = s2c["ctrl"] => (CodeDue => CodeDue')
  <1>1. ClientTypeOK
    BY DEF FineState, SessTypeOK
  <1>2. /\ \A k \in DOMAIN toCli' : toCli'[k] = r \/ \E m \in DOMAIN toCli : toCli'[k] = toCli[m]
        /\ \A k \in DOMAIN toCli : \E m \in DOMAIN toCli' : toCli'[m] = toCli[k]
    BY <1>1, ReplyAdded
  <1>3. op # "read" \/ r.status # "ok" => (NoneFetched => NoneFetched')
    BY <1>2 DEF NoneFetched, Fetched, OnCtrl, Is
  <1>4. (\E i \in DOMAIN toCli : Coder(i)) => \E i \in DOMAIN toCli' : Coder(i)'
    BY <1>2 DEF Coder, Fetched, OnCtrl
  <1>5. s2c'["ctrl"] = s2c["ctrl"] => (CodeDue => CodeDue')
    BY <1>4 DEF CodeDue
  <1> QED BY <1>1, <1>2, <1>3, <1>5, ReplyAdded

\* What the client wrote is in the pipe.
LEMMA WriteFine ==
  ASSUME FineState, ServerNext, ServeWrite, Query.pipe = "ctrl"
  PROVE  CtrlFine'
  <1>1. Serve("write")
    BY DEF ServeWrite
  <1>2. /\ ClientTypeOK /\ Is(Query, "write", "ctrl") /\ Query = toSrv[1] /\ 1 \in DOMAIN toSrv
        /\ Query.fnum \in Nat /\ toSrv' = Tail(toSrv)
        /\ UNCHANGED <<account, state, mode, codeSeen, svc, pc, cont, token, pending, io_read, io_write, Loc>>
        /\ \A rs : Answers(rs) => toCli' = toCli \o rs
        /\ \A o : NoneOf(toSrv, o, "ctrl") => NoneOf(toSrv', o, "ctrl")
        /\ \A o : OnceOf(toSrv, o, "ctrl") => OnceOf(toSrv', o, "ctrl")
        /\ \A o : o # "write" => (NoneOf(toSrv', o, "ctrl") => NoneOf(toSrv, o, "ctrl"))
        /\ OnceOf(toSrv, "write", "ctrl") => NoneOf(toSrv', "write", "ctrl")
        /\ ~NoneOf(toSrv, "write", "ctrl")
        /\ \A k \in DOMAIN toSrv' : \E m \in DOMAIN toSrv : toSrv'[k] = toSrv[m]
    BY <1>1, CtrlServed
  <1>3. /\ Ready /\ Query.fnum = srvFnum["ctrl"] /\ NoneWritten'
        /\ Query.items = IF state = "RUNNING" THEN RunCommandOf(account) ELSE GetVersion
        /\ state \in {"GETTING_VERSION", "RUNNING"}
    <2>1. ~NoneWritten /\ NoneWritten'
      BY <1>2 DEF FineState, CtrlFine, TalkInv, NoneWritten
    <2>2. state \in {"GETTING_VERSION", "RUNNING"}
      BY <2>1 DEF FineState, CtrlFine, TalkInv, SessTypeOK, ClientTypeOK
    <2> QED BY <1>2, <2>1, <2>2 DEF FineState, CtrlFine, TalkInv
  <1>4. c2s["ctrl"] = <<>> /\ (state = "GETTING_VERSION" => Silent)
    BY <1>2, <1>3 DEF FineState, CtrlFine, TalkInv, NoneWritten
  <1>5. PICK r \in Replied :
            /\ toCli' = toCli \o <<r>> /\ Is(r, "write", "ctrl") /\ r.status = "ok"
            /\ UNCHANGED <<inst, srvOpen, srvFnum, parked, s2c>>
            /\ c2s'["ctrl"] = Query.items
    <2>1. Valid /\ inst["ctrl"] = "conn"
      BY <1>2, <1>3 DEF Valid, Ready, Is
    <2>2. ClientWrite("ctrl", Query.items) /\ Result("ok", <<>>) /\ UNCHANGED srvVars
      BY <1>2, <2>1 DEF ServeWrite, Is
    <2> DEFINE r == Answer("write", "ctrl", Query.fnum, "ok", <<>>)
    <2>3. r \in Replied
      BY <1>2, AnswerType DEF ReqOp, Pipe
    <2>4. toCli' = toCli \o <<r>>
      BY <1>2, <2>2 DEF Result, Is
    <2>5. Is(r, "write", "ctrl") /\ r.status = "ok"
      BY DEF Answer, Is
    <2>6. c2s'["ctrl"] = <<>> \o Query.items
      BY <1>4, <2>2 DEF ClientWrite, FineState, SessTypeOK, ConnTypeOK, PipeTypeOK, Pipe
    <2>7. Query.items \in Seq(Line)
      BY <1>3, SessionAssumption, ConnectionAssumption DEF FineState, SessTypeOK, ClientTypeOK
    <2>8. c2s'["ctrl"] = Query.items
      BY <2>6, <2>7
    <2> QED BY <2>2, <2>3, <2>4, <2>5, <2>8 DEF ClientWrite, srvVars
  <1>6. /\ \A o : OnceOf(toCli, o, "ctrl") /\ o # "write" => OnceOf(toCli', o, "ctrl")
        /\ \A o : o # "write" => (NoneOf(toCli', o, "ctrl") <=> NoneOf(toCli, o, "ctrl"))
        /\ \A k \in DOMAIN toCli' : toCli'[k] = r \/ \E m \in DOMAIN toCli : toCli'[k] = toCli[m]
        /\ NoneFetched => NoneFetched'
        /\ CodeDue => CodeDue'
    <2>1. s2c'["ctrl"] = s2c["ctrl"] /\ codeSeen' = codeSeen
      BY <1>2, <1>5
    <2> QED BY <1>5, <2>1, CtrlReplied
  <1>7. Ready' = Ready
    BY <1>2, <1>5 DEF Ready
  <1>8. TalkInv'
    <2>1. \A i \in DOMAIN toCli' : Is(toCli'[i], "write", "ctrl") => toCli'[i].status = "ok"
      BY <1>5, <1>6 DEF Is, FineState, CtrlFine, TalkInv
    <2>2. OnceOf(toSrv', "write", "ctrl") /\ \A i \in DOMAIN toSrv' : ~Is(toSrv'[i], "write", "ctrl")
      BY <1>3 DEF NoneWritten, OnceOf, NoneOf
    <2>3. Silent => Silent'
      BY <1>5, <1>6 DEF Silent
    <2>4. c2s'["ctrl"] = IF state' = "RUNNING" THEN RunCommandOf(account') ELSE GetVersion
      BY <1>2, <1>3, <1>5
    <2>5. state' = "GETTING_VERSION" => Silent'
      BY <1>2, <1>4, <2>3
    <2> QED BY <1>2, <1>3, <1>7, <2>1, <2>2, <2>4, <2>5 DEF TalkInv, Silent
  <1>9. OpeningInv'
    <2>1. NoneUnderway("open", "ctrl")'
      BY <1>2, <1>3, <1>6 DEF FineState, Stored, RoundInv, NoneUnderway
    <2> QED BY <1>2, <1>3, <2>1, NotOpening
  <1>10. ReadingInv'
    <2>1. /\ OneUnderway("read", "ctrl")' <=> OneUnderway("read", "ctrl")
          /\ NoneUnderway("read", "ctrl")' <=> NoneUnderway("read", "ctrl")
      <3>1. /\ NoneOf(toSrv', "read", "ctrl") <=> NoneOf(toSrv, "read", "ctrl")
            /\ NoneOf(toCli', "read", "ctrl") <=> NoneOf(toCli, "read", "ctrl")
            /\ OnceOf(toSrv, "read", "ctrl") => OnceOf(toSrv', "read", "ctrl")
            /\ OnceOf(toCli, "read", "ctrl") => OnceOf(toCli', "read", "ctrl")
        BY <1>2, <1>6
      <3>2. OneUnderway("read", "ctrl")
        BY DEF FineState, CtrlFine, ReadingInv
      <3> QED BY <3>1, <3>2 DEF OneUnderway, NoneUnderway
    <2>2. \A i \in DOMAIN toCli' : Is(toCli'[i], "read", "ctrl") => \E m \in DOMAIN toCli : toCli'[i] = toCli[m]
      BY <1>5, <1>6 DEF Is
    <2>3. \A i \in DOMAIN toCli' : Fetched(i)' => DOMAIN (toCli'[i].data) = {1}
      BY <2>2 DEF Fetched, OnCtrl, Is, FineState, CtrlFine, ReadingInv
    <2> QED BY <1>2, <1>5, <2>1, <2>2, <2>3 DEF FineState, CtrlFine, ReadingInv
  <1>11. FileInv' /\ ClosingInv' /\ PathInv'
    BY <1>2, <1>3, <1>5, <1>6, NotClosing DEF FineState, CtrlFine, FileInv, PathInv
  <1> QED BY <1>8, <1>9, <1>10, <1>11 DEF CtrlFine

\* A read of the open pipe waits for a message; that of a pipe that was
\* closed fails.
LEMMA ReadFine ==
  ASSUME FineState, ServerNext, ServeRead, Query.pipe = "ctrl"
  PROVE  CtrlFine'
  <1>1. Serve("read")
    BY DEF ServeRead
  <1>2. /\ ClientTypeOK /\ Is(Query, "read", "ctrl") /\ Query = toSrv[1] /\ 1 \in DOMAIN toSrv
        /\ Query.fnum \in Nat /\ toSrv' = Tail(toSrv)
        /\ UNCHANGED <<account, state, mode, codeSeen, svc, pc, cont, token, pending, io_read, io_write, Loc>>
        /\ \A rs : Answers(rs) => toCli' = toCli \o rs
        /\ \A o : NoneOf(toSrv, o, "ctrl") => NoneOf(toSrv', o, "ctrl")
        /\ \A o : OnceOf(toSrv, o, "ctrl") => OnceOf(toSrv', o, "ctrl")
        /\ \A o : o # "read" => (NoneOf(toSrv', o, "ctrl") => NoneOf(toSrv, o, "ctrl"))
        /\ \A o : Before(toSrv, o, "read") => NoneOf(toSrv, o, "ctrl")
        /\ OnceOf(toSrv, "read", "ctrl") => NoneOf(toSrv', "read", "ctrl")
        /\ ~NoneOf(toSrv, "read", "ctrl")
        /\ \A o, next : Before(toSrv, o, next) => Before(toSrv', o, next)
        /\ \A k \in DOMAIN toSrv' : \E m \in DOMAIN toSrv : toSrv'[k] = toSrv[m]
    BY <1>1, CtrlServed
  <1>3. /\ NoneOf(toSrv', "read", "ctrl") /\ NoneOf(toCli, "read", "ctrl") /\ "ctrl" \notin parked
        /\ ~NoneOf(pending, "read", "ctrl") /\ OnceOf(toCli, "read", "ctrl")
        /\ \A k \in DOMAIN pending : Is(pending[k], "read", "ctrl") => Query.fnum = pending[k].fnum
    BY <1>2 DEF FineState, CtrlFine, ReadingInv, OneUnderway, NoneUnderway
  <1>4. /\ UNCHANGED <<inst, srvOpen, srvFnum, c2s, s2c>> /\ Ready' = Ready
        /\ OnceOf(toSrv', "write", "ctrl") /\ (NoneWritten => NoneWritten')
    BY <1>2 DEF ServeRead, Refuse, srvVars, pipeVars, Ready, FineState, CtrlFine, TalkInv, NoneWritten
  <1>5. OnceOf(toSrv', "read", "ctrl") /\ \A i \in DOMAIN toSrv' : ~Is(toSrv'[i], "read", "ctrl")
    BY <1>3 DEF OnceOf, NoneOf
  <1>6. FileInv'
    BY <1>2, <1>4 DEF FineState, CtrlFine, FileInv
  <1>7. CASE state \in {"GETTING_VERSION", "RUNNING"}
    <2>1. Valid
      <3>1. PICK k \in DOMAIN pending : Is(pending[k], "read", "ctrl")
        BY <1>3 DEF NoneOf
      <3> QED BY <1>2, <1>3, <1>7, <3>1 DEF Valid, Is, FineState, CtrlFine, ReadingInv
    <2>2. toCli' = toCli /\ "ctrl" \in parked'
      BY <1>2, <2>1 DEF ServeRead, Is
    <2>3. NoneFetched' = NoneFetched /\ CodeDue' = CodeDue
      BY <1>2, <1>4, <2>2 DEF NoneFetched, Fetched, CodeDue, Coder
    <2>4. TalkInv'
      BY <1>2, <1>4, <2>2, <2>3 DEF FineState, CtrlFine, TalkInv, Silent
    <2>5. OpeningInv'
      <3>1. NoneUnderway("open", "ctrl")'
        BY <1>2, <1>7, <2>2 DEF FineState, Stored, RoundInv, NoneUnderway
      <3> QED BY <1>2, <1>7, <3>1, NotOpening
    <2>6. ReadingInv'
      <3>1. \A k \in DOMAIN pending : Is(pending[k], "read", "ctrl") => pending[k].fnum = srvFnum["ctrl"]
        BY <1>7 DEF FineState, CtrlFine, ReadingInv
      <3>2. \A i \in DOMAIN toCli' : Fetched(i)' => DOMAIN (toCli'[i].data) = {1}
        BY <2>2 DEF Fetched, FineState, CtrlFine, ReadingInv
      <3> QED BY <1>2, <1>3, <1>4, <1>5, <2>2, <3>1, <3>2
                 DEF FineState, CtrlFine, ReadingInv, OneUnderway, NoneUnderway, NoneOf
    <2>7. ClosingInv' /\ PathInv'
      BY <1>2, <1>7, <2>3, NotClosing DEF FineState, CtrlFine, PathInv
    <2> QED BY <1>6, <2>4, <2>5, <2>6, <2>7 DEF CtrlFine
  <1>8. CASE state \in {"OPENING", "CLOSING_FOR_REINSTALL"}
    <2>1. ~Valid
      <3>1. ~Live(1)
        BY <1>2, <1>8 DEF FineState, OnceInv, ReadInv, QuietCtrl, NoneLive
      <3> QED BY <1>2, <3>1 DEF Live, Valid, Is, OnCtrl
    <2> DEFINE r == Answer("read", "ctrl", Query.fnum, "invalid", <<>>)
    <2>2. r \in Replied /\ Is(r, "read", "ctrl") /\ r.status = "invalid" /\ r.fnum = Query.fnum
      <3>1. r \in Replied
        BY <1>2, AnswerType DEF ReqOp, Pipe
      <3> QED BY <3>1 DEF Answer, Is
    <2>3. toCli' = toCli \o <<r>> /\ parked' = parked
      BY <1>2, <2>1 DEF ServeRead, Refuse, Result, Is, srvVars
    <2> HIDE DEF r
    <2>4. /\ \A o : o # "read" => (NoneOf(toCli', o, "ctrl") <=> NoneOf(toCli, o, "ctrl"))
          /\ NoneOf(toCli, "read", "ctrl") => OnceOf(toCli', "read", "ctrl")
          /\ ~NoneOf(toCli', "read", "ctrl")
          /\ \A o, next : /\ Before(toCli, o, next) /\ o # next
                          /\ o # "read" \/ NoneOf(toCli, next, "ctrl")
                          => Before(toCli', o, next)
          /\ \A k \in DOMAIN toCli' : toCli'[k] = r \/ \E m \in DOMAIN toCli : toCli'[k] = toCli[m]
          /\ NoneFetched => NoneFetched'
          /\ CodeDue => CodeDue'
      <3>1. s2c'["ctrl"] = s2c["ctrl"] /\ codeSeen' = codeSeen
        BY <1>2, <1>4
      <3> QED BY <2>2, <2>3, <3>1, CtrlReplied
    <2>5. TalkInv'
      <3>1. \A i \in DOMAIN toCli' : Is(toCli'[i], "write", "ctrl") => toCli'[i].status = "ok"
        BY <2>2, <2>4 DEF Is, FineState, CtrlFine, TalkInv
      <3>2. NoneWritten'
        BY <1>4, <1>8 DEF FineState, CtrlFine, TalkInv
      <3>3. \A i \in DOMAIN toSrv' : ~Is(toSrv'[i], "write", "ctrl")
        BY <3>2 DEF NoneWritten, NoneOf
      <3> QED BY <1>2, <1>4, <1>8, <3>1, <3>2, <3>3 DEF TalkInv
    <2>6. OpeningInv'
      <3>1. CASE state = "CLOSING_FOR_REINSTALL"
        <4>1. NoneUnderway("open", "ctrl")'
          BY <1>2, <2>4, <3>1 DEF FineState, Stored, RoundInv, NoneUnderway
        <4> QED BY <1>2, <3>1, <4>1, NotOpening
      <3>2. CASE state = "OPENING"
        <4>1. NoneOf(toCli, "open", "ctrl") /\ NoneOf(toCli', "open", "ctrl")
          BY <1>2, <2>4 DEF FineState, CtrlFine, OpeningInv, NoneOf
        <4>2. Before(toSrv', "read", "open") /\ Before(toCli', "read", "open")
          BY <4>1, BeforeNone, <1>2, <3>2 DEF FineState, CtrlFine, OpeningInv
        <4>3. \A i \in DOMAIN toCli' : ~Is(toCli'[i], "open", "ctrl")
          BY <4>1 DEF NoneOf
        <4>4. NoneOf(toSrv, "open", "ctrl") => NoneOf(toSrv', "open", "ctrl")
          BY <1>2
        <4> QED BY <1>2, <1>4, <4>2, <4>3, <4>4 DEF FineState, CtrlFine, OpeningInv
      <3> QED BY <1>8, <3>1, <3>2
    <2>7. ReadingInv'
      <3>1. \A i \in DOMAIN toCli' : Is(toCli'[i], "read", "ctrl") => toCli'[i] = r
        BY <1>3, <2>4 DEF NoneOf
      <3>2. \A i \in DOMAIN toCli' : ~Fetched(i)'
        BY <2>2, <3>1 DEF Fetched, OnCtrl, Is
      <3>3. OneUnderway("read", "ctrl")' /\ ~NoneUnderway("read", "ctrl")' /\ "ctrl" \notin parked'
        BY <1>3, <1>5, <2>3, <2>4 DEF OneUnderway, NoneUnderway
      <3>4. OnceOf(pending', "read", "ctrl") /\ ~NoneOf(pending', "read", "ctrl")
        BY <1>2, <1>3 DEF FineState, CtrlFine, ReadingInv
      <3>5. state' \notin {"GETTING_VERSION", "RUNNING"}
        BY <1>2, <1>8
      <3>6. \A k \in DOMAIN pending' : Is(pending'[k], "read", "ctrl") => r.fnum = pending'[k].fnum
        BY <1>2, <1>3, <2>2
      <3> QED BY <1>5, <3>1, <3>2, <3>3, <3>4, <3>5, <3>6 DEF ReadingInv
    <2>8. ClosingInv'
      <3>1. CASE state = "CLOSING_FOR_REINSTALL" /\ mode = "loop"
        <4>1. /\ NoneOf(toCli, "close", "ctrl") =>
                    ~NoneOf(toSrv, "close", "ctrl") /\ NoneOf(toCli, "read", "ctrl")
              /\ Before(toSrv, "close", "read") /\ Before(toCli, "close", "read")
              /\ ~NoneOf(pending, "close", "ctrl")
              /\ \A k \in DOMAIN pending : Is(pending[k], "close", "ctrl") => pending[k].fnum = srvFnum["ctrl"]
              /\ \A i \in DOMAIN toCli : Is(toCli[i], "close", "ctrl") => toCli[i].fnum = srvFnum["ctrl"]
          BY <3>1 DEF FineState, CtrlFine, ClosingInv
        <4>2. NoneOf(toSrv, "close", "ctrl") /\ ~NoneOf(toCli, "close", "ctrl") /\ ~NoneOf(toCli', "close", "ctrl")
          BY <1>2, <2>4, <4>1
        <4>3. Before(toSrv', "close", "read") /\ Before(toCli', "close", "read")
          BY <1>2, <2>4, <4>1
        <4>4. \A i \in DOMAIN toCli' : Is(toCli'[i], "close", "ctrl") => toCli'[i].fnum = srvFnum["ctrl"]
          BY <2>2, <2>4, <4>1 DEF Is
        <4> QED BY <1>2, <1>4, <4>1, <4>2, <4>3, <4>4 DEF ClosingInv
      <3> QED BY <1>2, <3>1, NotClosing
    <2>9. PathInv'
      BY <1>2, <1>8, <2>4 DEF FineState, CtrlFine, PathInv
    <2> QED BY <1>6, <2>5, <2>6, <2>7, <2>8, <2>9 DEF CtrlFine
  <1> QED BY <1>7, <1>8 DEF FineState, SessTypeOK, ClientTypeOK

\* The control pipe is not broken while it is read.
LEMMA ParkedOpen ==
  ASSUME FineState, "ctrl" \in parked
  PROVE  /\ state \in {"GETTING_VERSION", "RUNNING"} /\ inst["ctrl"] = "conn"
         /\ NoneUnderway("read", "ctrl") /\ ~NoneOf(pending, "read", "ctrl")
  <1>1. state \in {"GETTING_VERSION", "RUNNING"}
    BY DEF FineState, SessTypeOK, ClientTypeOK, OnceInv, ReadInv, QuietCtrl
  <1>2. NoneUnderway("read", "ctrl") /\ ~NoneOf(pending, "read", "ctrl")
    BY DEF FineState, CtrlFine, ReadingInv
  <1>3. CASE state = "GETTING_VERSION"
    BY <1>1, <1>2, <1>3 DEF FineState, CtrlFine, TalkInv, Ready
  <1>4. CASE state = "RUNNING"
    <2>1. Held
      BY <1>4 DEF FineState, RunInv, LineInv, FineInv, Cut, Staying, Gone
    <2>2. Mentions(s2c["ctrl"], "return_code") => inst["ctrl"] = "conn"
      <3>1. inst["ctrl"] # "conn" => s2c["ctrl"] = <<>>
        BY DEF FineState, ServiceInv, ConnInv, Pipe
      <3> QED BY <3>1, NothingMentioned
    <2>3. \A i \in DOMAIN toCli : ~Coder(i)
      BY <1>2 DEF NoneUnderway, NoneOf, Coder, Fetched, OnCtrl, Is
    <2>4. CodeDue => inst["ctrl"] = "conn"
      BY <2>2, <2>3 DEF CodeDue, FineState
    <2> QED BY <1>1, <1>2, <1>4, <2>1, <2>4 DEF FineState, CtrlFine, PathInv, Held, Released
  <1> QED BY <1>1, <1>2, <1>3, <1>4

\* The message in the pipe is the answer.
LEMMA AnswerFine ==
  ASSUME FineState, ServerNext, "ctrl" \in parked, parked' = parked \ {"ctrl"},
         UNCHANGED <<srvOpen, srvFnum, toSrv>>, ClientRead("ctrl"),
         Answers(<<Answer("read", "ctrl", srvFnum["ctrl"], "ok", s2c["ctrl"])>>)
  PROVE  CtrlFine'
  <1> DEFINE r == Answer("read", "ctrl", srvFnum["ctrl"], "ok", s2c["ctrl"])
  <1>1. /\ UNCHANGED <<account, state, mode, codeSeen, svc, pc, cont, token, pending, io_read, io_write, Loc>>
        /\ toCli' = toCli \o <<r>> /\ ClientTypeOK
    BY ServerSame DEF FineState, SessTypeOK
  <1>2. /\ state \in {"GETTING_VERSION", "RUNNING"} /\ inst["ctrl"] = "conn"
        /\ NoneUnderway("read", "ctrl") /\ ~NoneOf(pending, "read", "ctrl")
    BY ParkedOpen
  <1>3. /\ s2c["ctrl"] # <<>> /\ s2c'["ctrl"] = <<>> /\ UNCHANGED <<inst, c2s>>
        /\ s2c["ctrl"] \in Seq(Message) /\ DOMAIN (s2c["ctrl"]) = {1} /\ srvFnum["ctrl"] \in Nat
    <2>1. /\ s2c["ctrl"] \in Seq(Message) /\ srvFnum["ctrl"] \in Nat /\ s2c["ctrl"] # <<>>
          /\ Len(s2c["ctrl"]) <= 1 /\ s2c'["ctrl"] = <<>> /\ UNCHANGED <<inst, c2s>>
      BY DEF ClientRead, FineState, SessTypeOK, ConnTypeOK, PipeTypeOK, ServerTypeOK, ServiceInv, ConnInv, Pipe
    <2> DEFINE s == s2c["ctrl"]
    <2>2. Len(s) = 1 /\ DOMAIN s = 1..Len(s)
      BY <2>1
    <2> QED BY <2>1, <2>2
  <1>4. r \in Replied /\ Is(r, "read", "ctrl") /\ r.status = "ok" /\ r.fnum = srvFnum["ctrl"] /\ r.data = s2c["ctrl"]
    <2>1. r \in Replied
      BY <1>3, AnswerType DEF ReqOp, Pipe
    <2> QED BY <2>1 DEF Answer, Is
  <1> HIDE DEF r
  <1>5. /\ \A o : o # "read" => (NoneOf(toCli', o, "ctrl") <=> NoneOf(toCli, o, "ctrl"))
        /\ NoneOf(toCli, "read", "ctrl") => OnceOf(toCli', "read", "ctrl")
        /\ ~NoneOf(toCli', "read", "ctrl")
        /\ \A k \in DOMAIN toCli' : toCli'[k] = r \/ \E m \in DOMAIN toCli : toCli'[k] = toCli[m]
        /\ \A k \in DOMAIN toCli : \E m \in DOMAIN toCli' : toCli'[m] = toCli[k]
        /\ \E k \in DOMAIN toCli' : toCli'[k] = r
    <2>1. /\ \A k \in DOMAIN toCli' : toCli'[k] = r \/ \E m \in DOMAIN toCli : toCli'[k] = toCli[m]
          /\ \A k \in DOMAIN toCli : \E m \in DOMAIN toCli' : toCli'[m] = toCli[k]
          /\ ~NoneOf(toCli', "read", "ctrl") /\ NoneOf(toCli, "read", "ctrl")
      BY <1>1, <1>2, <1>4, ReplyAdded DEF NoneUnderway
    <2>2. \E k \in DOMAIN toCli' : toCli'[k] = r
      BY <2>1 DEF NoneOf
    <2> QED BY <1>1, <1>4, <2>1, <2>2, ReplyAdded
  <1>6. TalkInv'
    <2>1. \A i \in DOMAIN toCli' : Is(toCli'[i], "write", "ctrl") => toCli'[i].status = "ok"
      BY <1>4, <1>5 DEF Is, FineState, CtrlFine, TalkInv
    <2>2. /\ Ready' = Ready /\ NoneWritten' = NoneWritten
      BY <1>1, <1>3 DEF Ready, NoneWritten
    <2>3. state = "GETTING_VERSION" => NoneWritten /\ c2s["ctrl"] = <<>>
      BY <1>3 DEF FineState, CtrlFine, TalkInv, Silent
    <2> QED BY <1>1, <1>2, <1>3, <2>1, <2>2, <2>3 DEF FineState, CtrlFine, TalkInv
  <1>7. OpeningInv'
    <2>1. NoneUnderway("open", "ctrl")'
      BY <1>1, <1>2, <1>5 DEF FineState, Stored, RoundInv, NoneUnderway
    <2> QED BY <1>1, <1>2, <2>1, NotOpening
  <1>8. ReadingInv'
    <2>1. \A i \in DOMAIN toCli' : Is(toCli'[i], "read", "ctrl") => toCli'[i] = r
      BY <1>2, <1>5 DEF NoneUnderway, NoneOf
    <2>2. \A i \in DOMAIN toCli' : Fetched(i)' => DOMAIN (toCli'[i].data) = {1}
      BY <1>3, <1>4, <2>1 DEF Fetched, OnCtrl, Is
    <2>3. /\ NoneOf(toSrv', "read", "ctrl") /\ "ctrl" \notin parked'
          /\ \A i \in DOMAIN toSrv' : ~Is(toSrv'[i], "read", "ctrl")
      BY <1>2 DEF NoneUnderway, NoneOf
    <2>4. OneUnderway("read", "ctrl")' /\ ~NoneUnderway("read", "ctrl")'
      BY <1>2, <1>5, <2>3 DEF NoneUnderway, OneUnderway, OnceOf
    <2>5. /\ OnceOf(pending', "read", "ctrl") /\ ~NoneOf(pending', "read", "ctrl")
          /\ \A k \in DOMAIN pending' : Is(pending'[k], "read", "ctrl") => pending'[k].fnum = r.fnum
          /\ r.fnum = srvFnum'["ctrl"] /\ "ctrl" \in srvOpen'
      BY <1>1, <1>2, <1>4 DEF FineState, CtrlFine, ReadingInv
    <2> QED BY <1>4, <2>1, <2>2, <2>3, <2>4, <2>5 DEF ReadingInv
  <1>9. PathInv'
    <2>1. CodeDue => CodeDue'
      <3>1. (\E i \in DOMAIN toCli : Coder(i)) => \E i \in DOMAIN toCli' : Coder(i)'
        BY <1>5 DEF Coder, Fetched, OnCtrl
      <3>2. Mentions(s2c["ctrl"], "return_code") => \E i \in DOMAIN toCli' : Coder(i)'
        BY <1>4, <1>5 DEF Coder, Fetched, OnCtrl, Is
      <3> QED BY <1>1, <3>1, <3>2 DEF CodeDue
    <2> QED BY <1>1, <2>1 DEF FineState, CtrlFine, PathInv
  <1>10. FileInv' /\ ClosingInv'
    BY <1>1, <1>2, NotClosing DEF FineState, CtrlFine, FileInv
  <1> QED BY <1>6, <1>7, <1>8, <1>9, <1>10 DEF CtrlFine

\* The file is closed for the reinstallation.
LEMMA CloseFine ==
  ASSUME FineState, ServerNext, ServeClose, Query.pipe = "ctrl"
  PROVE  CtrlFine'
  <1>1. Serve("close")
    BY DEF ServeClose
  <1>2. /\ ClientTypeOK /\ Is(Query, "close", "ctrl") /\ Query = toSrv[1] /\ 1 \in DOMAIN toSrv
        /\ Query.fnum \in Nat /\ toSrv' = Tail(toSrv)
        /\ UNCHANGED <<account, state, mode, codeSeen, svc, pc, cont, token, pending, io_read, io_write, Loc>>
        /\ \A rs : Answers(rs) => toCli' = toCli \o rs
        /\ \A o : NoneOf(toSrv, o, "ctrl") => NoneOf(toSrv', o, "ctrl")
        /\ \A o : OnceOf(toSrv, o, "ctrl") => OnceOf(toSrv', o, "ctrl")
        /\ \A o : o # "close" => (NoneOf(toSrv', o, "ctrl") => NoneOf(toSrv, o, "ctrl"))
        /\ ~NoneOf(toSrv, "close", "ctrl")
        /\ \A o, next : Before(toSrv, o, next) => Before(toSrv', o, next)
        /\ \A k \in DOMAIN toSrv' : \E m \in DOMAIN toSrv : toSrv'[k] = toSrv[m]
    BY <1>1, CtrlServed
  <1>3. /\ state = "CLOSING_FOR_REINSTALL" /\ mode = "loop" /\ Query.fnum = srvFnum["ctrl"]
        /\ NoneOf(toCli, "close", "ctrl") /\ NoneOf(toCli, "read", "ctrl")
        /\ Before(toSrv, "close", "read") /\ Before(toCli, "close", "read")
    <2>1. state = "CLOSING_FOR_REINSTALL" /\ mode = "loop" /\ OneUnderway("close", "ctrl")
      BY <1>2 DEF FineState, FineInv, Stored, RoundInv
    <2>2. NoneOf(toCli, "close", "ctrl")
      BY <1>2, <2>1 DEF OneUnderway
    <2>3. Query.fnum = srvFnum["ctrl"]
      BY <1>2 DEF FineState, Stored, CloseInv, Pipe
    <2> QED BY <2>1, <2>2, <2>3 DEF FineState, CtrlFine, ClosingInv
  <1>4. "ctrl" \notin parked
    BY <1>3 DEF FineState, OnceInv, ReadInv, QuietCtrl
  <1>5. PICK r \in Replied :
            /\ toCli' = toCli \o <<r>> /\ Is(r, "close", "ctrl") /\ r.fnum = Query.fnum
            /\ UNCHANGED srvFnum /\ "ctrl" \notin parked'
    <2>1. CASE Valid
      <3> DEFINE r == Answer("close", "ctrl", Query.fnum, "ok", <<>>)
      <3>1. r \in Replied
        BY <1>2, AnswerType DEF ReqOp, Pipe
      <3>2. Answers(<<>> \o <<r>>) /\ parked' = parked \ {"ctrl"} /\ UNCHANGED srvFnum
        BY <1>2, <1>4, <2>1 DEF ServeClose, Is
      <3>3. toCli' = toCli \o <<r>>
        <4>1. <<>> \o <<r>> = <<r>>
          BY <3>1
        <4> QED BY <1>2, <3>2, <4>1
      <3> QED BY <3>1, <3>2, <3>3 DEF Answer, Is
    <2>2. CASE ~Valid
      <3> DEFINE r == Answer("close", "ctrl", Query.fnum, "invalid", <<>>)
      <3>1. r \in Replied
        BY <1>2, AnswerType DEF ReqOp, Pipe
      <3>2. toCli' = toCli \o <<r>> /\ UNCHANGED <<srvFnum, parked>>
        BY <1>2, <2>2 DEF ServeClose, Refuse, Result, Is, srvVars
      <3> QED BY <1>4, <3>1, <3>2 DEF Answer, Is
    <2> QED BY <2>1, <2>2
  <1>6. /\ \A o : o # "close" => (NoneOf(toCli', o, "ctrl") <=> NoneOf(toCli, o, "ctrl"))
        /\ \A o : OnceOf(toCli, o, "ctrl") /\ o # "close" => OnceOf(toCli', o, "ctrl")
        /\ ~NoneOf(toCli', "close", "ctrl")
        /\ \A o, next : /\ Before(toCli, o, next) /\ o # next
                        /\ o # "close" \/ NoneOf(toCli, next, "ctrl")
                        => Before(toCli', o, next)
        /\ \A k \in DOMAIN toCli' : toCli'[k] = r \/ \E m \in DOMAIN toCli : toCli'[k] = toCli[m]
    BY <1>2, <1>5, ReplyAdded
  <1>7. TalkInv'
    <2>1. \A i \in DOMAIN toCli' : Is(toCli'[i], "write", "ctrl") => toCli'[i].status = "ok"
      BY <1>5, <1>6 DEF Is, FineState, CtrlFine, TalkInv
    <2>2. NoneWritten' /\ OnceOf(toSrv', "write", "ctrl")
      BY <1>2, <1>3 DEF FineState, CtrlFine, TalkInv, NoneWritten
    <2>3. \A i \in DOMAIN toSrv' : ~Is(toSrv'[i], "write", "ctrl")
      BY <2>2 DEF NoneWritten, NoneOf
    <2> QED BY <1>2, <1>3, <2>1, <2>2, <2>3 DEF TalkInv
  <1>8. OpeningInv'
    <2>1. NoneUnderway("open", "ctrl")'
      BY <1>2, <1>3, <1>6 DEF FineState, Stored, RoundInv, NoneUnderway
    <2> QED BY <1>2, <1>3, <2>1, NotOpening
  <1>9. ReadingInv'
    <2>1. /\ NoneOf(toSrv', "read", "ctrl") <=> NoneOf(toSrv, "read", "ctrl")
          /\ NoneOf(toCli', "read", "ctrl") /\ OnceOf(toCli', "read", "ctrl")
          /\ OnceOf(toSrv, "read", "ctrl") => OnceOf(toSrv', "read", "ctrl")
      BY <1>2, <1>3, <1>6 DEF NoneOf, OnceOf
    <2>2. \A i \in DOMAIN toCli' : ~Is(toCli'[i], "read", "ctrl") /\ ~Fetched(i)'
      BY <2>1 DEF NoneOf, Fetched, OnCtrl, Is
    <2>3. OneUnderway("read", "ctrl")' /\ (NoneUnderway("read", "ctrl")' <=> NoneUnderway("read", "ctrl"))
      BY <1>3, <2>1 DEF OneUnderway, NoneUnderway, FineState, CtrlFine, ReadingInv
    <2> QED BY <1>2, <1>3, <1>4, <1>5, <2>2, <2>3 DEF FineState, CtrlFine, ReadingInv
  <1>10. ClosingInv'
    <2>1. /\ Before(toSrv', "close", "read") /\ Before(toCli', "close", "read")
      BY <1>2, <1>3, <1>6
    <2>2. \A i \in DOMAIN toCli' : Is(toCli'[i], "close", "ctrl") => toCli'[i].fnum = srvFnum["ctrl"]
      BY <1>3, <1>5, <1>6 DEF NoneOf
    <2>3. /\ ~NoneOf(pending, "close", "ctrl")
          /\ \A k \in DOMAIN pending : Is(pending[k], "close", "ctrl") => pending[k].fnum = srvFnum["ctrl"]
      BY <1>3 DEF FineState, CtrlFine, ClosingInv
    <2> QED BY <1>2, <1>5, <1>6, <2>1, <2>2, <2>3 DEF ClosingInv
  <1>11. FileInv' /\ PathInv'
    BY <1>2, <1>3, <1>5 DEF FineState, CtrlFine, FileInv, PathInv
  <1> QED BY <1>7, <1>8, <1>9, <1>10, <1>11 DEF CtrlFine

\* What is asked of another pipe leaves the control pipe aside.
LEMMA ServerAside ==
  ASSUME FineState, ServerNext,
         toSrv' = toSrv \/ (toSrv # <<>> /\ toSrv' = Tail(toSrv) /\ Query.pipe # "ctrl"),
         "ctrl" \in srvOpen' <=> "ctrl" \in srvOpen, "ctrl" \in parked' <=> "ctrl" \in parked
  PROVE  CtrlFine'
  <1>1. /\ toSrv \in Seq(Wired(account)) /\ toCli \in Seq(Replied) /\ ClientTypeOK /\ "ctrl" \in Pipe
        /\ SessTypeOK
    BY DEF FineState, SessTypeOK, ClientTypeOK, Pipe
  <1>2. \A op : ~Took(op, "ctrl")
    <2>1. toSrv # <<>> => Tail(toSrv) # toSrv
      <3>1. toSrv # <<>> => Len(Tail(toSrv)) = Len(toSrv) - 1 /\ Len(toSrv) \in Nat
        BY <1>1
      <3> QED BY <3>1
    <2> QED BY <2>1 DEF Took, Is
  <1>3. UNCHANGED <<account, state, mode, codeSeen, svc, pc, cont, token, pending, io_read, io_write, Loc>>
    BY ServerSame
  <1>4. net = "up" /\ mode \notin Gone
    BY DEF FineState, FineInv, Staying, Gone
  <1>5. inst'["ctrl"] = inst["ctrl"] /\ c2s'["ctrl"] = c2s["ctrl"] /\ s2c'["ctrl"] = s2c["ctrl"]
    <2>1. PipeMoves("ctrl")
      BY <1>1, ServerPipes
    <2>2. ~Hands("ctrl") /\ ~Shut("ctrl")
      BY <1>2, <1>4 DEF Hands, Shut
    <2> QED BY <1>2, <2>1, <2>2 DEF PipeMoves
  <1>6. PICK rs : Served(rs)
    BY <1>1, ServerServes
  <1>7. /\ srvFnum'["ctrl"] = srvFnum["ctrl"] /\ rs \in Seq(Replied) /\ toCli' = toCli \o rs
    BY <1>1, <1>2, <1>4, <1>6 DEF Served, Settles, Answers
  <1>8. \A j \in DOMAIN rs : rs[j].pipe # "ctrl"
    <2> SUFFICES ASSUME NEW j \in DOMAIN rs, rs[j].pipe = "ctrl" PROVE FALSE
      OBVIOUS
    <2>1. rs[j].op = "read"
      BY <1>2, <1>6 DEF Served, Due
    <2>2. /\ DOMAIN toCli = 1..Len(toCli) /\ DOMAIN rs = 1..Len(rs) /\ Len(toCli) \in Nat /\ Len(rs) \in Nat
          /\ DOMAIN toCli' = 1..(Len(toCli) + Len(rs))
          /\ \A i \in 1..(Len(toCli) + Len(rs)) : toCli'[i] = IF i <= Len(toCli) THEN toCli[i] ELSE rs[i - Len(toCli)]
      BY <1>1, <1>7, ConcatElements
    <2> DEFINE k == Len(toCli) + j
    <2>3. k \in DOMAIN toCli' /\ k \notin DOMAIN toCli /\ toCli'[k] = rs[j]
      BY <2>2
    <2>4. k \in NewReads("ctrl")
      BY <2>1, <2>3 DEF NewReads, Is
    <2>5. ReadsMove("ctrl")
      BY <1>1, ServerReadsMove
    <2> QED BY <1>2, <2>4, <2>5 DEF ReadsMove
  <1>9. Alike(toSrv, toSrv') /\ Alike(toCli, toCli')
    <2>1. Alike(toSrv, toSrv')
      BY <1>1, AlikeSame, AlikeTail DEF Query
    <2>2. Alike(toCli, toCli \o rs)
      BY <1>1, <1>7, <1>8, AlikeMore
    <2> QED BY <1>7, <2>1, <2>2
  <1>10. CtrlKept /\ WaitsKept
    BY <1>3, <1>5, <1>7 DEF CtrlKept, WaitsKept
  <1> QED BY <1>1, <1>9, <1>10, AsideFine DEF Aside, FineState

\* The server keeps what is said of the control pipe.
LEMMA ServerCtrl ==
  ASSUME FineState, ServerNext
  PROVE  CtrlFine'
  <1>1. net = "up" /\ mode \notin Gone
    BY DEF FineState, FineInv, Staying, Gone
  <1>2. ASSUME ServeOpen \/ ServeWrite \/ ServeRead \/ ServeClose, Query.pipe = "ctrl" PROVE CtrlFine'
    BY <1>2, OpenFine, WriteFine, ReadFine, CloseFine
  <1>3. ASSUME ServeOpen \/ ServeWrite \/ ServeRead \/ ServeClose, Query.pipe # "ctrl" PROVE CtrlFine'
    <2>1. toSrv # <<>> /\ toSrv' = Tail(toSrv)
      BY <1>3 DEF ServeOpen, ServeWrite, ServeRead, ServeClose, Serve
    <2>2. ("ctrl" \in srvOpen' <=> "ctrl" \in srvOpen) /\ ("ctrl" \in parked' <=> "ctrl" \in parked)
      BY <1>3 DEF ServeOpen, ServeWrite, ServeRead, ServeClose, Refuse, srvVars
    <2> QED BY <1>3, <2>1, <2>2, ServerAside
  <1>4. ASSUME AnswerRead PROVE CtrlFine'
    <2>1. PICK p \in parked :
              /\ \/ /\ ClientRead(p)
                    /\ Answers(<<Answer("read", p, srvFnum[p], "ok", s2c[p])>>)
                 \/ /\ inst[p] # "conn"
                    /\ Answers(<<Answer("read", p, srvFnum[p], "broken", <<>>)>>)
                    /\ UNCHANGED pipeVars
              /\ parked' = parked \ {p}
      BY <1>4 DEF AnswerRead
    <2>2. UNCHANGED <<srvOpen, srvFnum, toSrv>>
      BY <1>4 DEF AnswerRead
    <2>3. CASE p = "ctrl"
      BY <2>1, <2>2, <2>3, ParkedOpen, AnswerFine
    <2>4. CASE p # "ctrl"
      BY <2>1, <2>2, <2>4, ServerAside
    <2> QED BY <2>3, <2>4
  <1>5. ~Hangup
    BY <1>1 DEF Hangup
  <1> QED BY <1>2, <1>3, <1>4, <1>5 DEF ServerNext

-----------------------------------------------------------------------------
\* The standard pipes.

\* What a server step is to a standard pipe.
StdServed(p) ==
    /\ \/ inst'[p] = inst[p]
       \/ Took("open", p) /\ inst[p] = "listen" /\ inst'[p] = "conn" /\ p \in srvOpen'
    /\ inst[p] # "closed" => /\ p \in srvOpen => p \in srvOpen'
                             /\ p \in srvOpen' => p \in srvOpen \/ inst'[p] = "conn"
    /\ srvFnum'[p] = srvFnum[p] \/ Took("open", p)
    /\ \A i \in DOMAIN toCli' \ DOMAIN toCli : toCli'[i].pipe = p =>
          inst'[p] = "closed" \/ (toCli'[i].status = "ok" /\ p \in srvOpen')

\* What may be asked of it.
LEMMA StdAsked ==
  ASSUME FineState, NEW p \in Std, NEW op, Serve(op), Query.pipe = p
  PROVE  /\ Took(op, p) /\ Query.fnum \in Nat /\ p \in Pipe
         /\ \/ inst[p] = "closed"
            \/ op = "open" /\ inst[p] = "listen"
            \/ op \in {"read", "write"} /\ Valid /\ inst[p] = "conn"
  <1>1. /\ toSrv # <<>> /\ toSrv \in Seq(Wired(account)) /\ ClientTypeOK /\ Query.op = op /\ StdFine(p)
        /\ p \in Pipe
    BY DEF Serve, FineState, SessTypeOK, ClientTypeOK, StdFineInv, Std, Pipe
  <1>2. 1 \in DOMAIN toSrv /\ Query = toSrv[1]
    BY <1>1, TailElements DEF Query
  <1>3. Query.fnum \in Nat
    BY <1>1, QueryType
  <1> QED BY <1>1, <1>2, <1>3 DEF Took, Serve, Is, StdFine, Valid

\* One reply is of the pipe that was asked for.
LEMMA StdReplied ==
  ASSUME FineState, NEW op \in ReqOp, NEW q \in Pipe, NEW f \in Nat, NEW status, NEW data,
         Answer(op, q, f, status, data) \in Replied, Answers(<<Answer(op, q, f, status, data)>>),
         NEW i \in DOMAIN toCli' \ DOMAIN toCli
  PROVE  toCli'[i].pipe = q /\ toCli'[i].status = status
  <1>1. ClientTypeOK
    BY DEF FineState, SessTypeOK
  <1>2. toCli'[i] = Answer(op, q, f, status, data)
    BY <1>1, AnsweredOne
  <1> QED BY <1>2 DEF Answer

\* An open of a standard pipe finds the instance that listens, ...
LEMMA StdOpenServed ==
  ASSUME FineState, ServerNext, ServeOpen, NEW p \in Std
  PROVE  StdServed(p)
  <1>1. /\ Serve("open") /\ ClientTypeOK /\ toSrv # <<>> /\ Query.op = "open" /\ p \in Pipe
    BY DEF ServeOpen, Serve, FineState, SessTypeOK, Std, Pipe
  <1>2. /\ Query.pipe \in Pipe /\ Query.fnum \in Nat /\ srvFnum[Query.pipe] \in Nat /\ "open" \in ReqOp
        /\ inst \in [Pipe -> InstState] /\ srvFnum \in [Pipe -> Nat]
    BY <1>1, QueryType DEF FineState, SessTypeOK, ServerTypeOK, ConnTypeOK, PipeTypeOK, ReqOp
  <1>3. CASE /\ ClientOpen(Query.pipe)
             /\ srvOpen' = srvOpen \union {Query.pipe}
             /\ srvFnum' = [srvFnum EXCEPT ![Query.pipe] = @ + 1]
             /\ Answers(<<Answer("open", Query.pipe, srvFnum[Query.pipe] + 1, "ok", <<>>)>>)
    <2>1. srvFnum[Query.pipe] + 1 \in Nat
      BY <1>2
    <2>2. Answer("open", Query.pipe, srvFnum[Query.pipe] + 1, "ok", <<>>) \in Replied
      BY <1>2, <2>1, AnswerType
    <2>3. \A i \in DOMAIN toCli' \ DOMAIN toCli : toCli'[i].pipe = Query.pipe /\ toCli'[i].status = "ok"
      BY <1>2, <1>3, <2>1, <2>2, StdReplied
    <2>4. CASE Query.pipe = p
      BY <1>1, <1>2, <1>3, <2>3, <2>4 DEF ClientOpen, StdServed, Took, Serve, Is
    <2>5. CASE Query.pipe # p
      BY <1>1, <1>2, <1>3, <2>3, <2>5 DEF ClientOpen, StdServed
    <2> QED BY <2>4, <2>5
  <1>4. CASE inst[Query.pipe] # "listen" /\ Refuse("notfound")
    <2>1. Answer("open", Query.pipe, Query.fnum, "notfound", <<>>) \in Replied
      BY <1>2, AnswerType
    <2>2. \A i \in DOMAIN toCli' \ DOMAIN toCli : toCli'[i].pipe = Query.pipe
      BY <1>1, <1>2, <1>4, <2>1, StdReplied DEF Refuse, Result
    <2>3. UNCHANGED <<inst, srvOpen, srvFnum>>
      BY <1>4 DEF Refuse, pipeVars, srvVars
    <2>4. Query.pipe = p => inst[p] = "closed"
      BY <1>1, <1>4, StdAsked
    <2> QED BY <2>2, <2>3, <2>4 DEF StdServed
  <1> QED BY <1>3, <1>4 DEF ServeOpen

\* ... a write its file, ...
LEMMA StdWriteServed ==
  ASSUME FineState, ServerNext, ServeWrite \/ ServeRead, NEW p \in Std
  PROVE  StdServed(p)
  <1>1. /\ (Serve("write") \/ Serve("read")) /\ ClientTypeOK /\ toSrv # <<>> /\ p \in Pipe
    BY DEF ServeWrite, ServeRead, Serve, FineState, SessTypeOK, Std, Pipe
  <1>2. /\ Query.pipe \in Pipe /\ Query.fnum \in Nat /\ Query.op \in {"read", "write"} /\ Query.op \in ReqOp
    BY <1>1, QueryType DEF ReqOp, Serve, ServeWrite, ServeRead
  <1>3. UNCHANGED <<inst, srvOpen, srvFnum>>
    BY DEF ServeWrite, ServeRead, ClientWrite, Refuse, pipeVars, srvVars
  <1>4. ASSUME NEW i \in DOMAIN toCli' \ DOMAIN toCli
        PROVE  /\ toCli'[i].pipe = Query.pipe
               /\ \/ toCli'[i].status = "ok" /\ Valid
                  \/ ~Valid \/ (Query.op = "write" /\ inst[Query.pipe] # "conn")
    <2>1. CASE Result("ok", <<>>) /\ Query.op = "write" /\ Valid
      <3>1. Answer(Query.op, Query.pipe, Query.fnum, "ok", <<>>) \in Replied
        BY <1>2, <2>1, AnswerType
      <3> QED BY <1>2, <1>4, <2>1, <3>1, StdReplied DEF Result
    <2>2. CASE Refuse("broken") /\ Query.op = "write" /\ inst[Query.pipe] # "conn"
      <3>1. Answer(Query.op, Query.pipe, Query.fnum, "broken", <<>>) \in Replied
        BY <1>2, <2>2, AnswerType
      <3> QED BY <1>2, <1>4, <2>2, <3>1, StdReplied DEF Refuse, Result
    <2>3. CASE Refuse("invalid") /\ ~Valid
      <3>1. Answer(Query.op, Query.pipe, Query.fnum, "invalid", <<>>) \in Replied
        BY <1>2, <2>3, AnswerType
      <3> QED BY <1>2, <1>4, <2>3, <3>1, StdReplied DEF Refuse, Result
    <2>4. ~(toCli' = toCli)
      BY <1>4
    <2> QED BY <2>1, <2>2, <2>3, <2>4 DEF ServeWrite, ServeRead, Serve
  <1>5. Query.pipe = p => inst[p] = "closed" \/ (Valid /\ inst[p] = "conn")
    BY <1>1, StdAsked
  <1>6. Valid => Query.pipe \in srvOpen
    BY DEF Valid
  <1> QED BY <1>3, <1>4, <1>5, <1>6 DEF StdServed

\* ... and so does a read, ...
LEMMA StdReadServed ==
  ASSUME FineState, ServerNext, AnswerRead, NEW p \in Std
  PROVE  StdServed(p)
  <1>1. PICK q \in parked :
            \/ /\ ClientRead(q)
               /\ Answers(<<Answer("read", q, srvFnum[q], "ok", s2c[q])>>)
            \/ /\ inst[q] # "conn"
               /\ Answers(<<Answer("read", q, srvFnum[q], "broken", <<>>)>>)
               /\ UNCHANGED pipeVars
    BY DEF AnswerRead
  <1>2. /\ UNCHANGED <<inst, srvOpen, srvFnum>> /\ q \in srvOpen /\ q \in Pipe /\ srvFnum[q] \in Nat
        /\ "read" \in ReqOp
        /\ s2c[q] \in Seq(Message) /\ (inst[p] # "conn" /\ p \in srvOpen => inst[p] = "closed")
    BY <1>1 DEF AnswerRead, ClientRead, pipeVars, FineState, SessTypeOK, ServerTypeOK, ConnTypeOK, PipeTypeOK,
                ReqOp, StdFineInv, StdFine
  <1>3. CASE ClientRead(q) /\ Answers(<<Answer("read", q, srvFnum[q], "ok", s2c[q])>>)
    <2>1. Answer("read", q, srvFnum[q], "ok", s2c[q]) \in Replied
      BY <1>2, <1>3, AnswerType DEF ClientRead
    <2>2. \A i \in DOMAIN toCli' \ DOMAIN toCli : toCli'[i].pipe = q /\ toCli'[i].status = "ok"
      BY <1>2, <1>3, <2>1, StdReplied
    <2> QED BY <1>2, <2>2 DEF StdServed
  <1>4. CASE inst[q] # "conn" /\ Answers(<<Answer("read", q, srvFnum[q], "broken", <<>>)>>)
    <2>1. Answer("read", q, srvFnum[q], "broken", <<>>) \in Replied
      BY <1>2, AnswerType
    <2>2. \A i \in DOMAIN toCli' \ DOMAIN toCli : toCli'[i].pipe = q
      BY <1>2, <1>4, <2>1, StdReplied
    <2> QED BY <1>2, <1>4, <2>2 DEF StdServed
  <1> QED BY <1>1, <1>3, <1>4

\* ... and a close ends a file of a pipe that was disconnected.
LEMMA StdCloseServed ==
  ASSUME FineState, ServerNext, ServeClose, NEW p \in Std
  PROVE  StdServed(p)
  <1>1. /\ Serve("close") /\ ClientTypeOK /\ toSrv # <<>> /\ Query.op = "close" /\ p \in Pipe
    BY DEF ServeClose, Serve, FineState, SessTypeOK, Std, Pipe
  <1>2. /\ Query.pipe \in Pipe /\ Query.fnum \in Nat /\ "close" \in ReqOp /\ "read" \in ReqOp
        /\ inst \in [Pipe -> InstState]
    BY <1>1, QueryType DEF FineState, SessTypeOK, ConnTypeOK, PipeTypeOK, ReqOp
  <1>3. Query.pipe = p => inst[p] = "closed"
    BY <1>1, StdAsked
  <1>4. /\ inst'[p] = inst[p] /\ srvFnum' = srvFnum
        /\ Query.pipe # p => (p \in srvOpen' <=> p \in srvOpen)
    <2> DEFINE q == Query.pipe
    <2>1. CASE Valid
      <3>1. srvOpen' = srvOpen \ {q} /\ srvFnum' = srvFnum
        BY <2>1 DEF ServeClose, Refuse
      <3>2. IF inst[q] = "conn" THEN ClientClose(q) ELSE UNCHANGED pipeVars
        BY <2>1 DEF ServeClose, Refuse
      <3>3. inst'[p] = inst[p]
        <4>1. CASE q = p
          BY <1>3, <3>2, <4>1 DEF pipeVars
        <4>2. CASE q # p
          BY <1>1, <1>2, <3>2, <4>2 DEF pipeVars, ClientClose
        <4> QED BY <4>1, <4>2
      <3> QED BY <3>1, <3>3
    <2>2. CASE ~Valid
      BY <2>2 DEF ServeClose, Refuse, pipeVars, srvVars
    <2> QED BY <2>1, <2>2
  <1>5. ASSUME NEW i \in DOMAIN toCli' \ DOMAIN toCli PROVE toCli'[i].pipe = Query.pipe
    <2>1. CASE Valid
      <3> DEFINE x == Answer("read", Query.pipe, Query.fnum, "cancelled", <<>>)
                 y == Answer("close", Query.pipe, Query.fnum, "ok", <<>>)
                 rs == (IF Query.pipe \in parked THEN <<x>> ELSE <<>>) \o <<y>>
      <3>1. x \in Replied /\ y \in Replied
        BY <1>2, AnswerType
      <3>2. rs \in Seq(Replied) /\ \A k \in DOMAIN rs : rs[k] \in {x, y}
        BY <3>1, CloseAnswers
      <3>3. Answers(rs)
        BY <2>1 DEF ServeClose, Refuse
      <3>4. x.pipe = Query.pipe /\ y.pipe = Query.pipe
        BY DEF Answer
      <3> HIDE DEF x, y, rs
      <3>5. \E j \in DOMAIN rs : toCli'[i] = rs[j]
        BY <1>1, <1>5, <3>2, <3>3, AnswersLonger
      <3> QED BY <3>2, <3>4, <3>5
    <2>2. CASE ~Valid
      <3>1. Answer("close", Query.pipe, Query.fnum, "invalid", <<>>) \in Replied
        BY <1>2, AnswerType
      <3>2. Answers(<<Answer("close", Query.pipe, Query.fnum, "invalid", <<>>)>>)
        BY <1>1, <2>2 DEF ServeClose, Refuse, Result
      <3> QED BY <1>2, <1>5, <3>1, <3>2, StdReplied
    <2> QED BY <2>1, <2>2
  <1> QED BY <1>3, <1>4, <1>5 DEF StdServed

\* They are as said after every step of the server.
LEMMA ServerStd ==
  ASSUME FineState, ServerNext
  PROVE  StdFineInv'
  <1>1. /\ ClientTypeOK /\ SessTypeOK /\ net = "up" /\ mode \notin Gone /\ ~Hangup
        /\ toCli \in Seq(Replied)
    BY DEF FineState, SessTypeOK, ClientTypeOK, FineInv, Staying, Gone, Hangup
  <1>2. PICK rs : Served(rs)
    BY <1>1, ServerServes
  <1>3. UNCHANGED <<state, fd, Loc>>
    BY ServerSame, <1>2 DEF Served, Settles
  <1>4. ASSUME NEW p \in Std PROVE StdFine(p)'
    <2>1. StdServed(p)
      BY <1>1, <1>4, StdOpenServed, StdWriteServed, StdReadServed, StdCloseServed DEF ServerNext
    <2>2. StdFine(p) /\ p \in Pipe
      BY <1>4 DEF FineState, StdFineInv, Std, Pipe
    <2>3. ASSUME NEW i \in DOMAIN toSrv', toSrv'[i].pipe = p
          PROVE  \/ inst'[p] = "closed"
                 \/ toSrv'[i].op = "open" /\ inst'[p] = "listen"
                 \/ toSrv'[i].op \in {"read", "write"} /\ p \in srvOpen' /\ toSrv'[i].fnum = srvFnum'[p]
      <3>1. PICK k \in DOMAIN toSrv : toSrv'[i] = toSrv[k]
        BY <1>1, <1>2, <2>3, ServedOf
      <3>2. CASE inst[p] = "closed"
        BY <2>1, <3>2 DEF StdServed
      <3>3. CASE toSrv[k].op = "open" /\ inst[p] = "listen"
        <4>1. OnceOf(toSrv, "open", p)
          BY <2>2 DEF FineState, Stored, RoundInv, OneUnderway
        <4>2. Took("open", p) => NoneOf(toSrv', "open", p)
          BY <1>1, <4>1, TookHead
        <4>3. ~Took("open", p)
          BY <2>3, <3>1, <3>3, <4>2 DEF NoneOf, Is
        <4> QED BY <2>1, <3>1, <3>3, <4>3 DEF StdServed
      <3>4. CASE /\ toSrv[k].op \in {"read", "write"} /\ p \in srvOpen /\ toSrv[k].fnum = srvFnum[p]
                 /\ inst[p] # "closed"
        <4>1. inst[p] = "conn"
          BY <2>2, <3>4 DEF StdFine
        <4>2. ~Took("open", p)
          <5>1. Took("open", p) => Serve("open") /\ Query.pipe = p
            BY DEF Took, Serve, Is
          <5> QED BY <1>4, <4>1, <5>1, StdAsked
        <4> QED BY <2>1, <3>1, <3>4, <4>2 DEF StdServed
      <3> QED BY <2>2, <2>3, <3>1, <3>2, <3>3, <3>4 DEF StdFine
    <2>4. ASSUME NEW i \in DOMAIN toCli', toCli'[i].pipe = p
          PROVE  inst'[p] = "closed" \/ (toCli'[i].status = "ok" /\ p \in srvOpen')
      <3>1. CASE i \notin DOMAIN toCli
        BY <2>1, <2>4, <3>1 DEF StdServed
      <3>2. CASE i \in DOMAIN toCli
        <4>1. toCli'[i] = toCli[i]
          BY <1>1, <1>2, <2>4, <3>2, ServedReply
        <4> QED BY <2>1, <2>2, <2>4, <3>2, <4>1 DEF StdFine, StdServed
      <3> QED BY <3>1, <3>2
    <2>5. /\ inst'[p] # "broken" /\ (inst'[p] = "closed" => Loc' \in Released)
          /\ Loc' \in HoldsOf(p) \ Released => inst'[p] \in {"listen", "conn"}
          /\ p \in srvOpen' => inst'[p] \in {"conn", "closed"}
          /\ fd'[p] # 0 => p \in srvOpen' \/ inst'[p] = "closed"
      BY <1>3, <2>1, <2>2 DEF StdFine, StdServed
    <2> QED BY <2>3, <2>4, <2>5 DEF StdFine, Is
  <1>5. ASSUME Tells(s2c'["ctrl"]) \/ (\E i \in DOMAIN toCli' : Teller(i)') PROVE Loc' = "connin"
    <2>1. Tells(s2c'["ctrl"]) => Tells(s2c["ctrl"])
      BY <1>2 DEF Served, Settles, Tells
    <2>2. ASSUME NEW i \in DOMAIN toCli', Teller(i)'
          PROVE  Tells(s2c["ctrl"]) \/ \E k \in DOMAIN toCli : Teller(k)
      <3>1. (i \in DOMAIN toCli /\ toCli'[i] = toCli[i]) \/ \E j \in DOMAIN rs : toCli'[i] = rs[j]
        BY <1>1, <1>2, <2>2, ServedReply
      <3>2. \A j \in DOMAIN rs : OnCtrl(rs[j], "read") /\ Tells(rs[j].data) => rs[j].data = s2c["ctrl"]
        BY <1>2 DEF Served, Due
      <3> QED BY <2>2, <3>1, <3>2 DEF Teller
    <2> QED BY <1>3, <1>5, <2>1, <2>2 DEF FineState, StdFineInv
  <1> QED BY <1>4, <1>5 DEF StdFineInv

\* ... and the rest.
LEMMA ServerFine ==
  ASSUME FineState, ServerNext
  PROVE  FineInv' /\ CtrlFine' /\ StdFineInv' /\ UNCHANGED codeSeen
  <1>1. FineInv' /\ UNCHANGED codeSeen
    BY DEF FineState, FineInv, Staying, ServerNext, stateVars, sigVars, userVars
  <1> QED BY <1>1, ServerCtrl, ServerStd

-----------------------------------------------------------------------------
\* Steps of the client on the control pipe.

\* What a client whose connection is up makes of its requests.
LEMMA RequestsMade ==
  ASSUME ClientTypeOK, net = "up", NEW rest \in Seq(Waiting), NEW rs \in Seq(Wired(account)), Send(rest, rs)
  PROVE  /\ \A op : /\ NoneOf(toSrv', op, "ctrl") <=> NoneOf(toSrv, op, "ctrl") /\ NoneOf(rs, op, "ctrl")
                    /\ OnceOf(toSrv, op, "ctrl") /\ NoneOf(rs, op, "ctrl") => OnceOf(toSrv', op, "ctrl")
                    /\ NoneOf(toSrv, op, "ctrl") /\ OnceOf(rs, op, "ctrl") => OnceOf(toSrv', op, "ctrl")
                    /\ NoneOf(pending', op, "ctrl") <=> NoneOf(rest, op, "ctrl") /\ NoneOf(rs, op, "ctrl")
                    /\ OnceOf(rest, op, "ctrl") /\ NoneOf(rs, op, "ctrl") => OnceOf(pending', op, "ctrl")
                    /\ NoneOf(rest, op, "ctrl") /\ OnceOf(rs, op, "ctrl") => OnceOf(pending', op, "ctrl")
         /\ \A op, next : /\ Before(toSrv, op, next) /\ Before(rs, op, next)
                          /\ NoneOf(toSrv, next, "ctrl") \/ NoneOf(rs, op, "ctrl")
                          => Before(toSrv', op, next)
         /\ \A k \in DOMAIN toSrv' :
               (\E m \in DOMAIN toSrv : toSrv'[k] = toSrv[m]) \/ (\E j \in DOMAIN rs : toSrv'[k] = rs[j])
         /\ \A k \in DOMAIN pending' :
               \/ \E m \in DOMAIN rest : pending'[k] = rest[m]
               \/ \E j \in DOMAIN rs : /\ pending'[k].op = rs[j].op /\ pending'[k].pipe = rs[j].pipe
                                       /\ pending'[k].fnum = rs[j].fnum
  <1>1. /\ toSrv \in Seq(Wired(account)) /\ toSrv' = toSrv \o rs /\ Asks(rest, rs) /\ pending' = rest \o Added(rs)
        /\ Adds(rs)
    BY SendAsks, SendAdds DEF Send, SendOn, ClientTypeOK
  <1>2. \A op : /\ NoneOf(toSrv, op, "ctrl") /\ NoneOf(rs, op, "ctrl") => NoneOf(toSrv', op, "ctrl")
                /\ OnceOf(toSrv, op, "ctrl") /\ NoneOf(rs, op, "ctrl") => OnceOf(toSrv', op, "ctrl")
                /\ NoneOf(toSrv, op, "ctrl") /\ OnceOf(rs, op, "ctrl") => OnceOf(toSrv', op, "ctrl")
                /\ NoneOf(toSrv', op, "ctrl") => NoneOf(toSrv, op, "ctrl") /\ NoneOf(rs, op, "ctrl")
    BY <1>1, ConcatOf
  <1>3. \A op : /\ NoneOf(rest, op, "ctrl") /\ NoneOf(rs, op, "ctrl") => NoneOf(pending', op, "ctrl")
                /\ OnceOf(rest, op, "ctrl") /\ NoneOf(rs, op, "ctrl") => OnceOf(pending', op, "ctrl")
                /\ NoneOf(rest, op, "ctrl") /\ OnceOf(rs, op, "ctrl") => OnceOf(pending', op, "ctrl")
                /\ NoneOf(pending', op, "ctrl") => NoneOf(rest, op, "ctrl") /\ NoneOf(rs, op, "ctrl")
    BY <1>1, AsksOf
  <1>4. \A op, next : /\ Before(toSrv, op, next) /\ Before(rs, op, next)
                      /\ NoneOf(toSrv, next, "ctrl") \/ NoneOf(rs, op, "ctrl")
                      => Before(toSrv', op, next)
    BY <1>1, BeforeMore
  <1>5. \A k \in DOMAIN toSrv' :
            (\E m \in DOMAIN toSrv : toSrv'[k] = toSrv[m]) \/ (\E j \in DOMAIN rs : toSrv'[k] = rs[j])
    BY <1>1, AddsElements
  <1>6. \A k \in DOMAIN pending' :
            \/ \E m \in DOMAIN rest : pending'[k] = rest[m]
            \/ \E j \in DOMAIN rs : /\ pending'[k].op = rs[j].op /\ pending'[k].pipe = rs[j].pipe
                                    /\ pending'[k].fnum = rs[j].fnum
    BY <1>1, AddedElements
  <1> QED BY <1>2, <1>3, <1>4, <1>5, <1>6

\* The oldest reply is taken.
LEMMA ReplyTaken ==
  ASSUME ClientTypeOK, NEW op, Popped(op, "ctrl")
  PROVE  /\ \A o : /\ NoneOf(toCli, o, "ctrl") => NoneOf(toCli', o, "ctrl")
                   /\ OnceOf(toCli, o, "ctrl") => OnceOf(toCli', o, "ctrl")
                   /\ o # op => (NoneOf(toCli', o, "ctrl") => NoneOf(toCli, o, "ctrl"))
                   /\ Before(toCli, o, op) => NoneOf(toCli, o, "ctrl")
         /\ OnceOf(toCli, op, "ctrl") => NoneOf(toCli', op, "ctrl")
         /\ ~NoneOf(toCli, op, "ctrl")
         /\ \A o, next : Before(toCli, o, next) => Before(toCli', o, next)
         /\ \A k \in DOMAIN toCli' : \E m \in DOMAIN toCli : m # 1 /\ toCli'[k] = toCli[m]
         /\ \A m \in DOMAIN toCli : m # 1 => \E k \in DOMAIN toCli' : toCli'[k] = toCli[m]
         /\ 1 \in DOMAIN toCli /\ Reply = toCli[1] /\ Is(toCli[1], op, "ctrl")
  <1>1. /\ toCli \in Seq(Replied) /\ toCli # <<>> /\ toCli' = Tail(toCli) /\ Is(Reply, op, "ctrl")
        /\ Reply = Head(toCli)
        /\ 1 \in DOMAIN toCli /\ Reply = toCli[1]
    BY PoppedReply DEF Popped, Reply
  <1>2. /\ DOMAIN toCli = 1..Len(toCli) /\ DOMAIN toCli' = 1..(Len(toCli) - 1) /\ Len(toCli) \in Nat
        /\ \A k \in DOMAIN toCli' : k + 1 \in DOMAIN toCli /\ toCli'[k] = toCli[k + 1]
    BY PoppedReply
  <1>3. \A o : /\ NoneOf(toCli, o, "ctrl") => NoneOf(toCli', o, "ctrl")
               /\ OnceOf(toCli, o, "ctrl") => OnceOf(toCli', o, "ctrl")
               /\ OnceOf(toCli, o, "ctrl") /\ Is(Reply, o, "ctrl") => NoneOf(toCli', o, "ctrl")
               /\ NoneOf(toCli', o, "ctrl") => NoneOf(toCli, o, "ctrl") \/ Is(Reply, o, "ctrl")
    BY <1>1, TailOf
  <1>4. \A o : Is(Reply, o, "ctrl") => o = op
    BY <1>1 DEF Is
  <1>5. \A o, next : Before(toCli, o, next) =>
            Before(toCli', o, next) /\ (Is(Reply, next, "ctrl") => NoneOf(toCli, o, "ctrl"))
    BY <1>1, BeforeTail
  <1>6. ~NoneOf(toCli, op, "ctrl")
    BY <1>1 DEF NoneOf
  <1>7. \A k \in DOMAIN toCli' : \E m \in DOMAIN toCli : m # 1 /\ toCli'[k] = toCli[m]
    <2> SUFFICES ASSUME NEW k \in DOMAIN toCli' PROVE \E m \in DOMAIN toCli : m # 1 /\ toCli'[k] = toCli[m]
      OBVIOUS
    <2>1. k + 1 # 1
      BY <1>2
    <2> QED BY <1>2, <2>1
  <1>8. \A m \in DOMAIN toCli : m # 1 => \E k \in DOMAIN toCli' : toCli'[k] = toCli[m]
    <2> SUFFICES ASSUME NEW m \in DOMAIN toCli, m # 1 PROVE \E k \in DOMAIN toCli' : toCli'[k] = toCli[m]
      OBVIOUS
    <2>1. m - 1 \in DOMAIN toCli' /\ (m - 1) + 1 = m
      BY <1>2
    <2> QED BY <1>2, <2>1
  <1> QED BY <1>1, <1>3, <1>4, <1>5, <1>6, <1>7, <1>8

\* What the service and the server keep when the client makes a step.
LEMMA RemoteSame ==
  ASSUME UNCHANGED Remote
  PROVE  /\ UNCHANGED <<inst, c2s, s2c, srvOpen, srvFnum, parked, svc, pc, cont, token, proc, pcode, ec, Loc>>
  BY DEF Remote, connVars, pipeVars, threadVars, srvVars, Loc

\* The control pipe was opened.
LEMMA CtrlOpenedFine ==
  ASSUME FineState, CtrlOpened, UNCHANGED Remote
  PROVE  CtrlFine'
  <1>1. /\ ClientTypeOK /\ Receive("open", TRUE) /\ Reply.pipe = "ctrl" /\ net = "up" /\ "ctrl" \in Pipe
        /\ NumberInv /\ RoundInv /\ ReadInv /\ GivenInv /\ srvFnum \in [Pipe -> Nat]
        /\ io_read \in [Pipe -> Nat] /\ io_write \in [Pipe -> Nat]
    BY DEF FineState, SessTypeOK, ClientTypeOK, ServerTypeOK, CtrlOpened, FineInv, Pipe, Stored, OnceInv
  <1>2. /\ Popped("open", "ctrl") /\ Reply = toCli[1] /\ 1 \in DOMAIN toCli /\ Is(toCli[1], "open", "ctrl")
        /\ mode = "loop"
        /\ Reply.fnum \in Nat /\ toCli[1].status = "ok" /\ Fewer(Rest(Reply), Reply) /\ Rest(Reply) \in Seq(Waiting)
    BY <1>1, Received DEF Receive, Popped, Is, Fewer, Less
  <1>3. /\ UNCHANGED <<account, mode>> /\ state' = "GETTING_VERSION" /\ codeSeen' = codeSeen
        /\ UNCHANGED <<inst, c2s, s2c, srvOpen, srvFnum, parked, svc, pc, cont, token, proc, pcode, ec, Loc>>
    BY RemoteSame DEF CtrlOpened, userVars
  <1>4. state = "OPENING" /\ NoneOf(toSrv, "open", "ctrl") /\ OnceOf(toCli, "open", "ctrl")
        /\ NoneUnderway("close", "ctrl")
    <2>1. ~NoneUnderway("open", "ctrl")
      BY <1>2 DEF NoneUnderway, NoneOf
    <2>2. state = "OPENING" /\ OneUnderway("open", "ctrl")
      BY <1>1, <2>1 DEF RoundInv
    <2>3. ~NoneOf(toCli, "open", "ctrl")
      BY <1>2 DEF NoneOf
    <2> QED BY <1>1, <2>2, <2>3 DEF OneUnderway, RoundInv, NoneUnderway
  <1>5. Reply.fnum = srvFnum["ctrl"] /\ io_read["ctrl"] = 0 /\ io_write["ctrl"] = 0
    BY <1>1, <1>2, <1>4 DEF NumberInv, Is, GivenInv, FineState, CtrlFine, FileInv
  <1>6. /\ Ready /\ c2s["ctrl"] = <<>> /\ s2c["ctrl"] = <<>> /\ NoneOf(toSrv, "read", "ctrl") /\ NoneWritten
        /\ NoneOf(toCli, "read", "ctrl") /\ NoneFetched /\ "ctrl" \notin parked
    <2>1. NoneOf(toCli, "read", "ctrl")
      BY <1>1, <1>2, <1>4, ReplyTaken DEF FineState, CtrlFine, OpeningInv
    <2> QED BY <1>1, <1>2, <1>4, <2>1 DEF FineState, CtrlFine, OpeningInv, TalkInv, ReadInv, QuietCtrl
  <1>7. NoneOf(pending, "read", "ctrl")
    BY <1>6 DEF FineState, CtrlFine, ReadingInv, NoneUnderway
  <1> DEFINE f == Reply.fnum
             w == async_write("ctrl", f, GetVersion)
             r == async_read("ctrl", f)
             rs == <<w, r>>
  <1>8. /\ Is(w, "write", "ctrl") /\ w.fnum = srvFnum["ctrl"] /\ w.items = GetVersion
        /\ Is(r, "read", "ctrl") /\ r.fnum = srvFnum["ctrl"]
        /\ io_read'["ctrl"] = srvFnum["ctrl"] /\ io_write'["ctrl"] = srvFnum["ctrl"]
    BY <1>1, <1>5 DEF CtrlOpened, ReadIssued, WriteIssued, async_write, async_read, Request, Cached, Is
  <1>9. w \in Wired(account) /\ r \in Wired(account) /\ Send(Rest(Reply), rs)
    BY <1>1, <1>2, OwnRequestType DEF CtrlOpened
  <1>10. rs \in Seq(Wired(account)) /\ DOMAIN rs = {1, 2} /\ rs[1] = w /\ rs[2] = r
    BY <1>9
  <1> HIDE DEF f, w, r, rs
  <1>11. /\ \A op : op \notin {"read", "write"} => NoneOf(rs, op, "ctrl")
         /\ OnceOf(rs, "read", "ctrl") /\ OnceOf(rs, "write", "ctrl") /\ ~NoneOf(rs, "read", "ctrl")
    BY <1>8, <1>10 DEF NoneOf, OnceOf, Is
  <1>12. /\ \A k \in DOMAIN toSrv' :
               (\E m \in DOMAIN toSrv : toSrv'[k] = toSrv[m]) \/ (\E j \in DOMAIN rs : toSrv'[k] = rs[j])
         /\ \A k \in DOMAIN pending' :
               \/ \E m \in DOMAIN Rest(Reply) : pending'[k] = Rest(Reply)[m]
               \/ \E j \in DOMAIN rs : /\ pending'[k].op = rs[j].op /\ pending'[k].pipe = rs[j].pipe
                                       /\ pending'[k].fnum = rs[j].fnum
         /\ NoneOf(toSrv', "open", "ctrl") /\ OnceOf(toSrv', "read", "ctrl") /\ OnceOf(toSrv', "write", "ctrl")
         /\ ~NoneOf(toSrv', "read", "ctrl")
    <2>1. /\ \A op : /\ NoneOf(toSrv', op, "ctrl") <=> NoneOf(toSrv, op, "ctrl") /\ NoneOf(rs, op, "ctrl")
                     /\ NoneOf(toSrv, op, "ctrl") /\ OnceOf(rs, op, "ctrl") => OnceOf(toSrv', op, "ctrl")
          /\ \A k \in DOMAIN toSrv' :
                (\E m \in DOMAIN toSrv : toSrv'[k] = toSrv[m]) \/ (\E j \in DOMAIN rs : toSrv'[k] = rs[j])
          /\ \A k \in DOMAIN pending' :
                \/ \E m \in DOMAIN Rest(Reply) : pending'[k] = Rest(Reply)[m]
                \/ \E j \in DOMAIN rs : /\ pending'[k].op = rs[j].op /\ pending'[k].pipe = rs[j].pipe
                                        /\ pending'[k].fnum = rs[j].fnum
      BY <1>1, <1>2, <1>9, <1>10, RequestsMade
    <2> QED BY <1>4, <1>6, <1>11, <2>1 DEF NoneWritten
  <1>13. /\ NoneOf(toCli', "open", "ctrl") /\ NoneOf(toCli', "read", "ctrl")
         /\ \A k \in DOMAIN toCli' : \E m \in DOMAIN toCli : m # 1 /\ toCli'[k] = toCli[m]
    BY <1>1, <1>2, <1>4, <1>6, ReplyTaken
  <1>14. NoneOf(Rest(Reply), "read", "ctrl")
    BY <1>2, <1>7 DEF Fewer, Less
  <1>15. OnceOf(pending', "read", "ctrl") /\ ~NoneOf(pending', "read", "ctrl")
    BY <1>1, <1>2, <1>9, <1>10, <1>11, <1>14, RequestsMade
  <1>16. \A k \in DOMAIN pending' : Is(pending'[k], "read", "ctrl") => pending'[k].fnum = srvFnum["ctrl"]
    BY <1>8, <1>10, <1>12, <1>14 DEF Is, NoneOf
  <1>17. NoneFetched'
    BY <1>13 DEF NoneFetched, Fetched, OnCtrl, NoneOf, Is
  <1>18. TalkInv'
    <2>1. \A i \in DOMAIN toSrv' : Is(toSrv'[i], "write", "ctrl") =>
              toSrv'[i].fnum = srvFnum["ctrl"] /\ toSrv'[i].items = GetVersion
      BY <1>6, <1>8, <1>10, <1>12 DEF NoneWritten, NoneOf, Is
    <2>2. \A i \in DOMAIN toCli' : Is(toCli'[i], "write", "ctrl") => toCli'[i].status = "ok"
      BY <1>13 DEF FineState, CtrlFine, TalkInv
    <2>3. Ready'
      BY <1>3, <1>6 DEF Ready
    <2> QED BY <1>3, <1>6, <1>12, <1>17, <2>1, <2>2, <2>3 DEF TalkInv, Silent
  <1>19. OpeningInv' /\ ClosingInv'
    BY <1>3, <1>12, <1>13, NotOpening, NotClosing DEF NoneUnderway
  <1>20. ReadingInv'
    <2>1. \A i \in DOMAIN toSrv' : Is(toSrv'[i], "read", "ctrl") => toSrv'[i].fnum = srvFnum["ctrl"]
      BY <1>6, <1>8, <1>10, <1>12 DEF NoneOf, Is
    <2>2. "ctrl" \in srvOpen' /\ "ctrl" \notin parked'
      BY <1>3, <1>6 DEF Ready
    <2>3. \A i \in DOMAIN toCli' : ~Is(toCli'[i], "read", "ctrl") /\ ~Fetched(i)'
      BY <1>13, <1>17 DEF NoneOf, NoneFetched
    <2>4. OneUnderway("read", "ctrl")' /\ ~NoneUnderway("read", "ctrl")'
      BY <1>12, <1>13 DEF OneUnderway, NoneUnderway, NoneOf, OnceOf
    <2> QED BY <1>3, <1>15, <1>16, <2>1, <2>2, <2>3, <2>4 DEF ReadingInv
  <1>21. FileInv' /\ PathInv'
    BY <1>2, <1>3, <1>8 DEF FileInv, PathInv, FineState, CtrlFine
  <1> QED BY <1>18, <1>19, <1>20, <1>21 DEF CtrlFine

\* A message was read from it.
LEMMA MessageGot ==
  ASSUME FineState, NEW type, CtrlRead(type), UNCHANGED Remote
  PROVE  /\ ClientTypeOK /\ net = "up" /\ mode = "loop" /\ UNCHANGED <<account, mode, fd>>
         /\ UNCHANGED <<inst, c2s, s2c, srvOpen, srvFnum, parked, svc, pc, cont, token, proc, pcode, ec, Loc>>
         /\ Popped("read", "ctrl") /\ state \in {"GETTING_VERSION", "RUNNING"} /\ Reply = toCli[1] /\ Fetched(1)
         /\ DOMAIN toCli[1].data = {1} /\ toCli[1].data[1].type = type
         /\ Rest(Reply) \in Seq(Waiting) /\ NoneOf(Rest(Reply), "read", "ctrl")
         /\ NoneOf(Rest(Reply), "close", "ctrl")
         /\ NoneUnderway("open", "ctrl") /\ NoneUnderway("close", "ctrl")
         /\ fd["ctrl"] = srvFnum["ctrl"] /\ io_read'["ctrl"] = srvFnum["ctrl"] /\ srvFnum["ctrl"] \in Nat
         /\ NextRead \in Wired(account) /\ Is(NextRead, "read", "ctrl") /\ NextRead.fnum = srvFnum["ctrl"]
         /\ NoneOf(toSrv, "read", "ctrl") /\ NoneOf(toCli', "read", "ctrl") /\ "ctrl" \notin parked /\ NoneFetched'
         /\ "ctrl" \in srvOpen
         /\ state = "GETTING_VERSION" => NoneWritten /\ c2s["ctrl"] = <<>> /\ Ready
  <1>1. /\ ClientTypeOK /\ net = "up" /\ SessTypeOK /\ ReadInv /\ VersionInv /\ NumberInv /\ RoundInv
        /\ "ctrl" \in Pipe
        /\ io_read \in [Pipe -> Nat] /\ fd \in [Pipe -> Nat] /\ srvFnum \in [Pipe -> Nat]
    BY DEF FineState, SessTypeOK, ClientTypeOK, ServerTypeOK, FineInv, OnceInv, Stored, Pipe
  <1>2. /\ mode = "loop" /\ state \in {"GETTING_VERSION", "RUNNING"} /\ Popped("read", "ctrl") /\ Reply = toCli[1]
        /\ UNCHANGED <<account, mode>> /\ Fetched(1) /\ 1 \in DOMAIN toCli /\ 1 \in DOMAIN toCli[1].data
        /\ toCli[1].data[1].type = type /\ UNCHANGED fd
    BY <1>1, MessageTaken DEF CtrlRead
  <1>3. UNCHANGED <<inst, c2s, s2c, srvOpen, srvFnum, parked, svc, pc, cont, token, proc, pcode, ec, Loc>>
    BY RemoteSame
  <1>4. ReadingInv /\ TalkInv /\ FileInv
    BY DEF FineState, CtrlFine
  <1>5. Receive("read", TRUE) /\ ReadIssued("ctrl", fd["ctrl"])
    BY DEF CtrlRead
  <1>6. Fewer(Rest(Reply), Reply) /\ Rest(Reply) \in Seq(Waiting) /\ Is(Reply, "read", "ctrl")
    BY <1>1, <1>2, <1>5, Received DEF Fewer, Less, Popped
  <1>7. NoneUnderway("open", "ctrl") /\ NoneUnderway("close", "ctrl") /\ NoneOf(pending, "close", "ctrl")
    BY <1>1, <1>2 DEF RoundInv, NoneUnderway
  <1>8. NoneOf(Rest(Reply), "read", "ctrl") /\ NoneOf(Rest(Reply), "close", "ctrl")
    BY <1>4, <1>6, <1>7 DEF Fewer, Less, ReadingInv
  <1>9. fd["ctrl"] = srvFnum["ctrl"]
    BY <1>1, <1>7 DEF NumberInv, NoneUnderway
  <1>10. /\ io_read'["ctrl"] = srvFnum["ctrl"] /\ Is(NextRead, "read", "ctrl") /\ NextRead.fnum = srvFnum["ctrl"]
         /\ srvFnum["ctrl"] \in Nat
    BY <1>1, <1>2, <1>4, <1>5, <1>9 DEF FileInv, ReadIssued, NextRead, async_read, Request, Cached, Is
  <1>11. NextRead \in Wired(account)
    BY <1>1, OwnRequestType DEF NextRead
  <1>12. ~NoneOf(toCli, "read", "ctrl") /\ OnceOf(toCli, "read", "ctrl") /\ NoneOf(toSrv, "read", "ctrl")
         /\ "ctrl" \notin parked
    <2>1. ~NoneOf(toCli, "read", "ctrl")
      BY <1>2, <1>6 DEF NoneOf
    <2> QED BY <1>4, <2>1 DEF ReadingInv, OneUnderway, NoneUnderway
  <1>13. NoneOf(toCli', "read", "ctrl")
    BY <1>1, <1>2, <1>12, ReplyTaken
  <1>14. NoneFetched'
    BY <1>13 DEF NoneFetched, Fetched, OnCtrl, NoneOf, Is
  <1>15. state = "GETTING_VERSION" => NoneWritten /\ c2s["ctrl"] = <<>> /\ Ready
    BY <1>2, <1>4 DEF TalkInv, Silent, NoneFetched
  <1>16. DOMAIN toCli[1].data = {1} /\ "ctrl" \in srvOpen
    BY <1>2, <1>4 DEF ReadingInv
  <1> QED BY <1>1, <1>2, <1>3, <1>6, <1>7, <1>8, <1>9, <1>10, <1>11, <1>12, <1>13, <1>14, <1>15, <1>16

\* The client reads on, with its command sent.
LEMMA ReadsOn ==
  ASSUME FineState, NEW type, type # "return_code", CtrlRead(type), UNCHANGED Remote, UNCHANGED codeSeen,
         NEW rs \in Seq(Wired(account)), Send(Rest(Reply), rs), state' = "RUNNING",
         NEW c \in DOMAIN rs, rs[c] = NextRead,
         \A j \in DOMAIN rs : Is(rs[j], "read", "ctrl") => j = c,
         NoneOf(rs, "open", "ctrl"), NoneOf(rs, "close", "ctrl"), OnceOf(rs, "write", "ctrl"),
         state = "RUNNING" => NoneOf(rs, "write", "ctrl"),
         \A j \in DOMAIN rs : Is(rs[j], "write", "ctrl") =>
            rs[j].fnum = srvFnum["ctrl"] /\ rs[j].items = RunCommandOf(account),
         io_write'["ctrl"] \in {io_write["ctrl"], srvFnum["ctrl"]}
  PROVE  CtrlFine'
  <1>1. /\ ClientTypeOK /\ net = "up" /\ mode = "loop" /\ UNCHANGED <<account, mode, fd>>
        /\ UNCHANGED <<inst, c2s, s2c, srvOpen, srvFnum, parked, svc, pc, cont, token, proc, pcode, ec, Loc>>
        /\ Popped("read", "ctrl") /\ state \in {"GETTING_VERSION", "RUNNING"}
        /\ DOMAIN toCli[1].data = {1} /\ toCli[1].data[1].type = type
        /\ Rest(Reply) \in Seq(Waiting) /\ NoneOf(Rest(Reply), "read", "ctrl")
        /\ NoneUnderway("open", "ctrl")
        /\ io_read'["ctrl"] = srvFnum["ctrl"]
        /\ Is(NextRead, "read", "ctrl") /\ NextRead.fnum = srvFnum["ctrl"]
        /\ NoneOf(toSrv, "read", "ctrl") /\ NoneOf(toCli', "read", "ctrl") /\ "ctrl" \notin parked /\ NoneFetched'
        /\ "ctrl" \in srvOpen
        /\ state = "GETTING_VERSION" => NoneWritten /\ c2s["ctrl"] = <<>> /\ Ready
    BY MessageGot
  <1>2. TalkInv /\ ReadingInv /\ FileInv /\ PathInv
    BY DEF FineState, CtrlFine
  <1>3. OnceOf(rs, "read", "ctrl") /\ ~NoneOf(rs, "read", "ctrl")
    BY <1>1 DEF OnceOf, NoneOf
  <1>4. /\ \A op : /\ NoneOf(toSrv', op, "ctrl") <=> NoneOf(toSrv, op, "ctrl") /\ NoneOf(rs, op, "ctrl")
                   /\ OnceOf(toSrv, op, "ctrl") /\ NoneOf(rs, op, "ctrl") => OnceOf(toSrv', op, "ctrl")
                   /\ NoneOf(toSrv, op, "ctrl") /\ OnceOf(rs, op, "ctrl") => OnceOf(toSrv', op, "ctrl")
                   /\ NoneOf(pending', op, "ctrl") <=> NoneOf(Rest(Reply), op, "ctrl") /\ NoneOf(rs, op, "ctrl")
                   /\ NoneOf(Rest(Reply), op, "ctrl") /\ OnceOf(rs, op, "ctrl") => OnceOf(pending', op, "ctrl")
        /\ \A k \in DOMAIN toSrv' :
              (\E m \in DOMAIN toSrv : toSrv'[k] = toSrv[m]) \/ (\E j \in DOMAIN rs : toSrv'[k] = rs[j])
        /\ \A k \in DOMAIN pending' :
              \/ \E m \in DOMAIN Rest(Reply) : pending'[k] = Rest(Reply)[m]
              \/ \E j \in DOMAIN rs : /\ pending'[k].op = rs[j].op /\ pending'[k].pipe = rs[j].pipe
                                      /\ pending'[k].fnum = rs[j].fnum
    BY <1>1, RequestsMade
  <1>5. /\ \A o : NoneOf(toCli, o, "ctrl") => NoneOf(toCli', o, "ctrl")
        /\ \A k \in DOMAIN toCli' : \E m \in DOMAIN toCli : m # 1 /\ toCli'[k] = toCli[m]
        /\ \A m \in DOMAIN toCli : m # 1 => \E k \in DOMAIN toCli' : toCli'[k] = toCli[m]
    BY <1>1, ReplyTaken
  <1>6. TalkInv'
    <2>1. Ready' = Ready
      BY <1>1 DEF Ready
    <2>2. ASSUME NEW i \in DOMAIN toSrv', Is(toSrv'[i], "write", "ctrl")
          PROVE  Ready' /\ toSrv'[i].fnum = srvFnum["ctrl"] /\ toSrv'[i].items = RunCommandOf(account)
      <3>1. CASE state = "RUNNING"
        BY <1>2, <1>4, <2>1, <2>2, <3>1 DEF TalkInv, NoneOf
      <3>2. CASE state = "GETTING_VERSION"
        BY <1>1, <1>4, <2>1, <2>2, <3>2 DEF NoneWritten, NoneOf
      <3> QED BY <1>1, <3>1, <3>2
    <2>3. \A i \in DOMAIN toCli' : Is(toCli'[i], "write", "ctrl") => toCli'[i].status = "ok"
      BY <1>2, <1>5 DEF TalkInv
    <2>4. OnceOf(toSrv', "write", "ctrl")
      BY <1>1, <1>2, <1>4 DEF TalkInv, NoneWritten
    <2>5. /\ c2s'["ctrl"] \in {<<>>, RunCommandOf(account), Tail(RunCommandOf(account))}
          /\ NoneWritten' \/ c2s'["ctrl"] = <<>>
      BY <1>1, <1>2, <1>4 DEF TalkInv, NoneWritten
    <2> QED BY <1>1, <2>2, <2>3, <2>4, <2>5 DEF TalkInv
  <1>7. OpeningInv' /\ ClosingInv'
    BY <1>1, <1>4, <1>5, NotOpening, NotClosing DEF NoneUnderway
  <1>8. ReadingInv'
    <2>1. \A i \in DOMAIN toSrv' : Is(toSrv'[i], "read", "ctrl") => toSrv'[i].fnum = srvFnum["ctrl"]
      BY <1>1, <1>4 DEF NoneOf
    <2>2. \A i \in DOMAIN toCli' : ~Is(toCli'[i], "read", "ctrl") /\ ~Fetched(i)'
      BY <1>1 DEF NoneOf, NoneFetched
    <2>3. \A k \in DOMAIN pending' : Is(pending'[k], "read", "ctrl") => pending'[k].fnum = srvFnum["ctrl"]
      BY <1>1, <1>4 DEF NoneOf, Is
    <2>4. OnceOf(pending', "read", "ctrl") /\ ~NoneOf(pending', "read", "ctrl")
      BY <1>1, <1>3, <1>4
    <2>5. OneUnderway("read", "ctrl")' /\ ~NoneUnderway("read", "ctrl")'
      BY <1>1, <1>3, <1>4, <2>2 DEF OneUnderway, NoneUnderway, NoneOf, OnceOf
    <2> QED BY <1>1, <2>1, <2>2, <2>3, <2>4, <2>5 DEF ReadingInv
  <1>9. FileInv'
    BY <1>1, <1>2 DEF FileInv
  <1>10. PathInv'
    <2>1. CASE state = "GETTING_VERSION"
      BY <1>1, <1>2, <2>1 DEF PathInv, Ready, Released, ReleaseLabels
    <2>2. CASE state = "RUNNING"
      <3>1. ~Coder(1)
        BY <1>1 DEF Coder, Mentions
      <3>2. (\E i \in DOMAIN toCli : Coder(i)) => \E i \in DOMAIN toCli' : Coder(i)'
        <4> SUFFICES ASSUME NEW i \in DOMAIN toCli, Coder(i) PROVE \E k \in DOMAIN toCli' : Coder(k)'
          OBVIOUS
        <4>1. PICK k \in DOMAIN toCli' : toCli'[k] = toCli[i]
          BY <1>5, <3>1
        <4> QED BY <4>1 DEF Coder, Fetched
      <3> QED BY <1>1, <1>2, <2>2, <3>2 DEF PathInv, CodeDue
    <2> QED BY <1>1, <2>1, <2>2
  <1> QED BY <1>6, <1>7, <1>8, <1>9, <1>10 DEF CtrlFine

\* It closes the pipe, for another service.
LEMMA CloseStarts ==
  ASSUME FineState, NEW type, CtrlRead(type), UNCHANGED Remote, CloseForReinstall, state = "GETTING_VERSION"
  PROVE  CtrlFine'
  <1>1. /\ ClientTypeOK /\ net = "up" /\ mode = "loop" /\ UNCHANGED <<account, mode, fd>>
        /\ UNCHANGED <<inst, c2s, s2c, srvOpen, srvFnum, parked, svc, pc, cont, token, proc, pcode, ec, Loc>>
        /\ Popped("read", "ctrl")
        /\ Rest(Reply) \in Seq(Waiting) /\ NoneOf(Rest(Reply), "read", "ctrl") /\ NoneOf(Rest(Reply), "close", "ctrl")
        /\ NoneUnderway("open", "ctrl") /\ NoneUnderway("close", "ctrl")
        /\ fd["ctrl"] = srvFnum["ctrl"] /\ io_read'["ctrl"] = srvFnum["ctrl"]
        /\ NextRead \in Wired(account) /\ Is(NextRead, "read", "ctrl") /\ NextRead.fnum = srvFnum["ctrl"]
        /\ NoneOf(toSrv, "read", "ctrl") /\ NoneOf(toCli', "read", "ctrl") /\ "ctrl" \notin parked /\ NoneFetched'
        /\ NoneWritten /\ Ready
    BY MessageGot
  <1>2. TalkInv /\ ReadingInv /\ FileInv /\ PathInv
    BY DEF FineState, CtrlFine
  <1> DEFINE x == async_close("ctrl")
             rs == <<x, NextRead>>
             rest == Rest(Reply)
  <1>3. Is(x, "close", "ctrl") /\ x.fnum = srvFnum["ctrl"] /\ x \in Wired(account)
    <2>1. x \in Wired(account)
      BY <1>1, OwnRequestType DEF Pipe
    <2> QED BY <1>1, <2>1 DEF async_close, Request, Is
  <1>4. /\ rs \in Seq(Wired(account)) /\ DOMAIN rs = {1, 2} /\ rs[1] = x /\ rs[2] = NextRead /\ Send(rest, rs)
        /\ state' = "CLOSING_FOR_REINSTALL" /\ io_write' = io_write /\ codeSeen' = codeSeen
    BY <1>1, <1>3 DEF CloseForReinstall, userVars
  <1>5. rest \in Seq(Waiting) /\ NoneOf(rest, "read", "ctrl") /\ NoneOf(rest, "close", "ctrl")
    BY <1>1
  <1> HIDE DEF x, rs, rest
  <1>6. /\ \A op : op \notin {"read", "close"} => NoneOf(rs, op, "ctrl")
        /\ OnceOf(rs, "read", "ctrl") /\ ~NoneOf(rs, "read", "ctrl") /\ ~NoneOf(rs, "close", "ctrl")
        /\ Before(rs, "close", "read")
        /\ \A j \in DOMAIN rs : rs[j].fnum = srvFnum["ctrl"]
    BY <1>1, <1>3, <1>4 DEF NoneOf, OnceOf, Is, Before
  <1>7. /\ \A op : /\ NoneOf(toSrv', op, "ctrl") <=> NoneOf(toSrv, op, "ctrl") /\ NoneOf(rs, op, "ctrl")
                   /\ OnceOf(toSrv, op, "ctrl") /\ NoneOf(rs, op, "ctrl") => OnceOf(toSrv', op, "ctrl")
                   /\ NoneOf(toSrv, op, "ctrl") /\ OnceOf(rs, op, "ctrl") => OnceOf(toSrv', op, "ctrl")
                   /\ NoneOf(pending', op, "ctrl") <=> NoneOf(rest, op, "ctrl") /\ NoneOf(rs, op, "ctrl")
                   /\ NoneOf(rest, op, "ctrl") /\ OnceOf(rs, op, "ctrl") => OnceOf(pending', op, "ctrl")
        /\ \A k \in DOMAIN toSrv' :
              (\E m \in DOMAIN toSrv : toSrv'[k] = toSrv[m]) \/ (\E j \in DOMAIN rs : toSrv'[k] = rs[j])
        /\ \A k \in DOMAIN pending' :
              \/ \E m \in DOMAIN rest : pending'[k] = rest[m]
              \/ \E j \in DOMAIN rs : /\ pending'[k].op = rs[j].op /\ pending'[k].pipe = rs[j].pipe
                                      /\ pending'[k].fnum = rs[j].fnum
    BY <1>1, <1>4, <1>5, RequestsMade
  <1>8. Before(toSrv', "close", "read")
    <2>1. \A op, next : /\ Before(toSrv, op, next) /\ Before(rs, op, next)
                        /\ NoneOf(toSrv, next, "ctrl") \/ NoneOf(rs, op, "ctrl")
                        => Before(toSrv', op, next)
      BY <1>1, <1>4, <1>5, RequestsMade
    <2>2. Before(toSrv, "close", "read")
      BY <1>1, BeforeNone
    <2> QED BY <1>1, <1>6, <2>1, <2>2
  <1>9. /\ \A o : NoneOf(toCli, o, "ctrl") => NoneOf(toCli', o, "ctrl")
        /\ \A k \in DOMAIN toCli' : \E m \in DOMAIN toCli : m # 1 /\ toCli'[k] = toCli[m]
    BY <1>1, ReplyTaken
  <1>10. NoneOf(toSrv', "write", "ctrl")
    BY <1>1, <1>6, <1>7 DEF NoneWritten
  <1>11. TalkInv'
    <2>1. \A i \in DOMAIN toCli' : Is(toCli'[i], "write", "ctrl") => toCli'[i].status = "ok"
      BY <1>2, <1>9 DEF TalkInv
    <2>2. NoneWritten' /\ OnceOf(toSrv', "write", "ctrl")
      BY <1>10 DEF NoneWritten, NoneOf, OnceOf
    <2> QED BY <1>4, <1>10, <2>1, <2>2 DEF TalkInv, NoneOf
  <1>12. OpeningInv'
    BY <1>1, <1>4, <1>6, <1>7, <1>9, NotOpening DEF NoneUnderway
  <1>13. ReadingInv'
    <2>1. \A i \in DOMAIN toSrv' : Is(toSrv'[i], "read", "ctrl") => toSrv'[i].fnum = srvFnum["ctrl"]
      BY <1>1, <1>6, <1>7 DEF NoneOf
    <2>2. \A i \in DOMAIN toCli' : ~Is(toCli'[i], "read", "ctrl") /\ ~Fetched(i)'
      BY <1>1 DEF NoneOf, NoneFetched
    <2>3. \A k \in DOMAIN pending' : Is(pending'[k], "read", "ctrl") => pending'[k].fnum = srvFnum["ctrl"]
      BY <1>5, <1>6, <1>7 DEF NoneOf, Is
    <2>4. OnceOf(pending', "read", "ctrl") /\ ~NoneOf(pending', "read", "ctrl")
      BY <1>5, <1>6, <1>7
    <2>5. OneUnderway("read", "ctrl")' /\ ~NoneUnderway("read", "ctrl")'
      BY <1>1, <1>6, <1>7, <2>2 DEF OneUnderway, NoneUnderway, NoneOf, OnceOf
    <2> QED BY <1>1, <1>4, <2>1, <2>2, <2>3, <2>4, <2>5 DEF ReadingInv
  <1>14. ClosingInv'
    <2>1. NoneOf(toCli', "close", "ctrl") /\ Before(toCli', "close", "read")
      BY <1>1, <1>9, BeforeNone DEF NoneUnderway
    <2>2. ~NoneOf(toSrv', "close", "ctrl") /\ ~NoneOf(pending', "close", "ctrl")
      BY <1>6, <1>7
    <2>3. \A k \in DOMAIN pending' : Is(pending'[k], "close", "ctrl") => pending'[k].fnum = srvFnum["ctrl"]
      BY <1>5, <1>6, <1>7 DEF NoneOf, Is
    <2> QED BY <1>1, <1>8, <2>1, <2>2, <2>3 DEF ClosingInv, NoneOf
  <1>15. FileInv' /\ PathInv'
    BY <1>1, <1>2, <1>4 DEF FileInv, PathInv
  <1> QED BY <1>11, <1>12, <1>13, <1>14, <1>15 DEF CtrlFine

\* The streams are opened, and the control pipe is read on.
LEMMA StdIoFine ==
  ASSUME FineState, OnStdIoErr, UNCHANGED Remote
  PROVE  CtrlFine' /\ codeSeen' = codeSeen
  <1>1. /\ ClientTypeOK /\ SessTypeOK /\ CtrlRead("std_io_err") /\ Reply = toCli[1] /\ Fetched(1)
        /\ 1 \in DOMAIN toCli
        /\ DOMAIN toCli[1].data = {1} /\ toCli[1].data[1].type = "std_io_err"
        /\ state \in {"GETTING_VERSION", "RUNNING"}
        /\ NextRead \in Wired(account) /\ Is(NextRead, "read", "ctrl")
    <2>1. CtrlRead("std_io_err")
      BY DEF OnStdIoErr
    <2>2. /\ ClientTypeOK /\ Reply = toCli[1] /\ Fetched(1) /\ state \in {"GETTING_VERSION", "RUNNING"}
          /\ DOMAIN toCli[1].data = {1} /\ toCli[1].data[1].type = "std_io_err" /\ Popped("read", "ctrl")
          /\ NextRead \in Wired(account) /\ Is(NextRead, "read", "ctrl")
      BY <2>1, MessageGot
    <2>3. 1 \in DOMAIN toCli
      BY <2>2, PoppedReply
    <2> QED BY <2>1, <2>2, <2>3 DEF FineState
  <1>2. state = "RUNNING"
    <2>1. Teller(1)
      BY <1>1 DEF Teller, Tells, Fetched
    <2> QED BY <1>1, <2>1 DEF FineState, Stored, TellInv, NoneTells
  <1> DEFINE x == async_open("in")
             y == async_open("out")
             z == async_open("err")
             rs == <<x, y, z, NextRead>>
  <1>3. x \in Wired(account) /\ y \in Wired(account) /\ z \in Wired(account)
    <2>1. 0 \in Nat /\ "in" \in Pipe /\ "out" \in Pipe /\ "err" \in Pipe
      BY DEF Pipe
    <2> QED BY <1>1, <2>1, OwnRequestType
  <1>4. /\ rs \in Seq(Wired(account)) /\ DOMAIN rs = 1..4 /\ rs[1] = x /\ rs[2] = y /\ rs[3] = z /\ rs[4] = NextRead
        /\ Send(Rest(Reply), rs) /\ UNCHANGED codeSeen /\ state' = "RUNNING" /\ io_write' = io_write
    BY <1>1, <1>2, <1>3 DEF OnStdIoErr, userVars
  <1>5. x.pipe # "ctrl" /\ y.pipe # "ctrl" /\ z.pipe # "ctrl"
    BY DEF async_open, Request
  <1> HIDE DEF x, y, z, rs
  <1>6. \A j \in DOMAIN rs : j = 4 \/ rs[j].pipe # "ctrl"
    BY <1>4, <1>5
  <1>7. /\ \A j \in DOMAIN rs : Is(rs[j], "read", "ctrl") => j = 4
        /\ \A op : op # "read" => NoneOf(rs, op, "ctrl")
        /\ 4 \in DOMAIN rs
    BY <1>1, <1>4, <1>6 DEF NoneOf, Is
  <1>8. /\ NoneOf(rs, "open", "ctrl") /\ NoneOf(rs, "close", "ctrl") /\ NoneOf(rs, "write", "ctrl")
        /\ OnceOf(rs, "write", "ctrl")
        /\ \A j \in DOMAIN rs : Is(rs[j], "write", "ctrl") =>
              rs[j].fnum = srvFnum["ctrl"] /\ rs[j].items = RunCommandOf(account)
    BY <1>7 DEF NoneOf, OnceOf
  <1>9. CtrlFine'
    BY <1>1, <1>4, <1>7, <1>8, ReadsOn
  <1> QED BY <1>4, <1>9

\* The command is sent to a service of this version.
LEMMA VersionFine ==
  ASSUME FineState, OnVersion, UNCHANGED Remote
  PROVE  CtrlFine' /\ codeSeen' = codeSeen
  <1>1. /\ ClientTypeOK /\ CtrlRead("version") /\ Reply = toCli[1] /\ Fetched(1) /\ 1 \in DOMAIN toCli
        /\ DOMAIN toCli[1].data = {1} /\ toCli[1].data[1].type = "version"
        /\ state \in {"GETTING_VERSION", "RUNNING"} /\ fd["ctrl"] = srvFnum["ctrl"] /\ srvFnum["ctrl"] \in Nat
        /\ NextRead \in Wired(account) /\ Is(NextRead, "read", "ctrl")
    <2>1. CtrlRead("version")
      BY DEF OnVersion
    <2>2. /\ ClientTypeOK /\ Reply = toCli[1] /\ Fetched(1) /\ state \in {"GETTING_VERSION", "RUNNING"}
          /\ DOMAIN toCli[1].data = {1} /\ toCli[1].data[1].type = "version" /\ Popped("read", "ctrl")
          /\ NextRead \in Wired(account) /\ Is(NextRead, "read", "ctrl")
          /\ fd["ctrl"] = srvFnum["ctrl"] /\ srvFnum["ctrl"] \in Nat
      BY <2>1, MessageGot
    <2>3. 1 \in DOMAIN toCli
      BY <2>2, PoppedReply
    <2> QED BY <2>1, <2>2, <2>3 DEF FineState
  <1>2. state = "GETTING_VERSION"
    <2>1. Versioned(1)
      BY <1>1 DEF Versioned, Mentions
    <2>2. Up
      BY DEF FineState, FineInv, Up
    <2> QED BY <1>1, <2>1, <2>2 DEF FineState, RunInv, AskInv, NoneVersion
  <1> DEFINE w == async_write("ctrl", fd["ctrl"], RunCommand)
             rs == <<w, NextRead>>
  <1>3. Is(w, "write", "ctrl") /\ w.fnum = srvFnum["ctrl"] /\ w.items = RunCommandOf(account)
    <2>1. io_write["ctrl"] \in {0, srvFnum["ctrl"]}
      BY <1>2 DEF FineState, CtrlFine, FileInv
    <2> QED BY <1>1, <2>1 DEF async_write, Request, Cached, Is, RunCommand
  <1>4. io_write'["ctrl"] = w.fnum
    <2>1. io_write \in [Pipe -> Nat] /\ "ctrl" \in Pipe
      BY <1>1 DEF ClientTypeOK, Pipe
    <2> QED BY <2>1 DEF OnVersion, WriteIssued, async_write, Request
  <1>5. w \in Wired(account)
    <2>1. "ctrl" \in Pipe
      BY DEF Pipe
    <2> QED BY <1>1, <2>1, OwnRequestType DEF RunCommand
  <1>6. /\ rs \in Seq(Wired(account)) /\ DOMAIN rs = {1, 2} /\ rs[1] = w /\ rs[2] = NextRead
        /\ Send(Rest(Reply), rs) /\ UNCHANGED codeSeen /\ state' = "RUNNING"
    BY <1>1, <1>5 DEF OnVersion, userVars
  <1> HIDE DEF w, rs
  <1>7. /\ \A j \in DOMAIN rs : Is(rs[j], "read", "ctrl") => j = 2
        /\ \A j \in DOMAIN rs : Is(rs[j], "write", "ctrl") => j = 1
        /\ NoneOf(rs, "open", "ctrl") /\ NoneOf(rs, "close", "ctrl") /\ 2 \in DOMAIN rs
    BY <1>1, <1>3, <1>6 DEF NoneOf, Is
  <1>8. /\ OnceOf(rs, "write", "ctrl")
        /\ \A j \in DOMAIN rs : Is(rs[j], "write", "ctrl") =>
              rs[j].fnum = srvFnum["ctrl"] /\ rs[j].items = RunCommandOf(account)
    BY <1>3, <1>6, <1>7 DEF OnceOf
  <1>9. CtrlFine'
    BY <1>1, <1>2, <1>3, <1>4, <1>6, <1>7, <1>8, ReadsOn
  <1> QED BY <1>6, <1>9

\* A service that has memory says nothing else.
LEMMA NothingUnknown ==
  ASSUME FineState
  PROVE  ~OnUnknown
  BY MessageFetched DEF FineState, OnceInv, Smooth, OnUnknown

\* An old service is replaced; other errors are read past.
LEMMA ErrorFine ==
  ASSUME FineState, OnServiceError \/ OnBadVersion, UNCHANGED Remote
  PROVE  CtrlFine' /\ codeSeen' = codeSeen
  <1>1. PICK type : type \in {"error", "version"} /\ CtrlRead(type)
    BY DEF OnServiceError, OnBadVersion
  <1>2. CASE state = "GETTING_VERSION"
    <2>1. CloseForReinstall
      BY <1>2 DEF OnServiceError, OnBadVersion
    <2> QED BY <1>1, <1>2, <2>1, CloseStarts DEF CloseForReinstall, userVars
  <1>3. CASE state # "GETTING_VERSION"
    <2>1. OnServiceError /\ CtrlRead("error")
      BY <1>3, BadVersionGetting DEF FineState, OnceInv, OnServiceError
    <2>2. /\ state = "RUNNING" /\ NextRead \in Wired(account) /\ Is(NextRead, "read", "ctrl")
      BY <1>3, <2>1, MessageGot
    <2> DEFINE rs == <<NextRead>>
    <2>3. /\ rs \in Seq(Wired(account)) /\ DOMAIN rs = {1} /\ rs[1] = NextRead
          /\ Send(Rest(Reply), rs) /\ UNCHANGED codeSeen /\ state' = "RUNNING" /\ io_write' = io_write
      BY <1>3, <2>1, <2>2 DEF OnServiceError, userVars
    <2> HIDE DEF rs
    <2>4. /\ \A j \in DOMAIN rs : Is(rs[j], "read", "ctrl") => j = 1
          /\ NoneOf(rs, "open", "ctrl") /\ NoneOf(rs, "close", "ctrl") /\ NoneOf(rs, "write", "ctrl")
          /\ OnceOf(rs, "write", "ctrl") /\ 1 \in DOMAIN rs
          /\ \A j \in DOMAIN rs : Is(rs[j], "write", "ctrl") =>
                rs[j].fnum = srvFnum["ctrl"] /\ rs[j].items = RunCommandOf(account)
      BY <2>2, <2>3 DEF NoneOf, OnceOf, Is
    <2>5. CtrlFine'
      BY <2>1, <2>2, <2>3, <2>4, ReadsOn
    <2> QED BY <2>3, <2>5
  <1> QED BY <1>2, <1>3

\* The code that is told is that of the process.
LEMMA CodeFine ==
  ASSUME FineState, OnReturnCode, UNCHANGED Remote
  PROVE  codeSeen' /\ return_code' = pcode'
  <1>1. CtrlRead("return_code") /\ codeSeen' = TRUE /\ return_code' = Head(Reply.data).val
    BY DEF OnReturnCode
  <1>2. /\ Reply = toCli[1] /\ Fetched(1) /\ DOMAIN toCli[1].data = {1} /\ toCli[1].data[1].type = "return_code"
        /\ Popped("read", "ctrl") /\ pcode' = pcode
    BY <1>1, MessageGot
  <1>3. 1 \in DOMAIN toCli /\ Head(Reply.data) = toCli[1].data[1]
    BY <1>1, MessageTaken DEF FineState, OnceInv
  <1>4. Coder(1) /\ toCli[1].data[1].val = ec
    BY <1>2, <1>3 DEF Coder, Mentions, FineState, RunInv, CodeInv, CodeIs
  <1>5. ~Cut
    BY DEF FineState, FineInv, Cut, Staying, Gone
  <1>6. ec = pcode
    BY <1>3, <1>4, <1>5 DEF FineState, RunInv, CodeInv, CodeDue
  <1> QED BY <1>1, <1>2, <1>3, <1>4, <1>6

-----------------------------------------------------------------------------
\* Steps of the client on the streams.

\* What is waited for otherwise stays, and nothing is asked of the control
\* pipe.
LEMMA StreamFine ==
  ASSUME FineState, UNCHANGED Remote, NEW rest \in Seq(Waiting), Within(rest, pending),
         OnceOf(pending, "read", "ctrl") => OnceOf(rest, "read", "ctrl"),
         \A op \in {"read", "close"} : NoneOf(rest, op, "ctrl") => NoneOf(pending, op, "ctrl"),
         NEW rs \in Seq(Wired(account)), \A j \in DOMAIN rs : rs[j].pipe # "ctrl", Asks(rest, rs), Adds(rs),
         \/ toCli' = toCli
         \/ toCli # <<>> /\ toCli' = Tail(toCli) /\ (Reply.pipe # "ctrl" \/ Reply.op \notin {"read", "close"}),
         UNCHANGED <<account, state, mode, codeSeen>>,
         io_read'["ctrl"] = io_read["ctrl"], io_write'["ctrl"] = io_write["ctrl"]
  PROVE  CtrlFine'
  <1>1. ClientTypeOK /\ toSrv \in Seq(Wired(account)) /\ toCli \in Seq(Replied) /\ CtrlFine
    BY DEF FineState, SessTypeOK, ClientTypeOK
  <1>2. CtrlKept
    BY RemoteSame DEF CtrlKept
  <1>3. \A op : NoneOf(rs, op, "ctrl") /\ OnceOf(rs, op, "ctrl")
    BY DEF NoneOf, OnceOf, Is
  <1>4. WaitsKept
    <2>1. \A op : NoneOf(pending, op, "ctrl") => NoneOf(rest, op, "ctrl")
      BY DEF Within, NoneOf
    <2>2. \A op : /\ NoneOf(rest, op, "ctrl") => NoneOf(pending', op, "ctrl")
                  /\ OnceOf(rest, op, "ctrl") => OnceOf(pending', op, "ctrl")
                  /\ NoneOf(pending', op, "ctrl") => NoneOf(rest, op, "ctrl")
      BY <1>1, <1>3, AsksOf
    <2>3. ASSUME NEW k \in DOMAIN pending', NEW op, Is(pending'[k], op, "ctrl")
          PROVE  \E m \in DOMAIN pending : Is(pending[m], op, "ctrl") /\ pending'[k].fnum = pending[m].fnum
      <3>1. PICK i \in DOMAIN rest : pending'[k] = rest[i]
        BY <1>1, <2>3, AddedElements DEF Is
      <3> QED BY <2>3, <3>1 DEF Within
    <2> QED BY <2>1, <2>2, <2>3 DEF WaitsKept
  <1>5. Alike(toSrv, toSrv')
    BY <1>1, AlikeSame, AlikeMore DEF Adds
  <1>6. Alike(toCli, toCli')
    BY <1>1, AlikeSame, AlikeTail DEF Reply
  <1> QED BY <1>1, <1>2, <1>4, <1>5, <1>6, AsideFine DEF Aside

\* A reply that is taken: what is known of the requests that still wait.
LEMMA ReplyRest ==
  ASSUME FineState, NEW op, NEW ok, Receive(op, ok)
  PROVE  /\ ClientTypeOK /\ mode = "loop" /\ toCli # <<>> /\ toCli' = Tail(toCli) /\ Reply.op = op
         /\ Reply.pipe \in Pipe
         /\ Reply.fnum \in Nat /\ Rest(Reply) \in Seq(Waiting) /\ Within(Rest(Reply), pending)
         /\ OnceOf(pending, "read", "ctrl") => OnceOf(Rest(Reply), "read", "ctrl")
         /\ Reply.pipe # "ctrl" \/ op \notin {"read", "close"} =>
               \A o \in {"read", "close"} : NoneOf(Rest(Reply), o, "ctrl") => NoneOf(pending, o, "ctrl")
  <1>1. ClientTypeOK /\ SessTypeOK /\ toCli' = Tail(toCli)
    BY DEF FineState, SessTypeOK, Receive
  <1>2. /\ mode = "loop" /\ toCli # <<>> /\ Reply.op = op /\ Reply.pipe \in Pipe /\ Reply.fnum \in Nat
        /\ Fewer(Rest(Reply), Reply)
    BY <1>1, Received
  <1>3. Rest(Reply) \in Seq(Waiting) /\ Within(Rest(Reply), pending)
    BY <1>1, ReceivedRest
  <1> QED BY <1>1, <1>2, <1>3 DEF Fewer, Less, Is


\* Replies that nobody waits for are not about the control pipe, but for
\* writes.
LEMMA DropFine ==
  ASSUME FineState, DropReply, UNCHANGED Remote
  PROVE  CtrlFine' /\ codeSeen' = codeSeen
  <1>1. /\ ClientTypeOK /\ toCli # <<>> /\ toCli' = Tail(toCli) /\ Matching(Reply) = {} /\ mode = "loop"
        /\ UNCHANGED <<account, state, mode, codeSeen, io_read, io_write, pending, toSrv>>
    BY DEF DropReply, FineState, SessTypeOK, stateVars, ioVars, reqVars, userVars, Receiving
  <1>2. Reply = toCli[1] /\ 1 \in DOMAIN toCli
    BY <1>1, ReplyHead DEF ClientTypeOK, Reply
  <1>3. ASSUME Reply.pipe = "ctrl", Reply.op = "read" PROVE FALSE
    <2>1. Is(toCli[1], "read", "ctrl") /\ ~NoneUnderway("read", "ctrl")
      BY <1>2, <1>3 DEF Is, NoneUnderway, NoneOf
    <2>2. PICK k \in DOMAIN pending : Is(pending[k], "read", "ctrl")
      BY <2>1 DEF FineState, CtrlFine, ReadingInv, NoneOf
    <2>3. Reply.fnum = pending[k].fnum
      BY <1>2, <2>1, <2>2 DEF FineState, CtrlFine, ReadingInv
    <2> QED BY <1>1, <1>3, <2>2, <2>3 DEF Matching, Is
  <1>4. ASSUME Reply.pipe = "ctrl", Reply.op = "close" PROVE FALSE
    <2>1. Is(toCli[1], "close", "ctrl") /\ ~NoneOf(toCli, "close", "ctrl")
      BY <1>2, <1>4 DEF Is, NoneOf
    <2>2. state = "CLOSING_FOR_REINSTALL" /\ mode = "loop"
      BY <2>1 DEF FineState, Stored, RoundInv
    <2>3. PICK k \in DOMAIN pending : Is(pending[k], "close", "ctrl")
      BY <2>2 DEF FineState, CtrlFine, ClosingInv, NoneOf
    <2>4. Reply.fnum = pending[k].fnum
      BY <1>2, <2>1, <2>2, <2>3 DEF FineState, CtrlFine, ClosingInv
    <2> QED BY <1>1, <1>4, <2>3, <2>4 DEF Matching, Is
  <1> DEFINE rs == <<>>
  <1>5. /\ rs \in Seq(Wired(account)) /\ (\A j \in DOMAIN rs : rs[j].pipe # "ctrl")
        /\ pending \in Seq(Waiting) /\ Within(pending, pending) /\ Asks(pending, rs) /\ Adds(rs)
    BY <1>1 DEF ClientTypeOK, Within, Asks, Adds
  <1> HIDE DEF rs
  <1> QED BY <1>1, <1>3, <1>4, <1>5, StreamFine

\* A write was acknowledged.
LEMMA WrittenFine ==
  ASSUME FineState, Written, UNCHANGED Remote
  PROVE  CtrlFine' /\ codeSeen' = codeSeen
  <1>1. Receive("write", TRUE) /\ pending' = Rest(Reply)
        /\ UNCHANGED <<account, state, mode, codeSeen, io_read, io_write, toSrv>>
    BY DEF Written, stateVars, ioVars, userVars
  <1>2. /\ ClientTypeOK /\ toCli # <<>> /\ toCli' = Tail(toCli) /\ Reply.op = "write"
        /\ Rest(Reply) \in Seq(Waiting) /\ Within(Rest(Reply), pending)
        /\ OnceOf(pending, "read", "ctrl") => OnceOf(Rest(Reply), "read", "ctrl")
        /\ \A o \in {"read", "close"} : NoneOf(Rest(Reply), o, "ctrl") => NoneOf(pending, o, "ctrl")
    <2>1. PICK op : op = "write" /\ Receive(op, TRUE)
      BY <1>1
    <2>2. Reply.pipe # "ctrl" \/ op \notin {"read", "close"}
      BY <2>1
    <2> QED BY <2>1, <2>2, ReplyRest
  <1> DEFINE rs == <<>>
  <1>3. /\ rs \in Seq(Wired(account)) /\ (\A j \in DOMAIN rs : rs[j].pipe # "ctrl")
        /\ Asks(Rest(Reply), rs) /\ Adds(rs)
    BY <1>1 DEF Asks, Adds
  <1> HIDE DEF rs
  <1> QED BY <1>1, <1>2, <1>3, StreamFine

\* A stream was opened, or read: it is read on.
LEMMA StreamRead ==
  ASSUME FineState, NEW op, op \in {"open", "read"}, Receive(op, TRUE), Reply.pipe # "ctrl", UNCHANGED Remote,
         NEW f \in Nat, Send(Rest(Reply), <<async_read(Reply.pipe, f)>>), ReadIssued(Reply.pipe, f),
         UNCHANGED <<account, state, mode, codeSeen, io_write>>
  PROVE  CtrlFine'
  <1>1. /\ ClientTypeOK /\ toCli # <<>> /\ toCli' = Tail(toCli) /\ Reply.pipe \in Pipe
        /\ Rest(Reply) \in Seq(Waiting) /\ Within(Rest(Reply), pending)
        /\ OnceOf(pending, "read", "ctrl") => OnceOf(Rest(Reply), "read", "ctrl")
        /\ \A o \in {"read", "close"} : NoneOf(Rest(Reply), o, "ctrl") => NoneOf(pending, o, "ctrl")
    BY ReplyRest
  <1> DEFINE r == async_read(Reply.pipe, f)
             rs == <<r>>
  <1>2. r \in Wired(account) /\ r.pipe # "ctrl"
    BY <1>1, OwnRequestType DEF async_read, Request
  <1>3. /\ rs \in Seq(Wired(account)) /\ (\A j \in DOMAIN rs : rs[j].pipe # "ctrl")
        /\ Asks(Rest(Reply), rs) /\ Adds(rs)
    BY <1>2, SendAsks, SendAdds DEF Send
  <1>4. io_read'["ctrl"] = io_read["ctrl"]
    <2>1. io_read \in [Pipe -> Nat] /\ "ctrl" \in Pipe
      BY <1>1 DEF ClientTypeOK, Pipe
    <2> QED BY <2>1 DEF ReadIssued
  <1> HIDE DEF r, rs
  <1> QED BY <1>1, <1>3, <1>4, StreamFine

\* A stream was opened (on_in_pipe_open and its likes): nothing changes for the control pipe.
LEMMA StdOpenedFine ==
  ASSUME FineState, StdOpened, UNCHANGED Remote
  PROVE  CtrlFine' /\ codeSeen' = codeSeen
  <1>1. Receive("open", TRUE)
    BY DEF StdOpened
  <1>2. Reply.fnum \in Nat
    BY <1>1, ReplyRest
  <1>3. /\ Reply.pipe # "ctrl" /\ UNCHANGED <<account, state, mode, codeSeen, io_write>>
        /\ Send(Rest(Reply), <<async_read(Reply.pipe, Reply.fnum)>>) /\ ReadIssued(Reply.pipe, Reply.fnum)
    BY DEF StdOpened, stateVars
  <1> QED BY <1>1, <1>2, <1>3, StreamRead

\* A stream was read (on_out_pipe_read, on_err_pipe_read): nothing changes for the control pipe.
LEMMA OutputFine ==
  ASSUME FineState, OutputRead, UNCHANGED Remote
  PROVE  CtrlFine' /\ codeSeen' = codeSeen
  <1>1. Receive("read", TRUE)
    BY DEF OutputRead
  <1>2. fd[Reply.pipe] \in Nat
    BY <1>1, ReplyRest DEF ClientTypeOK
  <1>3. /\ Reply.pipe # "ctrl" /\ UNCHANGED <<account, state, mode, codeSeen, io_write>>
        /\ Send(Rest(Reply), <<async_read(Reply.pipe, fd[Reply.pipe])>>) /\ ReadIssued(Reply.pipe, fd[Reply.pipe])
    BY DEF OutputRead, stateVars
  <1> QED BY <1>1, <1>2, <1>3, StreamRead

\* A stream was closed.
LEMMA StreamClosedFine ==
  ASSUME FineState, Closed, Reply.pipe # "ctrl", UNCHANGED Remote
  PROVE  CtrlFine' /\ codeSeen' = codeSeen
  <1>1. PICK ok \in BOOLEAN : Receive("close", ok)
    BY DEF Closed
  <1>2. /\ pending' = Rest(Reply) /\ UNCHANGED <<account, state, mode, codeSeen, toSrv>>
        /\ io_read' = [io_read EXCEPT ![Reply.pipe] = 0] /\ io_write' = [io_write EXCEPT ![Reply.pipe] = 0]
    BY DEF Closed, CloseDone, userVars
  <1>3. /\ ClientTypeOK /\ toCli # <<>> /\ toCli' = Tail(toCli)
        /\ Rest(Reply) \in Seq(Waiting) /\ Within(Rest(Reply), pending)
        /\ OnceOf(pending, "read", "ctrl") => OnceOf(Rest(Reply), "read", "ctrl")
        /\ \A o \in {"read", "close"} : NoneOf(Rest(Reply), o, "ctrl") => NoneOf(pending, o, "ctrl")
    BY <1>1, ReplyRest
  <1>4. io_read'["ctrl"] = io_read["ctrl"] /\ io_write'["ctrl"] = io_write["ctrl"]
    <2>1. io_read \in [Pipe -> Nat] /\ io_write \in [Pipe -> Nat] /\ "ctrl" \in Pipe
      BY <1>3 DEF ClientTypeOK, Pipe
    <2> QED BY <1>2, <2>1
  <1> DEFINE rs == <<>>
  <1>5. /\ rs \in Seq(Wired(account)) /\ (\A j \in DOMAIN rs : rs[j].pipe # "ctrl")
        /\ Asks(Rest(Reply), rs) /\ Adds(rs)
    BY <1>2 DEF Asks, Adds
  <1> HIDE DEF rs
  <1> QED BY <1>2, <1>3, <1>4, <1>5, StreamFine

\* A request to a stream failed: it is closed.
LEMMA StreamErrorFine ==
  ASSUME FineState, ErrorReply, Reply.pipe # "ctrl", UNCHANGED Remote
  PROVE  CtrlFine' /\ codeSeen' = codeSeen
  <1>1. PICK op \in {"open", "read", "write"} : Receive(op, FALSE)
    BY DEF ErrorReply
  <1>2. /\ ClientTypeOK /\ toCli # <<>> /\ toCli' = Tail(toCli) /\ Reply.op = op /\ Reply.pipe \in Pipe
        /\ Rest(Reply) \in Seq(Waiting) /\ Within(Rest(Reply), pending)
        /\ OnceOf(pending, "read", "ctrl") => OnceOf(Rest(Reply), "read", "ctrl")
        /\ \A o \in {"read", "close"} : NoneOf(Rest(Reply), o, "ctrl") => NoneOf(pending, o, "ctrl")
    BY <1>1, ReplyRest
  <1> DEFINE p == Reply.pipe
             rest == Undestroyed(p, Rest(Reply))
             x == async_close(p)
             rs == <<x>>
  <1>3. /\ SendOn(net, rest, rs) /\ UNCHANGED <<account, state, mode, codeSeen, io_read>>
        /\ io_write' \in {io_write, [io_write EXCEPT ![p] = 0]}
    BY DEF ErrorReply, Fail, OnStdError, userVars
  <1>4. x \in Wired(account) /\ x.pipe # "ctrl"
    <2>1. 0 \in Nat
      OBVIOUS
    <2> QED BY <1>2, <2>1, OwnRequestType DEF async_close, Request
  <1>5. /\ rest \in Seq(Waiting) /\ Within(rest, Rest(Reply))
        /\ OnceOf(Rest(Reply), "read", "ctrl") => OnceOf(rest, "read", "ctrl")
        /\ \A o \in {"read", "close"} : NoneOf(rest, o, "ctrl") => NoneOf(Rest(Reply), o, "ctrl")
    BY <1>2, UndestroyedOf, UndestroyedType, UndestroyedWithin
  <1>6. Within(rest, pending)
    BY <1>2, <1>5, WithinTransitive
  <1>7. /\ rs \in Seq(Wired(account)) /\ (\A j \in DOMAIN rs : rs[j].pipe # "ctrl")
        /\ Asks(rest, rs) /\ Adds(rs)
    BY <1>3, <1>4, SendAsks, SendAdds
  <1>8. io_write'["ctrl"] = io_write["ctrl"]
    <2>1. io_write \in [Pipe -> Nat] /\ "ctrl" \in Pipe
      BY <1>2 DEF ClientTypeOK, Pipe
    <2> QED BY <1>3, <2>1
  <1> HIDE DEF p, rest, x, rs
  <1> QED BY <1>2, <1>3, <1>5, <1>6, <1>7, <1>8, StreamFine DEF p

\* The user typed something.
LEMMA StdinFine ==
  ASSUME FineState, StdinRead, UNCHANGED Remote
  PROVE  CtrlFine' /\ codeSeen' = codeSeen
  <1>1. /\ ClientTypeOK /\ pending \in Seq(Waiting) /\ fd["in"] \in Nat /\ "in" \in Pipe /\ "ctrl" \in Pipe
        /\ io_write \in [Pipe -> Nat]
    BY DEF FineState, SessTypeOK, ClientTypeOK, Pipe
  <1> DEFINE w == async_write("in", fd["in"], Input)
             rs == <<w>>
  <1>2. Send(pending, rs) /\ UNCHANGED <<account, state, mode, codeSeen, io_read, toCli>>
        /\ io_write'["ctrl"] = io_write["ctrl"]
    BY <1>1 DEF StdinRead, stateVars, WriteIssued
  <1>3. w \in Wired(account) /\ w.pipe # "ctrl"
    BY <1>1, OwnRequestType DEF async_write, Request
  <1>4. /\ rs \in Seq(Wired(account)) /\ (\A j \in DOMAIN rs : rs[j].pipe # "ctrl")
        /\ Asks(pending, rs) /\ Adds(rs) /\ Within(pending, pending)
    BY <1>2, <1>3, SendAsks, SendAdds DEF Send, Within
  <1> HIDE DEF w, rs
  <1> QED BY <1>1, <1>2, <1>4, StreamFine

-----------------------------------------------------------------------------
\* The control pipe is closed, or not there.

\* A reply of the control pipe that is not answered by a request.
LEMMA CtrlReply ==
  ASSUME FineState, NEW op, op \in {"open", "read", "write", "close"}, NEW ok, Receive(op, ok), Reply.pipe = "ctrl",
         UNCHANGED Remote, pending' = Rest(Reply), toSrv' = toSrv
  PROVE  /\ ClientTypeOK /\ mode = "loop" /\ Is(Reply, op, "ctrl") /\ Reply = toCli[1] /\ 1 \in DOMAIN toCli
         /\ (Reply.status = "ok") = ok /\ Reply \in Replied
         /\ ~NoneOf(toCli, op, "ctrl")
         /\ \A o : /\ NoneOf(toCli, o, "ctrl") => NoneOf(toCli', o, "ctrl")
                   /\ OnceOf(toCli, o, "ctrl") => OnceOf(toCli', o, "ctrl")
                   /\ o # op => (NoneOf(toCli', o, "ctrl") => NoneOf(toCli, o, "ctrl"))
                   /\ Before(toCli, o, op) => NoneOf(toCli, o, "ctrl")
         /\ OnceOf(toCli, op, "ctrl") => NoneOf(toCli', op, "ctrl")
         /\ \A o, next : Before(toCli, o, next) => Before(toCli', o, next)
         /\ \A k \in DOMAIN toCli' : \E m \in DOMAIN toCli : toCli'[k] = toCli[m]
         /\ \A o : /\ NoneOf(pending, o, "ctrl") => NoneOf(pending', o, "ctrl")
                   /\ OnceOf(pending, o, "ctrl") => OnceOf(pending', o, "ctrl")
                   /\ o # op => (NoneOf(pending', o, "ctrl") => NoneOf(pending, o, "ctrl"))
         /\ OnceOf(pending, op, "ctrl") => NoneOf(pending', op, "ctrl")
         /\ \A k \in DOMAIN pending' : \E m \in DOMAIN pending : pending'[k] = pending[m]
         /\ UNCHANGED <<inst, c2s, s2c, srvOpen, srvFnum, parked, svc, pc, cont, token, proc, pcode, ec, Loc>>
  <1>1. /\ ClientTypeOK /\ SessTypeOK /\ toCli # <<>> /\ toCli' = Tail(toCli) /\ (Reply.status = "ok") = ok
        /\ UNCHANGED <<inst, c2s, s2c, srvOpen, srvFnum, parked, svc, pc, cont, token, proc, pcode, ec, Loc>>
    BY RemoteSame DEF FineState, SessTypeOK, Receive
  <1>2. /\ mode = "loop" /\ Is(Reply, op, "ctrl") /\ Fewer(Rest(Reply), Reply) /\ Reply \in Replied
        /\ Popped(op, "ctrl")
    BY <1>1, Received DEF Is
  <1>3. \A k \in DOMAIN pending' : \E m \in DOMAIN pending : pending'[k] = pending[m]
    BY <1>1, ReceivedRest DEF Within
  <1>4. /\ \A o : /\ NoneOf(toCli, o, "ctrl") => NoneOf(toCli', o, "ctrl")
                  /\ OnceOf(toCli, o, "ctrl") => OnceOf(toCli', o, "ctrl")
                  /\ o # op => (NoneOf(toCli', o, "ctrl") => NoneOf(toCli, o, "ctrl"))
                  /\ Before(toCli, o, op) => NoneOf(toCli, o, "ctrl")
        /\ OnceOf(toCli, op, "ctrl") => NoneOf(toCli', op, "ctrl")
        /\ \A o, next : Before(toCli, o, next) => Before(toCli', o, next)
        /\ \A k \in DOMAIN toCli' : \E m \in DOMAIN toCli : m # 1 /\ toCli'[k] = toCli[m]
        /\ ~NoneOf(toCli, op, "ctrl") /\ Reply = toCli[1] /\ 1 \in DOMAIN toCli
    BY <1>1, <1>2, ReplyTaken
  <1>5. /\ \A o : /\ NoneOf(pending, o, "ctrl") => NoneOf(pending', o, "ctrl")
                  /\ OnceOf(pending, o, "ctrl") => OnceOf(pending', o, "ctrl")
                  /\ o # op => (NoneOf(pending', o, "ctrl") => NoneOf(pending, o, "ctrl"))
        /\ OnceOf(pending, op, "ctrl") => NoneOf(pending', op, "ctrl")
    BY <1>2 DEF Fewer, Less, Is
  <1> QED BY <1>1, <1>2, <1>3, <1>4, <1>5

\* It was closed for the reinstallation.
LEMMA CtrlClosedFine ==
  ASSUME FineState, Closed, Reply.pipe = "ctrl", UNCHANGED Remote
  PROVE  CtrlFine' /\ UNCHANGED <<codeSeen, activated, net, abort_requested, abortSent>> /\ mode' = "reinstall"
  <1>1. PICK op, ok : op = "close" /\ Receive(op, ok)
    BY DEF Closed
  <1>2. /\ pending' = Rest(Reply) /\ toSrv' = toSrv /\ UNCHANGED <<account, state, codeSeen, activated>>
        /\ io_write' = [io_write EXCEPT !["ctrl"] = 0] /\ io_read' = [io_read EXCEPT !["ctrl"] = 0]
        /\ UNCHANGED <<net, abort_requested, abortSent>>
        /\ mode' = IF state = "CLOSING_FOR_REINSTALL" THEN "reinstall" ELSE mode
    BY DEF Closed, CloseDone, userVars, sigVars
  <1>3. /\ ClientTypeOK /\ mode = "loop" /\ Is(Reply, op, "ctrl") /\ ~NoneOf(toCli, op, "ctrl")
        /\ \A o : /\ NoneOf(toCli, o, "ctrl") => NoneOf(toCli', o, "ctrl")
                  /\ OnceOf(toCli, o, "ctrl") => OnceOf(toCli', o, "ctrl")
                  /\ o # op => (NoneOf(toCli', o, "ctrl") => NoneOf(toCli, o, "ctrl"))
        /\ \A k \in DOMAIN toCli' : \E m \in DOMAIN toCli : toCli'[k] = toCli[m]
        /\ \A o : /\ NoneOf(pending, o, "ctrl") => NoneOf(pending', o, "ctrl")
                  /\ OnceOf(pending, o, "ctrl") => OnceOf(pending', o, "ctrl")
                  /\ o # op => (NoneOf(pending', o, "ctrl") => NoneOf(pending, o, "ctrl"))
        /\ \A k \in DOMAIN pending' : \E m \in DOMAIN pending : pending'[k] = pending[m]
        /\ UNCHANGED <<inst, c2s, s2c, srvOpen, srvFnum, parked, svc, pc, cont, token, proc, pcode, ec, Loc>>
    BY <1>1, <1>2, CtrlReply
  <1>4. state = "CLOSING_FOR_REINSTALL" /\ NoneUnderway("open", "ctrl")
    BY <1>1, <1>3 DEF FineState, Stored, RoundInv
  <1>5. TalkInv /\ ReadingInv /\ FileInv /\ PathInv
    BY DEF FineState, CtrlFine
  <1>6. TalkInv'
    <2>1. NoneWritten' /\ OnceOf(toSrv', "write", "ctrl") /\ \A i \in DOMAIN toSrv' : ~Is(toSrv'[i], "write", "ctrl")
      BY <1>2, <1>4, <1>5 DEF TalkInv, NoneWritten, NoneOf, OnceOf
    <2>2. \A i \in DOMAIN toCli' : Is(toCli'[i], "write", "ctrl") => toCli'[i].status = "ok"
      BY <1>3, <1>5 DEF TalkInv
    <2> QED BY <1>2, <1>4, <2>1, <2>2 DEF TalkInv
  <1>7. OpeningInv' /\ ClosingInv'
    BY <1>2, <1>3, <1>4, NotOpening, NotClosing DEF NoneUnderway
  <1>8. ReadingInv'
    <2>1. "read" # op
      BY <1>1
    <2>2. /\ NoneOf(toCli', "read", "ctrl") <=> NoneOf(toCli, "read", "ctrl")
          /\ OnceOf(toCli, "read", "ctrl") => OnceOf(toCli', "read", "ctrl")
          /\ NoneOf(pending', "read", "ctrl") <=> NoneOf(pending, "read", "ctrl")
          /\ OnceOf(pending, "read", "ctrl") => OnceOf(pending', "read", "ctrl")
      BY <1>3, <2>1
    <2>3. /\ OneUnderway("read", "ctrl")' /\ ("ctrl" \in parked' => NoneUnderway("read", "ctrl")')
          /\ OnceOf(pending', "read", "ctrl")
          /\ NoneOf(pending', "read", "ctrl") <=> NoneUnderway("read", "ctrl")' /\ "ctrl" \notin parked'
      BY <1>2, <1>3, <1>5, <2>2 DEF ReadingInv, OneUnderway, NoneUnderway
    <2>4. ASSUME NEW k \in DOMAIN pending', Is(pending'[k], "read", "ctrl")
          PROVE  /\ \A i \in DOMAIN toSrv' : Is(toSrv'[i], "read", "ctrl") => toSrv'[i].fnum = pending'[k].fnum
                 /\ \A i \in DOMAIN toCli' : Is(toCli'[i], "read", "ctrl") => toCli'[i].fnum = pending'[k].fnum
                 /\ "ctrl" \in parked' => pending'[k].fnum = srvFnum'["ctrl"]
      <3>1. PICK m \in DOMAIN pending : pending'[k] = pending[m]
        BY <1>3
      <3> QED BY <1>2, <1>3, <1>5, <2>4, <3>1 DEF ReadingInv
    <2>5. \A i \in DOMAIN toCli' : Fetched(i)' => DOMAIN (toCli'[i].data) = {1}
      BY <1>3, <1>5 DEF ReadingInv, Fetched, OnCtrl
    <2> QED BY <1>2, <1>4, <2>3, <2>4, <2>5 DEF ReadingInv
  <1>9. FileInv' /\ PathInv'
    <2>1. io_read \in [Pipe -> Nat] /\ io_write \in [Pipe -> Nat] /\ "ctrl" \in Pipe
      BY <1>3 DEF ClientTypeOK, Pipe
    <2>2. io_read'["ctrl"] = 0 /\ io_write'["ctrl"] = 0
      BY <1>2, <2>1
    <2>3. state' = "CLOSING_FOR_REINSTALL" /\ Loc' = Loc /\ token' = token
      BY <1>2, <1>3, <1>4
    <2>4. FileInv'
      BY <2>2, <2>3 DEF FileInv
    <2>5. PathInv'
      BY <1>5, <2>3 DEF PathInv
    <2> QED BY <2>4, <2>5
  <1> QED BY <1>2, <1>4, <1>6, <1>7, <1>8, <1>9 DEF CtrlFine

\* There is no service yet, or what was read is closed.
LEMMA CtrlErrorFine ==
  ASSUME FineState, ErrorReply, Reply.pipe = "ctrl", UNCHANGED Remote
  PROVE  /\ CtrlFine' /\ UNCHANGED <<codeSeen, activated, net, abort_requested, abortSent>>
         /\ mode' \in {"loop", "install"} /\ (mode' = "install" => svc = "down")
  <1>1. PICK op \in {"open", "read", "write"} : Receive(op, FALSE)
    BY DEF ErrorReply
  <1>2. /\ pending' = Rest(Reply) /\ toSrv' = toSrv /\ UNCHANGED <<account, state, codeSeen, activated, io_read>>
        /\ UNCHANGED <<net, abort_requested, abortSent>>
        /\ OnCtrlError(Reply.op, Reply.status, Rest(Reply))
        /\ Reply.op # "write" => io_write' = io_write
    BY DEF ErrorReply, Fail, OnCtrlError, userVars, sigVars
  <1>3. /\ ClientTypeOK /\ mode = "loop" /\ Is(Reply, op, "ctrl") /\ Reply = toCli[1] /\ 1 \in DOMAIN toCli
        /\ Reply.status # "ok" /\ Reply \in Replied
        /\ ~NoneOf(toCli, op, "ctrl")
        /\ \A o : /\ NoneOf(toCli, o, "ctrl") => NoneOf(toCli', o, "ctrl")
                  /\ OnceOf(toCli, o, "ctrl") => OnceOf(toCli', o, "ctrl")
                  /\ o # op => (NoneOf(toCli', o, "ctrl") => NoneOf(toCli, o, "ctrl"))
                  /\ Before(toCli, o, op) => NoneOf(toCli, o, "ctrl")
        /\ OnceOf(toCli, op, "ctrl") => NoneOf(toCli', op, "ctrl")
        /\ \A o, next : Before(toCli, o, next) => Before(toCli', o, next)
        /\ \A k \in DOMAIN toCli' : \E m \in DOMAIN toCli : toCli'[k] = toCli[m]
        /\ \A o : /\ NoneOf(pending, o, "ctrl") => NoneOf(pending', o, "ctrl")
                  /\ OnceOf(pending, o, "ctrl") => OnceOf(pending', o, "ctrl")
                  /\ o # op => (NoneOf(pending', o, "ctrl") => NoneOf(pending, o, "ctrl"))
        /\ OnceOf(pending, op, "ctrl") => NoneOf(pending', op, "ctrl")
        /\ \A k \in DOMAIN pending' : \E m \in DOMAIN pending : pending'[k] = pending[m]
        /\ UNCHANGED <<inst, c2s, s2c, srvOpen, srvFnum, parked, svc, pc, cont, token, proc, pcode, ec, Loc>>
    BY <1>1, <1>2, CtrlReply
  <1>4. TalkInv /\ OpeningInv /\ ReadingInv /\ FileInv /\ ClosingInv /\ PathInv /\ FineInv /\ RoundInv
    BY DEF FineState, CtrlFine, Stored
  <1>5. Is(toCli[1], op, "ctrl")
    BY <1>3
  <1>6. op # "write"
    BY <1>3, <1>4, <1>5 DEF TalkInv
  <1>7. ASSUME op = "open" PROVE state = "OPENING" /\ Reply.status = "notfound" /\ svc = "down" /\ ~activated
    <2>1. state = "OPENING"
      BY <1>3, <1>4, <1>7 DEF RoundInv, NoneUnderway
    <2>2. Reply.status = "notfound" /\ svc = "down"
      BY <1>3, <1>4, <1>5, <1>7 DEF OpeningInv
    <2> QED BY <1>4, <2>1, <2>2 DEF FineInv
  <1>8. ASSUME op = "read" PROVE state = "OPENING" /\ Reply.status # "notfound"
    <2>1. Reply.status # "notfound"
      BY <1>3, <1>8 DEF Replied, Is
    <2>2. state \notin {"GETTING_VERSION", "RUNNING"}
      BY <1>3, <1>4, <1>5, <1>8 DEF ReadingInv
    <2>3. ASSUME state = "CLOSING_FOR_REINSTALL" PROVE FALSE
      <3>1. Before(toCli, "close", "read") /\ (NoneOf(toCli, "close", "ctrl") => NoneOf(toCli, "read", "ctrl"))
        BY <1>3, <1>4, <2>3 DEF ClosingInv
      <3>2. NoneOf(toCli, "close", "ctrl")
        BY <1>3, <1>8, <3>1
      <3> QED BY <1>3, <1>8, <3>1, <3>2
    <2> QED BY <1>3, <2>1, <2>2, <2>3 DEF ClientTypeOK
  <1>9. state = "OPENING" /\ op \in {"open", "read"}
    BY <1>1, <1>6, <1>7, <1>8
  <1>10. mode' \in {"loop", "install"} /\ (mode' = "install" => svc = "down") /\ io_write' = io_write
    <2>1. CASE op = "open"
      BY <1>2, <1>3, <1>7, <2>1 DEF OnCtrlError, Is
    <2>2. CASE op = "read"
      BY <1>2, <1>3, <1>8, <2>2 DEF OnCtrlError, Is
    <2> QED BY <1>9, <2>1, <2>2
  <1>11. OnceOf(toCli, "open", "ctrl") /\ OnceOf(toCli, "read", "ctrl") /\ NoneFetched /\ "ctrl" \notin parked
    <2>1. "ctrl" \in Pipe
      BY DEF Pipe
    <2> QED BY <1>4, <1>9, <2>1 DEF RoundInv, ReadingInv, OneUnderway, FineState, OnceInv, ReadInv, QuietCtrl
  <1>12. TalkInv'
    <2>1. NoneWritten' /\ OnceOf(toSrv', "write", "ctrl") /\ \A i \in DOMAIN toSrv' : ~Is(toSrv'[i], "write", "ctrl")
      BY <1>2, <1>4, <1>9 DEF TalkInv, NoneWritten, NoneOf, OnceOf
    <2>2. \A i \in DOMAIN toCli' : Is(toCli'[i], "write", "ctrl") => toCli'[i].status = "ok"
      BY <1>3, <1>4 DEF TalkInv
    <2> QED BY <1>2, <1>9, <2>1, <2>2 DEF TalkInv
  <1>13. OpeningInv'
    <2>1. Ready' = Ready
      BY <1>3 DEF Ready
    <2>2. \A i \in DOMAIN toCli' : Is(toCli'[i], "open", "ctrl") =>
              /\ NoneOf(toSrv', "read", "ctrl")
              /\ IF toCli'[i].status = "ok" THEN Ready' ELSE toCli'[i].status = "notfound" /\ svc' = "down"
      BY <1>2, <1>3, <1>4, <2>1 DEF OpeningInv
    <2>3. Before(toCli', "read", "open") /\ Before(toSrv', "read", "open")
      BY <1>2, <1>3, <1>4, <1>9 DEF OpeningInv, Before
    <2> QED BY <1>2, <1>3, <1>4, <1>9, <2>1, <2>2, <2>3 DEF OpeningInv
  <1>14. ClosingInv' /\ FileInv' /\ PathInv'
    BY <1>2, <1>3, <1>4, <1>9, <1>10, NotClosing DEF FileInv, PathInv
  <1>15. ReadingInv'
    <2>1. /\ OnceOf(toSrv', "read", "ctrl") /\ OnceOf(toCli', "read", "ctrl") /\ OnceOf(pending', "read", "ctrl")
          /\ NoneOf(toSrv', "read", "ctrl") \/ NoneOf(toCli', "read", "ctrl")
      BY <1>2, <1>3, <1>4 DEF ReadingInv, OneUnderway
    <2>2. NoneOf(pending', "read", "ctrl") <=> NoneOf(toSrv', "read", "ctrl") /\ NoneOf(toCli', "read", "ctrl")
      <3>1. CASE op = "open"
        BY <1>2, <1>3, <1>4, <1>11, <3>1 DEF ReadingInv, NoneUnderway
      <3>2. CASE op = "read"
        <4>1. NoneOf(pending', "read", "ctrl") /\ NoneOf(toCli', "read", "ctrl")
          BY <1>3, <1>4, <1>11, <3>2 DEF ReadingInv
        <4>2. NoneOf(toSrv', "read", "ctrl")
          BY <1>2, <1>3, <1>4, <3>2 DEF ReadingInv, OneUnderway
        <4> QED BY <4>1, <4>2
      <3> QED BY <1>9, <3>1, <3>2
    <2>3. ASSUME NEW k \in DOMAIN pending', Is(pending'[k], "read", "ctrl")
          PROVE  /\ \A i \in DOMAIN toSrv' : Is(toSrv'[i], "read", "ctrl") => toSrv'[i].fnum = pending'[k].fnum
                 /\ \A i \in DOMAIN toCli' : Is(toCli'[i], "read", "ctrl") => toCli'[i].fnum = pending'[k].fnum
      <3>1. PICK m \in DOMAIN pending : pending'[k] = pending[m]
        BY <1>3
      <3> QED BY <1>2, <1>3, <1>4, <2>3, <3>1 DEF ReadingInv
    <2>4. \A i \in DOMAIN toCli' : ~Fetched(i)'
      BY <1>3, <1>11 DEF NoneFetched, Fetched, OnCtrl
    <2> QED BY <1>2, <1>3, <1>9, <1>11, <2>1, <2>2, <2>3, <2>4 DEF ReadingInv, OneUnderway, NoneUnderway
  <1> QED BY <1>2, <1>10, <1>12, <1>13, <1>14, <1>15 DEF CtrlFine

-----------------------------------------------------------------------------
\* What the client makes of the standard pipes.

\* A request to a standard pipe that will not fail before the service
\* disconnects it.
Suits(r) ==
    \A p \in Std : r.pipe = p =>
        \/ inst[p] = "closed"
        \/ r.op = "open" /\ inst[p] = "listen"
        \/ r.op \in {"read", "write"} /\ p \in srvOpen /\ r.fnum = srvFnum[p]

\* A callback that sends what suits keeps what is said of the standard pipes.
LEMMA SuitsKept ==
  ASSUME FineState, UNCHANGED Remote, Taken,
         NEW rs \in Seq(Wired(account)), Adds(rs), \A j \in DOMAIN rs : Suits(rs[j]),
         \A p \in Std : fd'[p] # 0 => fd[p] # 0 \/ p \in srvOpen \/ inst[p] = "closed"
  PROVE  StdFineInv'
  <1>1. /\ ClientTypeOK /\ toSrv \in Seq(Wired(account))
        /\ UNCHANGED <<inst, c2s, s2c, srvOpen, srvFnum, parked, svc, pc, cont, token, proc, pcode, ec, Loc>>
    BY RemoteSame DEF FineState, SessTypeOK, ClientTypeOK
  <1>2. \A k \in DOMAIN toCli' : \E m \in DOMAIN toCli : toCli'[k] = toCli[m]
    BY <1>1, TakenVersion
  <1>3. \A k \in DOMAIN toSrv' :
            (\E m \in DOMAIN toSrv : toSrv'[k] = toSrv[m]) \/ (\E j \in DOMAIN rs : toSrv'[k] = rs[j])
    BY <1>1, AddsElements
  <1>4. ASSUME NEW p \in Std PROVE StdFine(p)'
    <2>1. StdFine(p)
      BY DEF FineState, StdFineInv
    <2>2. ASSUME NEW k \in DOMAIN toSrv', toSrv'[k].pipe = p
          PROVE  \/ inst'[p] = "closed"
                 \/ toSrv'[k].op = "open" /\ inst'[p] = "listen"
                 \/ toSrv'[k].op \in {"read", "write"} /\ p \in srvOpen' /\ toSrv'[k].fnum = srvFnum'[p]
      <3>1. CASE \E m \in DOMAIN toSrv : toSrv'[k] = toSrv[m]
        BY <1>1, <2>1, <2>2, <3>1 DEF StdFine
      <3>2. CASE \E j \in DOMAIN rs : toSrv'[k] = rs[j]
        BY <1>1, <2>2, <3>2 DEF Suits
      <3> QED BY <1>3, <2>2, <3>1, <3>2
    <2>3. \A k \in DOMAIN toCli' : toCli'[k].pipe = p =>
              inst'[p] = "closed" \/ (toCli'[k].status = "ok" /\ p \in srvOpen')
      BY <1>1, <1>2, <2>1 DEF StdFine
    <2>4. fd'[p] # 0 => p \in srvOpen' \/ inst'[p] = "closed"
      BY <1>1, <2>1 DEF StdFine
    <2>5. HoldsOf(p)' = HoldsOf(p)
      BY DEF HoldsOf
    <2> QED BY <1>1, <2>1, <2>2, <2>3, <2>4, <2>5 DEF StdFine
  <1>5. Tells(s2c'["ctrl"]) \/ (\E i \in DOMAIN toCli' : Teller(i)') => Loc' = "connin"
    <2>1. (\E i \in DOMAIN toCli' : Teller(i)') => \E i \in DOMAIN toCli : Teller(i)
      BY <1>2 DEF Teller
    <2>2. Tells(s2c["ctrl"]) \/ (\E i \in DOMAIN toCli : Teller(i)) => Loc = "connin"
      BY DEF FineState, StdFineInv
    <2> QED BY <1>1, <2>1, <2>2
  <1> QED BY <1>4, <1>5 DEF StdFineInv

\* Requests to the control pipe suit.
LEMMA CtrlSuits ==
  ASSUME NEW r, r.pipe = "ctrl"
  PROVE  Suits(r)
  BY DEF Suits, Std

\* Callbacks that only use the control pipe.
LEMMA CtrlSent ==
  ASSUME FineState, UNCHANGED Remote, Taken, NEW link, NEW rest, NEW rs \in Seq(Wired(account)),
         SendOn(link, rest, rs),
         \A j \in DOMAIN rs : rs[j].pipe = "ctrl", \A p \in Std : fd'[p] = fd[p]
  PROVE  StdFineInv'
  <1>1. Adds(rs)
    BY SendAdds
  <1>2. \A j \in DOMAIN rs : Suits(rs[j])
    BY CtrlSuits
  <1> QED BY <1>1, <1>2, SuitsKept

\* Callbacks that send nothing.
LEMMA NoneSent ==
  ASSUME FineState, UNCHANGED Remote, Taken, toSrv' = toSrv, fd' = fd
  PROVE  StdFineInv'
  <1> DEFINE rs == <<>>
  <1>1. rs \in Seq(Wired(account)) /\ Adds(rs) /\ \A j \in DOMAIN rs : Suits(rs[j])
    BY DEF Adds
  <1> HIDE DEF rs
  <1> QED BY <1>1, SuitsKept

\* A stream that is there has one file.
LEMMA OneFile ==
  ASSUME FineState, NEW p \in Std, p \in srvOpen
  PROVE  /\ srvFnum[p] = 1 /\ (fd[p] # 0 => fd[p] = 1)
         /\ io_read[p] \in {0, 1} /\ io_write[p] \in {0, 1}
  <1>1. /\ p \in Pipe /\ fd[p] \in Nat /\ io_read[p] \in Nat /\ io_write[p] \in Nat /\ srvFnum[p] \in Nat
    BY DEF FineState, SessTypeOK, ClientTypeOK, ServerTypeOK, Std, Pipe
  <1>2. srvFnum[p] > 0 /\ srvFnum[p] <= 1 /\ fd[p] <= srvFnum[p] /\ io_read[p] <= srvFnum[p]
        /\ io_write[p] <= srvFnum[p]
    BY <1>1 DEF FineState, Stored, NumberInv, StdInv
  <1> QED BY <1>1, <1>2

\* It is read with this number.
LEMMA ReadSuits ==
  ASSUME FineState, NEW p \in Std, p \in srvOpen \/ inst[p] = "closed", NEW f, p \in srvOpen => f = 1
  PROVE  Suits(async_read(p, f))
  <1>1. p \in srvOpen => async_read(p, f).fnum = srvFnum[p]
    BY OneFile DEF async_read, Request, Cached
  <1>2. async_read(p, f).op = "read" /\ async_read(p, f).pipe = p
    BY DEF async_read, Request
  <1> QED BY <1>1, <1>2 DEF Suits

\* The first read of a stream suits, ...
LEMMA StdOpenedSuits ==
  ASSUME FineState, StdOpened, UNCHANGED Remote
  PROVE  StdFineInv'
  <1> DEFINE p == Reply.pipe
             r == async_read(p, Reply.fnum)
             rs == <<r>>
  <1>1. Receive("open", TRUE) /\ p # "ctrl" /\ Send(Rest(Reply), rs) /\ fd' = [fd EXCEPT ![p] = Reply.fnum]
    BY DEF StdOpened
  <1>2. /\ ClientTypeOK /\ p \in Pipe /\ Reply.fnum \in Nat /\ Reply.op = "open" /\ Taken
        /\ Reply = toCli[1] /\ 1 \in DOMAIN toCli
        /\ Reply.status = "ok"
    BY <1>1, Received DEF FineState, SessTypeOK, Receive
  <1>3. p \in Std
    BY <1>1, <1>2 DEF Pipe, Std
  <1>4. p \in srvOpen \/ inst[p] = "closed"
    BY <1>2, <1>3 DEF FineState, StdFineInv, StdFine
  <1>5. Reply.fnum = srvFnum[p]
    BY <1>2 DEF FineState, Stored, NumberInv
  <1>6. Suits(r) /\ r \in Wired(account)
    <2>1. p \in srvOpen => Reply.fnum = 1
      BY <1>3, <1>5, OneFile
    <2>2. Suits(r)
      BY <1>3, <1>4, <2>1, ReadSuits
    <2> QED BY <1>2, <2>2, OwnRequestType
  <1>7. /\ rs \in Seq(Wired(account)) /\ Adds(rs) /\ \A j \in DOMAIN rs : Suits(rs[j])
    BY <1>1, <1>6, SendAdds DEF Send
  <1>8. \A o \in Std : fd'[o] # 0 => fd[o] # 0 \/ o \in srvOpen \/ inst[o] = "closed"
    BY <1>1, <1>4
  <1> HIDE DEF p, r, rs
  <1> QED BY <1>2, <1>7, <1>8, SuitsKept

\* ... and so do the next ones, ...
LEMMA OutputSuits ==
  ASSUME FineState, OutputRead, UNCHANGED Remote
  PROVE  StdFineInv'
  <1> DEFINE p == Reply.pipe
             r == async_read(p, fd[p])
             rs == <<r>>
  <1>1. Receive("read", TRUE) /\ p # "ctrl" /\ Send(Rest(Reply), rs) /\ fd' = fd
    BY DEF OutputRead
  <1>2. /\ ClientTypeOK /\ p \in Pipe /\ Reply.op = "read" /\ Taken /\ Reply = toCli[1] /\ 1 \in DOMAIN toCli
        /\ Reply.status = "ok" /\ ~NoneOf(pending, "read", p)
    BY <1>1, Received DEF FineState, SessTypeOK, Receive
  <1>3. p \in Std /\ fd[p] \in Nat
    BY <1>1, <1>2 DEF Pipe, Std, ClientTypeOK
  <1>4. p \in srvOpen \/ inst[p] = "closed"
    BY <1>2, <1>3 DEF FineState, StdFineInv, StdFine
  <1>5. fd[p] # 0
    BY <1>2, <1>3 DEF FineState, Stored, StdInv
  <1>6. Suits(r) /\ r \in Wired(account)
    <2>1. p \in srvOpen => fd[p] = 1
      BY <1>3, <1>5, OneFile
    <2>2. Suits(r)
      BY <1>3, <1>4, <2>1, ReadSuits
    <2> QED BY <1>2, <1>3, <2>2, OwnRequestType
  <1>7. /\ rs \in Seq(Wired(account)) /\ Adds(rs) /\ \A j \in DOMAIN rs : Suits(rs[j])
    BY <1>1, <1>6, SendAdds DEF Send
  <1> HIDE DEF p, r, rs
  <1> QED BY <1>1, <1>2, <1>7, SuitsKept

\* A request fails only when the pipe was disconnected, and so may the close.
LEMMA StreamErrorSuits ==
  ASSUME FineState, ErrorReply, Reply.pipe # "ctrl", UNCHANGED Remote
  PROVE  StdFineInv'
  <1> DEFINE p == Reply.pipe
             x == async_close(p)
             rs == <<x>>
  <1>1. PICK op \in {"open", "read", "write"} : Receive(op, FALSE)
    BY DEF ErrorReply
  <1>2. SendOn(net, Undestroyed(p, Rest(Reply)), rs) /\ fd' = fd
    BY DEF ErrorReply, Fail, OnStdError
  <1>3. /\ ClientTypeOK /\ p \in Pipe /\ Taken /\ Reply = toCli[1] /\ 1 \in DOMAIN toCli /\ Reply.status # "ok"
    BY <1>1, Received DEF FineState, SessTypeOK, Receive
  <1>4. p \in Std
    BY <1>3 DEF Pipe, Std
  <1>5. inst[p] = "closed"
    BY <1>3, <1>4 DEF FineState, StdFineInv, StdFine
  <1>6. Suits(x) /\ x \in Wired(account)
    <2>1. 0 \in Nat
      OBVIOUS
    <2>2. x.pipe = p
      BY DEF async_close, Request
    <2> QED BY <1>3, <1>5, <2>1, <2>2, OwnRequestType DEF Suits
  <1>7. /\ rs \in Seq(Wired(account)) /\ Adds(rs) /\ \A j \in DOMAIN rs : Suits(rs[j])
    BY <1>2, <1>6, SendAdds
  <1> HIDE DEF p, x, rs
  <1> QED BY <1>2, <1>3, <1>7, SuitsKept

\* ... and the write of what the user typed.
LEMMA StdinSuits ==
  ASSUME FineState, StdinRead, UNCHANGED Remote
  PROVE  StdFineInv'
  <1> DEFINE w == async_write("in", fd["in"], Input)
             rs == <<w>>
  <1>1. stdinEv # "none" /\ Send(pending, rs) /\ fd' = fd /\ toCli' = toCli
    BY DEF StdinRead
  <1>2. /\ ClientTypeOK /\ "in" \in Pipe /\ "in" \in Std /\ fd["in"] \in Nat
    BY DEF FineState, SessTypeOK, ClientTypeOK, Pipe, Std
  <1>3. fd["in"] # 0
    BY <1>1 DEF FineState, Stored, StdInv
  <1>4. "in" \in srvOpen \/ inst["in"] = "closed"
    BY <1>2, <1>3 DEF FineState, StdFineInv, StdFine
  <1>5. Suits(w) /\ w \in Wired(account)
    <2>1. "in" \in srvOpen => w.fnum = srvFnum["in"]
      BY <1>2, <1>3, OneFile DEF async_write, Request, Cached
    <2>2. w.op = "write" /\ w.pipe = "in"
      BY DEF async_write, Request
    <2> QED BY <1>2, <1>4, <2>1, <2>2, OwnRequestType DEF Suits
  <1>6. /\ rs \in Seq(Wired(account)) /\ Adds(rs) /\ (\A j \in DOMAIN rs : Suits(rs[j])) /\ Taken
    BY <1>1, <1>5, SendAdds DEF Send, Taken
  <1> HIDE DEF w, rs
  <1> QED BY <1>1, <1>6, SuitsKept

\* The three streams are opened while the thread waits for the first of them.
LEMMA StdIoSuits ==
  ASSUME FineState, OnStdIoErr, UNCHANGED Remote
  PROVE  StdFineInv'
  <1>1. CtrlRead("std_io_err")
    BY DEF OnStdIoErr
  <1>2. /\ ClientTypeOK /\ Reply = toCli[1] /\ Fetched(1) /\ Popped("read", "ctrl") /\ fd' = fd
        /\ DOMAIN toCli[1].data = {1} /\ toCli[1].data[1].type = "std_io_err"
        /\ NextRead \in Wired(account) /\ Is(NextRead, "read", "ctrl")
    BY <1>1, MessageGot
  <1>3. 1 \in DOMAIN toCli /\ Taken
    BY <1>2, PoppedReply DEF Popped, Taken
  <1>4. Teller(1)
    BY <1>2 DEF Teller, Tells, Fetched
  <1>5. Loc = "connin" /\ StdQuiet
    BY <1>3, <1>4 DEF FineState, StdFineInv, Stored, TellInv
  <1>6. \A p \in Std : inst[p] = "listen"
    <2> SUFFICES ASSUME NEW p \in Std PROVE inst[p] = "listen"
      OBVIOUS
    <2>1. p \in Pipe /\ srvFnum[p] = 0
      BY <1>5 DEF StdQuiet, Std, Pipe
    <2>2. p \notin srvOpen
      BY <2>1 DEF FineState, Stored, NumberInv
    <2>3. inst[p] # "conn"
      BY <2>1, <2>2 DEF FineState, RunInv, IdleInv
    <2>4. Loc \in HoldsOf(p) \ Released
      BY <1>5 DEF HoldsOf, HoldsIn, HoldsOut, HoldsErr, Released, ReleaseLabels, Std
    <2>5. inst[p] \in {"listen", "conn"}
      BY <2>4 DEF FineState, StdFineInv, StdFine
    <2> QED BY <2>3, <2>5
  <1> DEFINE x == async_open("in")
             y == async_open("out")
             z == async_open("err")
             rs == <<x, y, z, NextRead>>
  <1>7. x \in Wired(account) /\ y \in Wired(account) /\ z \in Wired(account)
    <2>1. 0 \in Nat /\ "in" \in Pipe /\ "out" \in Pipe /\ "err" \in Pipe
      BY DEF Pipe
    <2> QED BY <1>2, <2>1, OwnRequestType
  <1>8. Suits(x) /\ Suits(y) /\ Suits(z) /\ Suits(NextRead)
    <2>1. /\ x.op = "open" /\ x.pipe = "in" /\ y.op = "open" /\ y.pipe = "out" /\ z.op = "open" /\ z.pipe = "err"
      BY DEF async_open, Request
    <2>2. Suits(NextRead)
      BY <1>2, CtrlSuits DEF Is
    <2> HIDE DEF x, y, z
    <2> QED BY <1>6, <2>1, <2>2 DEF Suits
  <1>9. /\ rs \in Seq(Wired(account)) /\ DOMAIN rs = 1..4 /\ rs[1] = x /\ rs[2] = y /\ rs[3] = z /\ rs[4] = NextRead
        /\ Send(Rest(Reply), rs)
    BY <1>2, <1>7 DEF OnStdIoErr
  <1> HIDE DEF x, y, z, rs
  <1>10. (\A j \in DOMAIN rs : Suits(rs[j])) /\ Adds(rs)
    BY <1>8, <1>9, SendAdds DEF Send
  <1> QED BY <1>2, <1>3, <1>9, <1>10, SuitsKept

-----------------------------------------------------------------------------
\* A step of the client.

\* The run goes on as it did.
Smoothly == FineInv' /\ CtrlFine' /\ StdFineInv' /\ codeSeen' = codeSeen

\* A step that starts no installation and loses nothing keeps the run one without faults.
LEMMA CalmFine ==
  ASSUME FineState, UNCHANGED <<svc, activated, net, abort_requested, abortSent>>,
         Staying', mode' = "install" => svc = "down"
  PROVE  FineInv'
  BY DEF FineState, FineInv

\* ... as every callback does that stays in the loop.
LEMMA LoopFine ==
  ASSUME FineState, UNCHANGED Remote, UNCHANGED <<mode, activated, net, abort_requested, abortSent>>
  PROVE  FineInv'
  <1>1. UNCHANGED svc
    BY RemoteSame
  <1>2. Staying' /\ (mode' = "install" => svc = "down")
    BY DEF FineState, FineInv, Staying
  <1> QED BY <1>1, <1>2, CalmFine

\* After the open of the control pipe (on_ctrl_pipe_open) the run goes on as it did.
LEMMA CtrlOpenedSmooth ==
  ASSUME FineState, CtrlOpened, UNCHANGED Remote
  PROVE  Smoothly
  <1>1. UNCHANGED <<mode, activated, net, abort_requested, abortSent, codeSeen>>
    BY DEF CtrlOpened, userVars
  <1>2. ClientTypeOK /\ Receive("open", TRUE) /\ "ctrl" \in Pipe
    BY DEF FineState, SessTypeOK, CtrlOpened, Pipe
  <1>3. Taken /\ Reply.fnum \in Nat
    BY <1>2, Received
  <1> DEFINE w == async_write("ctrl", Reply.fnum, GetVersion)
             r == async_read("ctrl", Reply.fnum)
             rs == <<w, r>>
  <1>4. SendOn(net, Rest(Reply), rs) /\ \A p \in Std : fd'[p] = fd[p]
    BY <1>2 DEF CtrlOpened, Send, ClientTypeOK, Std, Pipe
  <1>5. w \in Wired(account) /\ r \in Wired(account)
    BY <1>2, <1>3, OwnRequestType
  <1>6. w.pipe = "ctrl" /\ r.pipe = "ctrl"
    BY DEF async_write, async_read, Request
  <1>7. rs \in Seq(Wired(account)) /\ \A j \in DOMAIN rs : rs[j].pipe = "ctrl"
    BY <1>5, <1>6
  <1> HIDE DEF w, r, rs
  <1>8. StdFineInv'
    BY <1>3, <1>4, <1>7, CtrlSent
  <1> QED BY <1>1, <1>8, LoopFine, CtrlOpenedFine DEF Smoothly

\* After a message on it (on_ctrl_pipe_read) it does so too, unless the message was the code.
LEMMA MessageSmooth ==
  ASSUME FineState, CtrlMessage, UNCHANGED Remote
  PROVE  Smoothly \/ (codeSeen' /\ return_code' = pcode')
  <1>1. CASE OnReturnCode
    BY <1>1, CodeFine
  <1>2. CASE OnStdIoErr
    <2>1. UNCHANGED <<mode, activated, net, abort_requested, abortSent>>
      BY <1>2 DEF OnStdIoErr, CtrlRead, sigVars
    <2> QED BY <1>2, <2>1, LoopFine, StdIoFine, StdIoSuits DEF Smoothly
  <1>3. CASE OnVersion
    <2>1. UNCHANGED <<mode, activated, net, abort_requested, abortSent>> /\ CtrlRead("version")
      BY <1>3 DEF OnVersion, CtrlRead, sigVars
    <2>2. /\ ClientTypeOK /\ Popped("read", "ctrl") /\ fd' = fd /\ fd["ctrl"] \in Nat /\ "ctrl" \in Pipe
          /\ NextRead \in Wired(account) /\ NextRead.pipe = "ctrl"
      BY <2>1, MessageGot DEF Is, Pipe
    <2> DEFINE w == async_write("ctrl", fd["ctrl"], RunCommand)
               rs == <<w, NextRead>>
    <2>3. w \in Wired(account)
      BY <2>2, OwnRequestType DEF RunCommand
    <2>4. w.pipe = "ctrl"
      BY DEF async_write, Request
    <2>5. rs \in Seq(Wired(account)) /\ (\A j \in DOMAIN rs : rs[j].pipe = "ctrl")
      BY <2>2, <2>3, <2>4
    <2>6. SendOn(net, Rest(Reply), rs) /\ Taken /\ \A p \in Std : fd'[p] = fd[p]
      BY <1>3, <2>2 DEF OnVersion, Send, Popped, Taken
    <2> HIDE DEF w, rs
    <2>7. StdFineInv'
      BY <2>5, <2>6, CtrlSent
    <2> QED BY <1>3, <2>1, <2>7, LoopFine, VersionFine DEF Smoothly
  <1>4. CASE OnBadVersion \/ OnServiceError
    <2>1. PICK type : CtrlRead(type)
      BY <1>4 DEF OnServiceError, OnBadVersion
    <2>2. UNCHANGED <<mode, activated, net, abort_requested, abortSent>>
      BY <2>1 DEF CtrlRead, sigVars
    <2>3. /\ ClientTypeOK /\ Popped("read", "ctrl") /\ fd' = fd /\ fd["ctrl"] \in Nat /\ "ctrl" \in Pipe
          /\ NextRead \in Wired(account) /\ NextRead.pipe = "ctrl"
      BY <2>1, MessageGot DEF Is, Pipe
    <2>4. Taken /\ \A p \in Std : fd'[p] = fd[p]
      BY <2>3 DEF Popped, Taken
    <2>5. ASSUME CloseForReinstall PROVE StdFineInv'
      <3> DEFINE x == async_close("ctrl")
                 rs == <<x, NextRead>>
      <3>1. x \in Wired(account)
        BY <2>3, OwnRequestType
      <3>2. x.pipe = "ctrl"
        BY DEF async_close, Request
      <3>3. rs \in Seq(Wired(account)) /\ (\A j \in DOMAIN rs : rs[j].pipe = "ctrl")
        BY <2>3, <3>1, <3>2
      <3>4. SendOn(net, Rest(Reply), rs)
        BY <2>5 DEF CloseForReinstall, Send
      <3> HIDE DEF x, rs
      <3> QED BY <2>4, <3>3, <3>4, CtrlSent
    <2>6. ASSUME Send(Rest(Reply), <<NextRead>>) PROVE StdFineInv'
      <3> DEFINE rs == <<NextRead>>
      <3>1. rs \in Seq(Wired(account)) /\ (\A j \in DOMAIN rs : rs[j].pipe = "ctrl")
        BY <2>3
      <3>2. SendOn(net, Rest(Reply), rs)
        BY <2>6 DEF Send
      <3> HIDE DEF rs
      <3> QED BY <2>4, <3>1, <3>2, CtrlSent
    <2>7. StdFineInv'
      BY <1>4, <2>5, <2>6 DEF OnServiceError, OnBadVersion
    <2> QED BY <1>4, <2>2, <2>7, LoopFine, ErrorFine DEF Smoothly
  <1> QED BY <1>1, <1>2, <1>3, <1>4, NothingUnknown DEF CtrlMessage

\* It does after every other callback of a request.
LEMMA CompletionSmooth ==
  ASSUME FineState, CompletionStep
  PROVE  Smoothly \/ (codeSeen' /\ return_code' = pcode')
  <1>1. UNCHANGED Remote /\ ClientTypeOK
    BY DEF CompletionStep, FineState, SessTypeOK
  <1>2. CASE DropReply
    <2>1. UNCHANGED <<mode, activated, net, abort_requested, abortSent, toSrv, fd>> /\ Taken
      BY <1>2 DEF DropReply, stateVars, sigVars, reqVars, ioVars, Taken
    <2> QED BY <1>1, <1>2, <2>1, LoopFine, DropFine, NoneSent DEF Smoothly
  <1>3. CASE CtrlOpened
    BY <1>1, <1>3, CtrlOpenedSmooth
  <1>4. CASE StdOpened
    <2>1. UNCHANGED <<mode, activated, net, abort_requested, abortSent>>
      BY <1>4 DEF StdOpened, stateVars, sigVars
    <2> QED BY <1>1, <1>4, <2>1, LoopFine, StdOpenedFine, StdOpenedSuits DEF Smoothly
  <1>5. CASE CtrlMessage
    BY <1>1, <1>5, MessageSmooth
  <1>6. CASE OutputRead
    <2>1. UNCHANGED <<mode, activated, net, abort_requested, abortSent>>
      BY <1>6 DEF OutputRead, stateVars, sigVars
    <2> QED BY <1>1, <1>6, <2>1, LoopFine, OutputFine, OutputSuits DEF Smoothly
  <1>7. CASE Written
    <2>1. UNCHANGED <<mode, activated, net, abort_requested, abortSent, toSrv, fd>> /\ Taken
      BY <1>7 DEF Written, stateVars, sigVars, ioVars, Receive, Taken
    <2> QED BY <1>1, <1>7, <2>1, LoopFine, WrittenFine, NoneSent DEF Smoothly
  <1>8. CASE Closed
    <2>1. UNCHANGED <<activated, net, abort_requested, abortSent, toSrv, fd>> /\ Taken
      BY <1>8 DEF Closed, CloseDone, sigVars, Receive, Taken
    <2>2. StdFineInv'
      BY <1>1, <2>1, NoneSent
    <2>3. CASE Reply.pipe = "ctrl"
      <3>1. CtrlFine' /\ codeSeen' = codeSeen /\ mode' = "reinstall"
        BY <1>1, <1>8, <2>3, CtrlClosedFine
      <3>2. Staying' /\ mode' # "install" /\ UNCHANGED svc
        BY <1>1, <3>1, RemoteSame DEF Staying
      <3> QED BY <2>1, <2>2, <3>1, <3>2, CalmFine DEF Smoothly
    <2>4. CASE Reply.pipe # "ctrl"
      <3>1. mode' = mode
        BY <1>8, <2>4 DEF Closed, CloseDone
      <3> QED BY <1>1, <1>8, <2>1, <2>2, <2>4, <3>1, LoopFine, StreamClosedFine DEF Smoothly
    <2> QED BY <2>3, <2>4
  <1>9. CASE ErrorReply
    <2>1. UNCHANGED <<activated, net, abort_requested, abortSent, fd>> /\ Taken
      BY <1>9 DEF ErrorReply, Fail, sigVars, Receive, Taken
    <2>2. CASE Reply.pipe = "ctrl"
      <3>1. CtrlFine' /\ codeSeen' = codeSeen /\ mode' \in {"loop", "install"} /\ (mode' = "install" => svc = "down")
        BY <1>1, <1>9, <2>2, CtrlErrorFine
      <3>2. Staying' /\ UNCHANGED svc /\ toSrv' = toSrv
        BY <1>1, <1>9, <2>2, <3>1, RemoteSame DEF Staying, ErrorReply, Fail, OnCtrlError
      <3> QED BY <1>1, <2>1, <3>1, <3>2, CalmFine, NoneSent DEF Smoothly
    <2>3. CASE Reply.pipe # "ctrl"
      <3>1. mode' = mode
        BY <1>9, <2>3 DEF ErrorReply, Fail, OnStdError
      <3> QED BY <1>1, <1>9, <2>1, <2>3, <3>1, LoopFine, StreamErrorFine, StreamErrorSuits DEF Smoothly
    <2> QED BY <2>2, <2>3
  <1> QED BY <1>2, <1>3, <1>4, <1>5, <1>6, <1>7, <1>8, <1>9 DEF CompletionStep, Completion, CtrlMessage

\* The other events of the client, few of which come.
LEMMA EventSmooth ==
  ASSUME FineState, DeadStep \/ TimeoutStep \/ StdinStep \/ TimerStep \/ SignalStep \/ ExitStep \/ NetFail
  PROVE  Smoothly
  <1>1. Faults = {} /\ Signals = {} /\ FineInv
    BY DEF FineState, Smooth
  <1>2. CASE StdinStep
    <2>1. StdinRead /\ UNCHANGED Remote
      BY <1>2 DEF StdinStep
    <2>2. UNCHANGED <<mode, activated, net, abort_requested, abortSent>>
      BY <2>1 DEF StdinRead, stateVars, sigVars
    <2> QED BY <2>1, <2>2, LoopFine, StdinFine, StdinSuits DEF Smoothly
  <1>3. ~DeadStep /\ ~TimeoutStep /\ ~TimerStep /\ ~SignalStep /\ ~ExitStep /\ ~NetFail
    BY <1>1 DEF FineInv, DeadStep, TransportDead, TimeoutStep, TimerStep, Timer, SignalStep, ExitStep, Exit,
       Staying, NetFail
  <1> QED BY <1>2, <1>3

-----------------------------------------------------------------------------
\* A step of the thread.

\* A thread that reads lines waits for one, or answers the question for the
\* version.
LEMMA ThreadCalm ==
  ASSUME PipeTypeOK, Ready, c2s["ctrl"] \in {<<>>, GetVersion}, MayFail = {}, cont # "flush", ThreadNext
  PROVE  /\ inst' = inst /\ Loc' \in {"idle", "hgets"}
         /\ UNCHANGED pipeVars \/ (c2s["ctrl"] = GetVersion /\ c2s'["ctrl"] = <<>>)
  <1>1. /\ pc \in {"idle", "hgets"} \/ (pc = "flush" /\ cont \in {"idle", "hgets"})
        /\ inst["ctrl"] = "conn"
    BY DEF Ready, Loc
  <1>2. CASE HprintfReturn
    BY <1>1, <1>2 DEF HprintfReturn, Goto, Loc, pipeVars
  <1>3. CASE Accept \/ AcceptFails \/ AcceptUnserved
    BY <1>1, <1>3 DEF Accept, AcceptFails, AcceptUnserved, Loc, pipeVars
  <1>4. CASE c2s["ctrl"] = <<>> /\ pc = "hgets"
    BY <1>1, <1>4
    DEF ThreadNext, HprintfReturn, Accept, AcceptFails, AcceptUnserved, HgetsFails, Unknown, cmd_get, cmd_set,
        cmd_run, NextLine,
        TokenLogon, TokenOpenProcess, TokenImpersonate, TokenDuplicate, TokenCloseTmp, TokenRevert, MakePipes,
        MakePipe, SendStdIoErr, ConnectPipes, ConnectPipe, Spawn, Watch, WaitControl, WaitProcess, FlushOut,
        FlushErr, SendReturnCode, Release, DisconnectPipe, ClosePipe, CloseToken, Finish
  <1>5. CASE c2s["ctrl"] = GetVersion /\ pc = "hgets"
    <2>1. c2s["ctrl"] # <<>> /\ Head(c2s["ctrl"]) = CommandLine("get", "version") /\ Tail(c2s["ctrl"]) = <<>>
      BY <1>5 DEF GetVersion
    <2>2. Head(c2s["ctrl"]).verb = "get" /\ Arg = "version"
      BY <2>1 DEF CommandLine, Arg
    <2>3. CASE Unknown \/ cmd_get
      <3>1. \E m : ReadAndReply(m, "hgets")
        BY <2>2, <2>3 DEF Unknown, cmd_get
      <3>2. PICK m : ReadAndReply(m, "hgets")
        BY <3>1
      <3>3. inst' = inst /\ pc' = "flush" /\ cont' = "hgets" /\ c2s' = [c2s EXCEPT !["ctrl"] = Tail(@)]
        BY <3>2 DEF ReadAndReply
      <3>4. c2s'["ctrl"] = <<>>
        BY <2>1, <3>3 DEF PipeTypeOK, Pipe
      <3> QED BY <1>5, <3>3, <3>4 DEF Loc
    <2>4. CASE ~(Unknown \/ cmd_get)
      BY <1>1, <1>5, <2>1, <2>2, <2>4
      DEF ThreadNext, HprintfReturn, Accept, AcceptFails, AcceptUnserved, HgetsFails, cmd_set, cmd_run, NextLine,
          TokenLogon, TokenOpenProcess, TokenImpersonate, TokenDuplicate, TokenCloseTmp, TokenRevert, MakePipes,
          MakePipe, SendStdIoErr, ConnectPipes, ConnectPipe, Spawn, Watch, WaitControl, WaitProcess, FlushOut,
          FlushErr, SendReturnCode, Release, DisconnectPipe, ClosePipe, CloseToken, Finish
    <2> QED BY <2>3, <2>4
  <1>6. CASE pc # "hgets" /\ ~HprintfReturn /\ ~Accept /\ ~AcceptFails /\ ~AcceptUnserved
    BY <1>1, <1>6
    DEF ThreadNext, HgetsFails, Unknown, cmd_get, cmd_set, cmd_run, NextLine,
        TokenLogon, TokenOpenProcess, TokenImpersonate, TokenDuplicate, TokenCloseTmp, TokenRevert, MakePipes,
        MakePipe, SendStdIoErr, ConnectPipes, ConnectPipe, Spawn, Watch, WaitControl, WaitProcess, FlushOut,
        FlushErr, SendReturnCode, Release, DisconnectPipe, ClosePipe, CloseToken, Finish
  <1> QED BY <1>2, <1>3, <1>4, <1>5, <1>6

\* A thread that has no client does not move.
LEMMA ThreadAbsent ==
  ASSUME pc = "idle", inst["ctrl"] \in {"listen", "none"}, ThreadNext
  PROVE  FALSE
  BY DEF ThreadNext, HprintfReturn, Accept, AcceptFails, AcceptUnserved, HgetsFails, Unknown, cmd_get, cmd_set,
         cmd_run, NextLine,
         TokenLogon, TokenOpenProcess, TokenImpersonate, TokenDuplicate, TokenCloseTmp, TokenRevert, MakePipes,
         MakePipe, SendStdIoErr, ConnectPipes, ConnectPipe, Spawn, Watch, WaitControl, WaitProcess, FlushOut,
         FlushErr, SendReturnCode, Release, DisconnectPipe, ClosePipe, CloseToken, Finish

\* Where no call fails the thread has the token when it drops what it took it
\* from.
LEMMA ThreadToken ==
  ASSUME ThreadTypeOK, MayFail = {}, cont # "flush", ThreadNext,
         Loc \in {"closetmp", "revert"} => token # "none"
  PROVE  Loc' \in {"closetmp", "revert"} => token' # "none"
  <1>1. \A call, l : ~Fails(call, l)
    BY DEF Fails
  <1> USE DEF Loc
  <1>2. CASE HprintfReturn \/ Accept \/ AcceptFails \/ AcceptUnserved
    BY <1>2 DEF HprintfReturn, Accept, AcceptFails, AcceptUnserved, Goto
  <1>3. CASE HgetsFails \/ Unknown \/ cmd_get \/ cmd_set \/ cmd_run
    BY <1>3 DEF HgetsFails, Unknown, cmd_get, cmd_set, cmd_run, Goto, ReadAndReply, NextLine
  <1>4. CASE TokenLogon \/ TokenOpenProcess \/ TokenImpersonate
    BY <1>1, <1>4 DEF TokenLogon, TokenOpenProcess, TokenImpersonate
  <1>5. CASE TokenDuplicate \/ TokenCloseTmp \/ TokenRevert
    BY <1>1, <1>5 DEF TokenDuplicate, TokenCloseTmp, TokenRevert
  <1>6. CASE MakePipes \/ ConnectPipes
    BY <1>1, <1>6 DEF MakePipes, MakePipe, ConnectPipes, ConnectPipe, Goto, hprintf
  <1>7. CASE SendStdIoErr \/ SendReturnCode \/ Spawn
    BY <1>1, <1>7 DEF SendStdIoErr, SendReturnCode, Spawn, hprintf
  <1>8. CASE Watch \/ WaitControl \/ WaitProcess \/ FlushOut \/ FlushErr
    BY <1>8 DEF Watch, WaitControl, WaitProcess, FlushOut, FlushErr, Goto
  <1>9. CASE Release \/ CloseToken \/ Finish
    BY <1>9 DEF Release, DisconnectPipe, ClosePipe, CloseToken, Finish, Goto
  <1> QED BY <1>2, <1>3, <1>4, <1>5, <1>6, <1>7, <1>8, <1>9 DEF ThreadNext

\* The lines that run a command are lines the thread obeys.
Obeyed(l) == (l.verb = "set" /\ l.arg \in {"system", "runas"}) \/ (l.verb = "run" /\ l.arg = "command")

\* The lines that run a command are such lines, and so are those that are left of them.
LEMMA RunLines ==
  \A a, q : q \in {<<>>, RunCommandOf(a), Tail(RunCommandOf(a))} =>
      (q # <<>> => Obeyed(Head(q))) /\ (q # <<>> => Tail(q) \in {<<>>, Tail(RunCommandOf(a))})
  <1> SUFFICES ASSUME NEW a, NEW q, q \in {<<>>, RunCommandOf(a), Tail(RunCommandOf(a))}, q # <<>>
               PROVE  Obeyed(Head(q)) /\ Tail(q) \in {<<>>, Tail(RunCommandOf(a))}
    OBVIOUS
  <1> DEFINE s == CommandLine("run", "command")
  <1>1. Obeyed(s) /\ Obeyed(CommandLine("set", "runas")) /\ Obeyed(CommandLine("set", "system"))
    BY DEF Obeyed, CommandLine
  <1> HIDE DEF s
  <1>2. RunCommandOf(a) \in {<<CommandLine("set", "runas"), s>>, <<CommandLine("set", "system"), s>>, <<s>>}
    BY DEF RunCommandOf, s
  <1>3. Head(<<s>>) = s /\ Tail(<<s>>) = <<>>
    OBVIOUS
  <1>4. \A x : Head(<<x, s>>) = x /\ Tail(<<x, s>>) = <<s>>
    OBVIOUS
  <1>5. CASE RunCommandOf(a) = <<s>>
    BY <1>1, <1>3, <1>5
  <1>6. CASE \E x : RunCommandOf(a) = <<x, s>> /\ Obeyed(x)
    BY <1>1, <1>3, <1>4, <1>6
  <1> QED BY <1>1, <1>2, <1>5, <1>6

\* A thread that obeys all lines, with a client that stays connected, comes to
\* its end by way of the report.
LEMMA ThreadEndsWell ==
  ASSUME ConnTypeOK, MayFail = {}, cont # "flush", ThreadNext,
         c2s["ctrl"] # <<>> => Obeyed(Head(c2s["ctrl"])),
         inst["ctrl"] = "conn", \A p \in Std : inst[p] # "broken",
         Loc \in {"closetmp", "revert"} => token # "none", Loc \notin Released
  PROVE  Loc' \notin Released \/ pc = "report"
  <1>1. \A call, l : ~Fails(call, l)
    BY DEF Fails
  <1> USE DEF Loc, Released, ReleaseLabels
  <1>2. CASE HprintfReturn \/ Accept \/ AcceptFails \/ AcceptUnserved
    BY <1>2 DEF HprintfReturn, Accept, AcceptFails, AcceptUnserved, Goto
  <1>3. CASE HgetsFails \/ Unknown \/ cmd_get
    BY <1>3 DEF HgetsFails, Unknown, cmd_get, NextLine, Obeyed
  <1>4. CASE cmd_set
    BY <1>4 DEF cmd_set, NextLine, Obeyed, Arg
  <1>5. CASE cmd_run
    BY <1>5 DEF cmd_run, NextLine, Obeyed, Arg, Goto
  <1>6. CASE TokenLogon \/ TokenOpenProcess \/ TokenImpersonate
    BY <1>1, <1>6 DEF TokenLogon, TokenOpenProcess, TokenImpersonate
  <1>7. CASE TokenDuplicate \/ TokenCloseTmp \/ TokenRevert
    BY <1>1, <1>7 DEF TokenDuplicate, TokenCloseTmp, TokenRevert
  <1>8. CASE MakePipes
    BY <1>1, <1>8 DEF MakePipes, MakePipe
  <1>9. CASE ConnectPipes
    BY <1>1, <1>9 DEF ConnectPipes, ConnectPipe, Goto, Std
  <1>10. CASE SendStdIoErr \/ Spawn
    BY <1>1, <1>10 DEF SendStdIoErr, Spawn, hprintf
  <1>11. CASE Watch \/ WaitControl \/ WaitProcess \/ FlushOut \/ FlushErr
    BY <1>11 DEF Watch, WaitControl, WaitProcess, FlushOut, FlushErr, Goto
  <1>12. CASE SendReturnCode
    BY <1>12 DEF SendReturnCode
  <1>13. CASE Release \/ CloseToken \/ Finish
    BY <1>13 DEF Release, DisconnectPipe, ClosePipe, CloseToken, Finish
  <1> QED BY <1>2, <1>3, <1>4, <1>5, <1>6, <1>7, <1>8, <1>9, <1>10, <1>11, <1>12, <1>13 DEF ThreadNext

\* What the thread has written to a client stays until the client has read it.
LEMMA ThreadLeaves ==
  ASSUME PipeTypeOK, ConnInv, ThreadNext, s2c["ctrl"] # <<>>
  PROVE  UNCHANGED pipeVars
  <1>1. pc = "flush"
    BY DEF ConnInv
  <1> QED BY <1>1
    DEF ThreadNext, HprintfReturn, Accept, AcceptFails, AcceptUnserved, HgetsFails, Unknown, cmd_get, cmd_set,
        cmd_run, NextLine,
        TokenLogon, TokenOpenProcess, TokenImpersonate, TokenDuplicate, TokenCloseTmp, TokenRevert, MakePipes,
        MakePipe, SendStdIoErr, ConnectPipes, ConnectPipe, Spawn, Watch, WaitControl, WaitProcess, FlushOut,
        FlushErr, SendReturnCode, Release, DisconnectPipe, ClosePipe, CloseToken, Finish

\* The code is written to a client that is there.
LEMMA ThreadReports ==
  ASSUME PipeTypeOK, pc = "report", inst["ctrl"] = "conn", ThreadNext
  PROVE  Mentions(s2c'["ctrl"], "return_code")
  <1>1. SendReturnCode
    BY DEF ThreadNext, HprintfReturn, Accept, AcceptFails, AcceptUnserved, HgetsFails, Unknown, cmd_get,
           cmd_set, cmd_run, NextLine,
           TokenLogon, TokenOpenProcess, TokenImpersonate, TokenDuplicate, TokenCloseTmp, TokenRevert, MakePipes,
           MakePipe, SendStdIoErr, ConnectPipes, ConnectPipe, Spawn, Watch, WaitControl, WaitProcess, FlushOut,
           FlushErr, Release, DisconnectPipe, ClosePipe, CloseToken, Finish
  <1> DEFINE s == s2c["ctrl"]
             m == Msg("return_code", ec)
  <1>2. s \in Seq(Message) /\ s2c'["ctrl"] = Append(s, m)
    BY <1>1 DEF SendReturnCode, hprintf, WriteFile, PipeTypeOK, Pipe
  <1>3. m.type = "return_code"
    BY DEF Msg
  <1> HIDE DEF s, m
  <1>4. Len(s) + 1 \in DOMAIN Append(s, m) /\ Append(s, m)[Len(s) + 1] = m
    BY <1>2
  <1> QED BY <1>2, <1>3, <1>4 DEF Mentions

\* The standard pipes are made one after the other, and closed at the end.
LEMMA ThreadPipes ==
  ASSUME PipeTypeOK, MayFail = {}, cont # "flush", ThreadNext, NEW p \in Std
  PROVE  /\ \/ inst'[p] = inst[p]
            \/ inst'[p] = "listen" /\ pc # "flush" /\ Loc \in BeforeStdio /\ Loc \notin HoldsOf(p)
            \/ inst'[p] = "closed" /\ Loc' \in Released
         /\ Loc \in Released => Loc' \in Released
         /\ Loc' \in HoldsOf(p) \ Released => Loc \in HoldsOf(p) \ Released \/ inst'[p] = "listen"
  <1>1. \A call, l : ~Fails(call, l)
    BY DEF Fails
  <1>2. p \in Pipe /\ p \in {"in", "out", "err"} /\ p # "ctrl" /\ inst \in [Pipe -> InstState]
    BY DEF Std, Pipe, PipeTypeOK
  <1>3. \A q \in Pipe : CreateNamedPipe(q) => IF p = q THEN inst'[p] = "listen" ELSE inst'[p] = inst[p]
    BY <1>2 DEF CreateNamedPipe
  <1>4. \A q \in Pipe : Disconnect(q) => IF p = q THEN inst'[p] = "closed" ELSE inst'[p] = inst[p]
    BY <1>2 DEF Disconnect
  <1>5. "in" \in Pipe /\ "out" \in Pipe /\ "err" \in Pipe /\ "ctrl" \in Pipe
    BY DEF Pipe
  <1>6. /\ HoldsErr \subseteq HoldsOf(p) /\ HoldsOf(p) \subseteq HoldsIn
        /\ HoldsOf(p) \in {HoldsErr, HoldsOut, HoldsIn}
    BY <1>2 DEF HoldsOf, HoldsOut, HoldsIn
  <1> DEFINE Stays == inst'[p] = inst[p] /\ (Loc \in Released => Loc' \in Released)
             On == Loc' \in HoldsOf(p) \ Released => Loc \in HoldsOf(p) \ Released
  <1>7. CASE HprintfReturn \/ Accept
    <2>1. Stays /\ On
      BY <1>7 DEF HprintfReturn, Accept, Goto, Loc, pipeVars, Released, ReleaseLabels, HoldsIn, HoldsOut,
         HoldsErr, HoldsOf
    <2> QED BY <2>1
  <1>8. CASE AcceptFails \/ Finish
    <2>1. Stays /\ Loc' = "done"
      BY <1>2, <1>4, <1>5, <1>8
      DEF AcceptFails, Finish, ClosePipe, Goto, Loc, Released
    <2>2. "done" \in Released
      BY DEF Released
    <2> QED BY <2>1, <2>2
  <1>9. CASE HgetsFails \/ Unknown \/ cmd_get \/ cmd_set \/ cmd_run
    <2>1. inst' = inst /\ pc = "hgets" /\ Loc' \in {"hgets", "finish", "token"}
      BY <1>9
      DEF HgetsFails, Unknown, cmd_get, cmd_set, cmd_run, NextLine, ReadFile, ReadAndReply, Goto, Loc, pipeVars
    <2>2. Loc \notin Released /\ Loc' \notin HoldsIn
      BY <2>1 DEF Loc, Released, ReleaseLabels, HoldsIn, HoldsOut, HoldsErr
    <2> QED BY <1>6, <2>1, <2>2
  <1>10. CASE TokenLogon \/ TokenOpenProcess \/ TokenImpersonate \/ TokenDuplicate \/ TokenCloseTmp \/ TokenRevert
    <2>1. /\ inst' = inst /\ pc \in {"token", "dup", "closetmp", "revert"}
          /\ Loc' \in {"mkin", "dup", "closetmp", "revert", "finish"}
      BY <1>1, <1>10
      DEF TokenLogon, TokenOpenProcess, TokenImpersonate, TokenDuplicate, TokenCloseTmp, TokenRevert, Loc,
         pipeVars, Fails
    <2>2. Loc \notin Released /\ Loc' \notin HoldsIn
      BY <2>1 DEF Loc, Released, ReleaseLabels, HoldsIn, HoldsOut, HoldsErr
    <2> QED BY <1>6, <2>1, <2>2
  <1>11. CASE MakePipes
    <2>1. \/ pc = "mkin" /\ pc' = "mkout" /\ CreateNamedPipe("in")
          \/ pc = "mkout" /\ pc' = "mkerr" /\ CreateNamedPipe("out")
          \/ pc = "mkerr" /\ pc' = "stdio" /\ CreateNamedPipe("err")
      BY <1>1, <1>11 DEF MakePipes, MakePipe
    <2>2. Loc \in BeforeStdio /\ Loc \notin Released /\ pc # "flush"
      BY <2>1 DEF Loc, BeforeStdio, Released, ReleaseLabels
    <2>3. CASE pc = "mkin" /\ pc' = "mkout" /\ CreateNamedPipe("in")
      BY <1>2, <1>3, <1>5, <2>2, <2>3 DEF HoldsOf, HoldsIn, HoldsOut, HoldsErr, Loc
    <2>4. CASE pc = "mkout" /\ pc' = "mkerr" /\ CreateNamedPipe("out")
      BY <1>2, <1>3, <1>5, <2>2, <2>4 DEF HoldsOf, HoldsIn, HoldsOut, HoldsErr, Loc
    <2>5. CASE pc = "mkerr" /\ pc' = "stdio" /\ CreateNamedPipe("err")
      BY <1>2, <1>3, <1>5, <2>2, <2>5 DEF HoldsOf, HoldsIn, HoldsOut, HoldsErr, Loc
    <2> QED BY <2>1, <2>3, <2>4, <2>5
  <1>12. CASE SendStdIoErr \/ ConnectPipes \/ Spawn \/ Watch \/ SendReturnCode
    <2>1. inst' = inst /\ pc \in HoldsErr \ Released
      BY <1>1, <1>12
      DEF SendStdIoErr, ConnectPipes, ConnectPipe, Spawn, Watch, SendReturnCode, hprintf, WriteFile, ReadFile,
         pipeVars,
          HoldsErr, Released, ReleaseLabels
    <2>2. Loc = pc
      BY <2>1 DEF HoldsErr, Loc
    <2> QED BY <1>6, <2>1, <2>2
  <1>13. CASE WaitControl \/ WaitProcess \/ FlushOut \/ FlushErr
    <2>1. inst' = inst /\ pc \in HoldsErr \ Released
      BY <1>13 DEF WaitControl, WaitProcess, FlushOut, FlushErr, pipeVars, HoldsErr, Released, ReleaseLabels
    <2>2. Loc = pc
      BY <2>1 DEF HoldsErr, Loc
    <2> QED BY <1>6, <2>1, <2>2
  <1>14. CASE Release
    <2>1. Loc' \in Released /\ (inst'[p] = inst[p] \/ inst'[p] = "closed")
      BY <1>4, <1>5, <1>14 DEF Release, DisconnectPipe, ClosePipe, Goto, Loc, Released, ReleaseLabels
    <2> QED BY <2>1
  <1>15. CASE CloseToken
    <2>1. Loc' \in Released /\ inst' = inst
      BY <1>15 DEF CloseToken, Loc, Released, pipeVars
    <2> QED BY <2>1
  <1>16. CASE AcceptUnserved
    <2>1. inst' = inst /\ Loc = "idle" /\ Loc' = "unserved"
      BY <1>16 DEF AcceptUnserved, hprintf, WriteFile, Loc
    <2>2. Loc \notin Released /\ Loc' \notin HoldsIn
      BY <2>1 DEF Released, ReleaseLabels, HoldsIn, HoldsOut, HoldsErr
    <2> QED BY <1>6, <2>1, <2>2
  <1> QED BY <1>7, <1>8, <1>9, <1>10, <1>11, <1>12, <1>13, <1>14, <1>15, <1>16 DEF ThreadNext

\* What the thread leaves alone.
LEMMA ThreadSame ==
  ASSUME FineState, ThreadStep
  PROVE  /\ UNCHANGED <<account, state, mode, activated, net, abort_requested, abortSent, codeSeen>>
         /\ UNCHANGED <<toSrv, toCli, pending, fd, io_read, io_write, stdinEv, svc, srvOpen, srvFnum, parked>>
         /\ UNCHANGED <<return_code>>
         /\ ThreadNext /\ ConnTypeOK /\ PipeTypeOK /\ ThreadTypeOK /\ ConnInv
         /\ cont \notin Ending \union {"flush", "wait"} /\ MayFail = {} /\ ~Cut
  <1>1. /\ UNCHANGED <<account, state, mode, activated, net, abort_requested, abortSent, codeSeen>>
        /\ UNCHANGED <<toSrv, toCli, pending, fd, io_read, io_write, stdinEv, svc, srvOpen, srvFnum, parked>>
        /\ UNCHANGED return_code /\ ThreadNext
    BY DEF ThreadStep, clientVars, stateVars, ioVars, reqVars, sigVars, userVars, srvVars
  <1>2. /\ ConnTypeOK /\ PipeTypeOK /\ ThreadTypeOK /\ ConnInv
        /\ cont \notin Ending \union {"flush", "wait"} /\ MayFail = {}
    BY DEF FineState, SessTypeOK, ConnTypeOK, ServiceInv, ConnInv, Ending, Smooth
  <1>3. ~Cut
    BY DEF FineState, FineInv, Staying, Cut, Gone
  <1> QED BY <1>1, <1>2, <1>3

\* What the thread says has not been read when it is said, and is there until
\* it is.
LEMMA ThreadCodeDue ==
  ASSUME FineState, ThreadStep, CodeDue
  PROVE  CodeDue'
  <1>1. UNCHANGED <<toCli, codeSeen>> /\ ThreadNext /\ PipeTypeOK /\ ConnInv
    BY ThreadSame
  <1>2. Mentions(s2c["ctrl"], "return_code") => s2c["ctrl"] # <<>>
    BY NothingMentioned
  <1>3. Mentions(s2c["ctrl"], "return_code") => Mentions(s2c'["ctrl"], "return_code")
    BY <1>1, <1>2, ThreadLeaves DEF pipeVars
  <1>4. \A i : Coder(i)' <=> Coder(i)
    BY <1>1 DEF Coder, Fetched
  <1> QED BY <1>1, <1>3, <1>4 DEF CodeDue

\* The thread takes its way.
LEMMA ThreadPath ==
  ASSUME FineState, ThreadStep
  PROVE  PathInv'
  <1>1. /\ state' = state /\ ThreadNext /\ ConnTypeOK /\ PipeTypeOK /\ ThreadTypeOK /\ ConnInv
        /\ cont # "flush" /\ MayFail = {} /\ ~Cut
    BY ThreadSame
  <1>2. PathInv /\ TalkInv /\ LineInv /\ \A p \in Std : inst[p] # "broken"
    BY DEF FineState, CtrlFine, RunInv, StdFineInv, StdFine
  <1>3. Loc' \in {"closetmp", "revert"} => token' # "none"
    BY <1>1, <1>2, ThreadToken DEF PathInv
  <1>4. ASSUME state = "RUNNING", Loc' \in Released
        PROVE  CodeDue'
    <2>1. CASE Loc \in Released
      BY <1>2, <1>4, <2>1, ThreadCodeDue DEF PathInv
    <2>2. CASE Loc \notin Released
      <3>1. inst["ctrl"] = "conn"
        BY <1>1, <1>2, <1>4, <2>2 DEF LineInv, Held, Released
      <3>2. c2s["ctrl"] \in {<<>>, RunCommandOf(account), Tail(RunCommandOf(account))}
        BY <1>2, <1>4 DEF TalkInv
      <3>3. c2s["ctrl"] # <<>> => Obeyed(Head(c2s["ctrl"]))
        BY <3>2, RunLines
      <3>4. Loc \in {"closetmp", "revert"} => token # "none"
        BY <1>2 DEF PathInv
      <3>5. pc = "report"
        BY <1>1, <1>2, <1>4, <2>2, <3>1, <3>3, <3>4, ThreadEndsWell
      <3> QED BY <1>1, <3>1, <3>5, ThreadReports DEF CodeDue
    <2> QED BY <2>1, <2>2
  <1> QED BY <1>1, <1>3, <1>4 DEF PathInv

\* It answers the question for the version, or obeys.
LEMMA ThreadCtrl ==
  ASSUME FineState, ThreadStep
  PROVE  CtrlFine'
  <1>1. /\ UNCHANGED <<account, state, mode, toSrv, toCli, pending, io_read, io_write, svc, srvOpen, srvFnum, parked>>
        /\ ThreadNext /\ PipeTypeOK /\ ThreadTypeOK /\ MayFail = {} /\ cont \notin {"flush", "wait"}
    BY ThreadSame
  <1>2. TalkInv /\ OpeningInv /\ ReadingInv /\ FileInv /\ ClosingInv /\ RoundInv
    BY DEF FineState, CtrlFine, Stored
  <1>3. ReadingInv'
    BY <1>1, <1>2 DEF ReadingInv, OneUnderway, NoneUnderway, Fetched
  <1>4. FileInv' /\ ClosingInv'
    BY <1>1, <1>2 DEF FileInv, ClosingInv
  <1>5. NoneFetched' = NoneFetched /\ NoneWritten' = NoneWritten
    BY <1>1 DEF NoneFetched, Fetched, NoneWritten
  <1>6. ASSUME Ready, c2s["ctrl"] \in {<<>>, GetVersion}
        PROVE  /\ Ready'
               /\ UNCHANGED pipeVars \/ (c2s["ctrl"] = GetVersion /\ c2s'["ctrl"] = <<>>)
    BY <1>1, <1>6, ThreadCalm DEF Ready
  <1>7. <<>> # GetVersion
    BY DEF GetVersion
  <1>8. ASSUME Ready, c2s["ctrl"] = <<>>
        PROVE  Ready' /\ UNCHANGED <<inst, c2s, s2c>>
    BY <1>6, <1>7, <1>8 DEF pipeVars
  <1>9. ~NoneWritten => Ready /\ c2s["ctrl"] = <<>>
    <2>1. state \in {"OPENING", "GETTING_VERSION", "RUNNING", "CLOSING_FOR_REINSTALL"}
      BY DEF FineState, SessTypeOK, ClientTypeOK
    <2>2. ~NoneWritten => Ready
      BY <1>2 DEF TalkInv, NoneWritten, NoneOf
    <2>3. ~NoneWritten => c2s["ctrl"] = <<>>
      BY <1>2, <2>1 DEF TalkInv
    <2> QED BY <2>2, <2>3
  <1>10. TalkInv'
    <2>1. \A i \in DOMAIN toSrv' : Is(toSrv'[i], "write", "ctrl") =>
              /\ Ready' /\ toSrv'[i].fnum = srvFnum'["ctrl"]
              /\ toSrv'[i].items = IF state' = "RUNNING" THEN RunCommandOf(account') ELSE GetVersion
      BY <1>1, <1>2, <1>8, <1>9 DEF TalkInv, NoneWritten, NoneOf
    <2>2. state' = "GETTING_VERSION" =>
              /\ Ready' /\ c2s'["ctrl"] \in {<<>>, GetVersion}
              /\ NoneWritten' \/ (c2s'["ctrl"] = <<>> /\ Silent')
              /\ c2s'["ctrl"] = <<>> \/ Silent'
              /\ s2c'["ctrl"] = <<>> \/ NoneFetched'
      <3> SUFFICES ASSUME state = "GETTING_VERSION"
                   PROVE  /\ Ready' /\ c2s'["ctrl"] \in {<<>>, GetVersion}
                          /\ NoneWritten' \/ (c2s'["ctrl"] = <<>> /\ Silent')
                          /\ c2s'["ctrl"] = <<>> \/ Silent'
                          /\ s2c'["ctrl"] = <<>> \/ NoneFetched'
        BY <1>1
      <3>1. /\ Ready /\ c2s["ctrl"] \in {<<>>, GetVersion}
            /\ NoneWritten \/ (c2s["ctrl"] = <<>> /\ Silent)
            /\ c2s["ctrl"] = <<>> \/ Silent
            /\ s2c["ctrl"] = <<>> \/ NoneFetched
        BY <1>2 DEF TalkInv
      <3>2. CASE UNCHANGED pipeVars
        BY <1>5, <1>6, <3>1, <3>2 DEF pipeVars, Silent
      <3>3. CASE c2s["ctrl"] = GetVersion /\ c2s'["ctrl"] = <<>>
        BY <1>5, <1>6, <1>7, <3>1, <3>3 DEF Silent
      <3> QED BY <1>6, <3>1, <3>2, <3>3
    <2>3. state' = "RUNNING" =>
              /\ c2s'["ctrl"] \in {<<>>, RunCommandOf(account'), Tail(RunCommandOf(account'))}
              /\ NoneWritten' \/ c2s'["ctrl"] = <<>>
      <3> SUFFICES ASSUME state = "RUNNING"
                   PROVE  /\ c2s'["ctrl"] \in {<<>>, RunCommandOf(account), Tail(RunCommandOf(account))}
                          /\ NoneWritten \/ c2s'["ctrl"] = <<>>
        BY <1>1, <1>5
      <3>1. /\ c2s["ctrl"] \in {<<>>, RunCommandOf(account), Tail(RunCommandOf(account))}
            /\ NoneWritten \/ c2s["ctrl"] = <<>>
        BY <1>2 DEF TalkInv
      <3>2. \/ c2s'["ctrl"] = c2s["ctrl"] \/ c2s'["ctrl"] = <<>>
            \/ c2s["ctrl"] # <<>> /\ c2s'["ctrl"] = Tail(c2s["ctrl"])
        BY <1>1, ThreadReads
      <3> QED BY <3>1, <3>2, RunLines
    <2>4. /\ \A i \in DOMAIN toCli' : Is(toCli'[i], "write", "ctrl") => toCli'[i].status = "ok"
          /\ OnceOf(toSrv', "write", "ctrl")
          /\ state' \in {"OPENING", "CLOSING_FOR_REINSTALL"} => NoneWritten'
      BY <1>1, <1>2, <1>5 DEF TalkInv
    <2> QED BY <2>1, <2>2, <2>3, <2>4 DEF TalkInv
  <1>11. OpeningInv'
    <2>1. ASSUME state = "OPENING"
          PROVE  /\ c2s["ctrl"] = <<>> /\ Ready
                 /\ Ready' /\ UNCHANGED <<inst, c2s, s2c>>
      <3>1. /\ c2s["ctrl"] = <<>>
            /\ Ready \/ (pc = "idle" /\ inst["ctrl"] \in {"listen", "none"})
        BY <1>2, <2>1 DEF OpeningInv
      <3>2. Ready
        BY <1>1, <3>1, ThreadAbsent
      <3> QED BY <1>8, <3>1, <3>2
    <2>2. state' = "OPENING" =>
              /\ c2s'["ctrl"] = <<>> /\ s2c'["ctrl"] = <<>> /\ Ready'
              /\ Before(toSrv', "read", "open") /\ Before(toCli', "read", "open")
      BY <1>1, <1>2, <2>1 DEF OpeningInv
    <2>3. NoneOf(toSrv', "open", "ctrl") \/ inst'["ctrl"] # "conn"
      BY <1>1, <1>2, ThreadTells DEF OpeningInv, Pipe
    <2>4. \A i \in DOMAIN toCli' : Is(toCli'[i], "open", "ctrl") =>
              /\ NoneOf(toSrv', "read", "ctrl")
              /\ IF toCli'[i].status = "ok" THEN Ready' ELSE toCli'[i].status = "notfound" /\ svc' = "down"
      <3>1. \A i \in DOMAIN toCli : Is(toCli[i], "open", "ctrl") => state = "OPENING"
        BY <1>2 DEF RoundInv, NoneUnderway, NoneOf
      <3> QED BY <1>1, <1>2, <2>1, <3>1 DEF OpeningInv
    <2> QED BY <2>2, <2>3, <2>4 DEF OpeningInv
  <1> QED BY <1>3, <1>4, <1>10, <1>11, ThreadPath DEF CtrlFine

\* It makes the standard pipes before they are known, and closes them when the
\* code is sent.
LEMMA ThreadStd ==
  ASSUME FineState, ThreadStep
  PROVE  StdFineInv'
  <1>1. /\ UNCHANGED <<state, toSrv, toCli, fd, srvOpen, srvFnum>>
        /\ ThreadNext /\ PipeTypeOK /\ ThreadTypeOK /\ MayFail = {} /\ cont # "flush"
    BY ThreadSame
  <1>2. NumberInv /\ TellInv /\ IdleInv /\ StdFineInv
    BY DEF FineState, Stored, RunInv
  <1>3. ASSUME NEW p \in Std
        PROVE  StdFine(p)'
    <2>1. /\ \/ inst'[p] = inst[p]
             \/ inst'[p] = "listen" /\ Loc \in BeforeStdio
             \/ inst'[p] = "closed" /\ Loc' \in Released
          /\ Loc \in Released => Loc' \in Released
          /\ Loc' \in HoldsOf(p) \ Released => Loc \in HoldsOf(p) \ Released \/ inst'[p] = "listen"
      BY <1>1, <1>3, ThreadPipes
    <2>2. StdFine(p)
      BY <1>2, <1>3 DEF StdFineInv
    <2>3. HoldsOf(p)' = HoldsOf(p) /\ Released' = Released
      BY DEF HoldsOf, HoldsIn, HoldsOut, HoldsErr, Released
    <2>4. CASE inst'[p] = inst[p]
      BY <1>1, <2>1, <2>2, <2>3, <2>4 DEF StdFine
    <2>5. CASE inst'[p] = "listen" /\ Loc \in BeforeStdio
      <3>1. StdQuiet
        BY <1>2, <2>5 DEF TellInv
      <3>2. p \in Pipe /\ p # "ctrl"
        BY <1>3 DEF Std, Pipe
      <3>3. /\ fd[p] = 0 /\ p \notin srvOpen
            /\ \A i \in DOMAIN toSrv : toSrv[i].pipe # p
            /\ \A i \in DOMAIN toCli : toCli[i].pipe # p
        BY <1>2, <1>3, <3>1, <3>2 DEF StdQuiet, NumberInv
      <3> QED BY <1>1, <2>5, <3>3 DEF StdFine
    <2>6. CASE inst'[p] = "closed" /\ Loc' \in Released
      BY <1>1, <2>3, <2>6 DEF StdFine
    <2> QED BY <2>1, <2>4, <2>5, <2>6
  <1>4. ASSUME Tells(s2c'["ctrl"]) \/ (\E i \in DOMAIN toCli' : Teller(i)')
        PROVE  Loc' = "connin"
    <2>1. Tells(s2c'["ctrl"]) => Tells(s2c["ctrl"]) \/ pc = "stdio"
      BY <1>1, ThreadTells
    <2>2. \A i : Teller(i)' <=> Teller(i)
      BY <1>1 DEF Teller
    <2>3. CASE pc = "stdio"
      <3>1. SendStdIoErr
        BY <1>1, <2>3
        DEF ThreadNext, HprintfReturn, Accept, AcceptFails, AcceptUnserved, HgetsFails, Unknown, cmd_get,
            cmd_set, cmd_run, NextLine,
            TokenLogon, TokenOpenProcess, TokenImpersonate, TokenDuplicate, TokenCloseTmp, TokenRevert, MakePipes,
            MakePipe, ConnectPipes, ConnectPipe, Spawn, Watch, WaitControl, WaitProcess, FlushOut,
            FlushErr, SendReturnCode, Release, DisconnectPipe, ClosePipe, CloseToken, Finish
      <3> QED BY <3>1 DEF SendStdIoErr, hprintf, Loc
    <2>4. CASE Tells(s2c["ctrl"]) \/ \E i \in DOMAIN toCli : Teller(i)
      <3>1. Loc = "connin" /\ StdQuiet
        BY <1>2, <2>4 DEF StdFineInv, TellInv
      <3>2. "in" \in Std /\ "in" \in Pipe
        BY DEF Std, Pipe
      <3>3. inst["in"] # "conn" /\ inst["in"] # "broken"
        BY <1>2, <3>1, <3>2 DEF StdQuiet, NumberInv, IdleInv, StdFineInv, StdFine
      <3>4. pc = "connin" \/ (pc = "flush" /\ cont = "connin")
        BY <3>1 DEF Loc
      <3>5. ~ConnectPipes
        BY <1>1, <3>3, <3>4 DEF ConnectPipes, ConnectPipe, Fails
      <3>6. HprintfReturn
        BY <1>1, <3>4, <3>5
        DEF ThreadNext, Accept, AcceptFails, AcceptUnserved, HgetsFails, Unknown, cmd_get, cmd_set, cmd_run, NextLine,
            TokenLogon, TokenOpenProcess, TokenImpersonate, TokenDuplicate, TokenCloseTmp, TokenRevert, MakePipes,
            MakePipe, SendStdIoErr, Spawn, Watch, WaitControl, WaitProcess, FlushOut,
            FlushErr, SendReturnCode, Release, DisconnectPipe, ClosePipe, CloseToken, Finish
      <3> QED BY <3>4, <3>6 DEF HprintfReturn, Goto, Loc
    <2> QED BY <1>1, <1>4, <2>1, <2>2, <2>3, <2>4
  <1> QED BY <1>3, <1>4 DEF StdFineInv

\* A step of the thread leaves all in order.
LEMMA ThreadSmooth ==
  ASSUME FineState, ThreadStep
  PROVE  Smoothly
  <1>1. UNCHANGED <<svc, mode, activated, net, abort_requested, abortSent, codeSeen>>
    BY ThreadSame
  <1>2. FineInv'
    BY <1>1 DEF FineState, FineInv, Staying
  <1> QED BY <1>1, <1>2, ThreadCtrl, ThreadStd DEF Smoothly

-----------------------------------------------------------------------------
\* The process and the service manager.

\* The process works with its own streams.
LEMMA ProcessSmooth ==
  ASSUME FineState, ProcWriteStep \/ ProcReadStep \/ ProcExitStep
  PROVE  Smoothly
  <1>1. /\ UNCHANGED <<account, state, mode, activated, net, abort_requested, abortSent, codeSeen>>
        /\ UNCHANGED <<toSrv, toCli, pending, fd, io_read, io_write, stdinEv, svc, srvOpen, srvFnum, parked>>
        /\ ProcNext /\ PipeTypeOK /\ ClientTypeOK
    BY DEF ProcWriteStep, ProcReadStep, ProcExitStep, clientVars, stateVars, ioVars, reqVars, sigVars,
       userVars, srvVars,
           ProcNext, FineState, SessTypeOK, ConnTypeOK
  <1>2. /\ inst' = inst /\ c2s'["ctrl"] = c2s["ctrl"] /\ s2c'["ctrl"] = s2c["ctrl"]
        /\ UNCHANGED <<pc, cont, token>>
    <2>1. CASE \E p \in {"out", "err"} : ProcWrite(p)
      BY <1>1, <2>1 DEF ProcWrite, WriteFile, threadVars, PipeTypeOK, Pipe
    <2>2. CASE ProcRead
      BY <1>1, <2>2 DEF ProcRead, ReadFile, threadVars, PipeTypeOK, Pipe
    <2>3. CASE \E code \in ExitCodes : ProcExit(code)
      BY <1>1, <2>3 DEF ProcExit, pipeVars
    <2> QED BY <1>1, <2>1, <2>2, <2>3 DEF ProcNext
  <1>3. CtrlKept
    BY <1>1, <1>2 DEF CtrlKept
  <1>4. WaitsKept
    BY <1>1 DEF WaitsKept
  <1>5. Alike(toSrv, toSrv') /\ Alike(toCli, toCli')
    BY <1>1, AlikeSame DEF ClientTypeOK
  <1>6. CtrlFine'
    BY <1>1, <1>3, <1>4, <1>5, AsideFine DEF Aside, FineState
  <1>7. StdFineInv'
    <2>1. Loc' = Loc
      BY <1>2 DEF Loc
    <2> QED BY <1>1, <1>2, <2>1 DEF FineState, StdFineInv, StdFine, HoldsOf, Teller
  <1>8. FineInv'
    BY <1>1 DEF FineState, FineInv, Staying
  <1> QED BY <1>1, <1>6, <1>7, <1>8 DEF Smoothly

\* A service that was put in place has a pipe and a thread that waits for its
\* client.
LEMMA RestartSmooth ==
  ASSUME FineState, NEW v, Restart("up", v), mode \in {"install", "reinstall"}, mode' = "loop", state' = "OPENING",
         Send(pending, <<async_open("ctrl")>>), UNCHANGED srvVars,
         UNCHANGED <<ioVars, sigVars, userVars, net, toCli>>
  PROVE  Smoothly
  <1>1. /\ svc' = "up" /\ pc' = "idle" /\ Loc' = "idle"
        /\ inst'["ctrl"] = "listen" /\ (\A p \in Std : inst'[p] = "none")
        /\ \A p \in Pipe : c2s'[p] = <<>> /\ s2c'[p] = <<>>
    BY DEF Restart, NewPipes, Pipe, Std, Loc
  <1>2. UNCHANGED <<abort_requested, abortSent, codeSeen, net, toCli, fd, io_read, io_write, srvOpen, srvFnum,
                   parked>>
    BY DEF ioVars, sigVars, userVars, srvVars
  <1>3. /\ ClientTypeOK /\ ServerTypeOK /\ TalkInv /\ OpeningInv /\ ReadingInv /\ FileInv /\ NumberInv /\ RoundInv
        /\ TellInv /\ OpenInv /\ FineInv /\ net = "up" /\ "ctrl" \in Pipe /\ pending \in Seq(Waiting)
    BY DEF FineState, SessTypeOK, CtrlFine, Stored, OnceInv, FineInv, ClientTypeOK, Pipe
  <1>4. /\ state # "RUNNING" /\ NoneWritten /\ NoneUnderway("open", "ctrl") /\ io_write["ctrl"] = 0
        /\ StdQuiet /\ NoneTells
    BY <1>3 DEF OpenInv, TalkInv, RoundInv, FileInv, TellInv
  <1> DEFINE r == async_open("ctrl")
             rs == <<r>>
  <1>5. r \in Wired(account) /\ Is(r, "open", "ctrl")
    BY <1>3, OwnRequestType DEF async_open, Request, Is
  <1> HIDE DEF r
  <1>6. rs \in Seq(Wired(account)) /\ DOMAIN rs = {1} /\ rs[1] = r /\ Send(pending, rs)
    BY <1>5 DEF r
  <1> HIDE DEF rs
  <1>7. \A op : (NoneOf(rs, op, "ctrl") <=> op # "open") /\ OnceOf(rs, op, "ctrl")
    BY <1>5, <1>6 DEF NoneOf, OnceOf, Is
  <1>8. /\ \A op : /\ NoneOf(toSrv', op, "ctrl") <=> NoneOf(toSrv, op, "ctrl") /\ op # "open"
                   /\ op # "open" /\ OnceOf(toSrv, op, "ctrl") => OnceOf(toSrv', op, "ctrl")
                   /\ NoneOf(pending', op, "ctrl") <=> NoneOf(pending, op, "ctrl") /\ op # "open"
                   /\ op # "open" /\ OnceOf(pending, op, "ctrl") => OnceOf(pending', op, "ctrl")
        /\ \A op, next : /\ Before(toSrv, op, next) /\ Before(rs, op, next)
                         /\ NoneOf(toSrv, next, "ctrl") \/ NoneOf(rs, op, "ctrl")
                         => Before(toSrv', op, next)
        /\ \A k \in DOMAIN toSrv' : (\E m \in DOMAIN toSrv : toSrv'[k] = toSrv[m]) \/ toSrv'[k] = r
        /\ \A k \in DOMAIN pending' : (\E m \in DOMAIN pending : pending'[k] = pending[m])
                                      \/ (pending'[k].op = "open" /\ pending'[k].pipe = "ctrl")
    <2>1. \A k \in DOMAIN pending' :
             \/ \E m \in DOMAIN pending : pending'[k] = pending[m]
             \/ \E j \in DOMAIN rs : /\ pending'[k].op = rs[j].op /\ pending'[k].pipe = rs[j].pipe
                                     /\ pending'[k].fnum = rs[j].fnum
      BY <1>3, <1>6, RequestsMade
    <2>2. \A k \in DOMAIN toSrv' :
             (\E m \in DOMAIN toSrv : toSrv'[k] = toSrv[m]) \/ (\E j \in DOMAIN rs : toSrv'[k] = rs[j])
      BY <1>3, <1>6, RequestsMade
    <2>3. \A op : /\ NoneOf(toSrv', op, "ctrl") <=> NoneOf(toSrv, op, "ctrl") /\ NoneOf(rs, op, "ctrl")
                  /\ OnceOf(toSrv, op, "ctrl") /\ NoneOf(rs, op, "ctrl") => OnceOf(toSrv', op, "ctrl")
                  /\ NoneOf(pending', op, "ctrl") <=> NoneOf(pending, op, "ctrl") /\ NoneOf(rs, op, "ctrl")
                  /\ OnceOf(pending, op, "ctrl") /\ NoneOf(rs, op, "ctrl") => OnceOf(pending', op, "ctrl")
      BY <1>3, <1>6, RequestsMade
    <2>4. \A op, next : /\ Before(toSrv, op, next) /\ Before(rs, op, next)
                        /\ NoneOf(toSrv, next, "ctrl") \/ NoneOf(rs, op, "ctrl")
                        => Before(toSrv', op, next)
      BY <1>3, <1>6, RequestsMade
    <2>5. \A j \in DOMAIN rs : rs[j] = r
      BY <1>6
    <2> QED BY <1>5, <1>7, <2>1, <2>2, <2>3, <2>4, <2>5 DEF Is
  <1>9. TalkInv'
    <2>1. NoneWritten'
      BY <1>4, <1>8 DEF NoneWritten
    <2>2. \A i \in DOMAIN toSrv' : ~Is(toSrv'[i], "write", "ctrl")
      BY <2>1 DEF NoneWritten, NoneOf
    <2>3. OnceOf(toSrv', "write", "ctrl")
      BY <2>2 DEF OnceOf
    <2> QED BY <1>2, <1>3, <2>1, <2>2, <2>3 DEF TalkInv
  <1>10. OpeningInv'
    <2>1. NoneOf(toSrv, "open", "ctrl") /\ NoneOf(toCli, "open", "ctrl")
      BY <1>4 DEF NoneUnderway
    <2>2. Before(toSrv, "read", "open") /\ Before(toCli, "read", "open")
      BY <2>1, BeforeNone
    <2>3. Before(rs, "read", "open")
      BY <1>7, BeforeNone
    <2>4. Before(toSrv', "read", "open")
      BY <1>8, <2>1, <2>2, <2>3
    <2>5. \A i \in DOMAIN toCli' : ~Is(toCli'[i], "open", "ctrl")
      BY <1>2, <2>1 DEF NoneOf
    <2> QED BY <1>1, <1>2, <1>3, <2>2, <2>4, <2>5 DEF OpeningInv
  <1>11. ReadingInv'
    <2>1. /\ OneUnderway("read", "ctrl")' /\ ("ctrl" \in parked' => NoneUnderway("read", "ctrl")')
          /\ OnceOf(pending', "read", "ctrl")
          /\ NoneOf(pending', "read", "ctrl") <=> NoneUnderway("read", "ctrl")' /\ "ctrl" \notin parked'
      BY <1>2, <1>3, <1>8 DEF ReadingInv, OneUnderway, NoneUnderway
    <2>2. ASSUME NEW k \in DOMAIN pending', Is(pending'[k], "read", "ctrl")
          PROVE  /\ \A i \in DOMAIN toSrv' : Is(toSrv'[i], "read", "ctrl") => toSrv'[i].fnum = pending'[k].fnum
                 /\ \A i \in DOMAIN toCli' : Is(toCli'[i], "read", "ctrl") => toCli'[i].fnum = pending'[k].fnum
                 /\ "ctrl" \in parked' => pending'[k].fnum = srvFnum'["ctrl"]
      <3>1. PICK m \in DOMAIN pending : pending'[k] = pending[m]
        BY <1>8, <2>2 DEF Is
      <3>2. /\ \A i \in DOMAIN toSrv : Is(toSrv[i], "read", "ctrl") => toSrv[i].fnum = pending[m].fnum
            /\ \A i \in DOMAIN toCli : Is(toCli[i], "read", "ctrl") => toCli[i].fnum = pending[m].fnum
            /\ "ctrl" \in parked => pending[m].fnum = srvFnum["ctrl"]
        BY <1>3, <2>2, <3>1 DEF ReadingInv
      <3> QED BY <1>2, <1>5, <1>8, <3>1, <3>2 DEF Is
    <2>3. \A i \in DOMAIN toCli' : Fetched(i)' => DOMAIN (toCli'[i].data) = {1}
      BY <1>2, <1>3 DEF ReadingInv, Fetched
    <2> QED BY <2>1, <2>2, <2>3 DEF ReadingInv
  <1>12. FileInv' /\ ClosingInv' /\ PathInv'
    BY <1>1, <1>2, <1>4 DEF FileInv, ClosingInv, PathInv
  <1>13. ASSUME NEW p \in Std
         PROVE  StdFine(p)'
    <2>1. p \in Pipe /\ p # "ctrl"
      BY <1>13 DEF Std, Pipe
    <2>2. /\ fd[p] = 0 /\ p \notin srvOpen
          /\ \A i \in DOMAIN toSrv : toSrv[i].pipe # p
          /\ \A i \in DOMAIN toCli : toCli[i].pipe # p
      BY <1>3, <1>4, <1>13, <2>1 DEF StdQuiet, NumberInv
    <2>3. \A i \in DOMAIN toSrv' : toSrv'[i].pipe # p
      BY <1>5, <1>8, <2>1, <2>2 DEF Is
    <2>4. "idle" \notin HoldsOf(p)
      BY DEF HoldsOf, HoldsIn, HoldsOut, HoldsErr
    <2>5. HoldsOf(p)' = HoldsOf(p)
      BY DEF HoldsOf, HoldsIn, HoldsOut, HoldsErr
    <2> QED BY <1>1, <1>2, <1>13, <2>2, <2>3, <2>4, <2>5 DEF StdFine
  <1>14. ~Tells(s2c'["ctrl"]) /\ \A i \in DOMAIN toCli' : ~Teller(i)'
    BY <1>1, <1>2, <1>3, <1>4 DEF NoneTells, Teller, Tells
  <1>15. StdFineInv'
    BY <1>13, <1>14 DEF StdFineInv
  <1>16. FineInv'
    BY <1>1, <1>2, <1>3 DEF FineInv, Staying
  <1> QED BY <1>2, <1>9, <1>10, <1>11, <1>12, <1>15, <1>16 DEF Smoothly, CtrlFine

\* Only a service that is not there is installed, and one that is there is
\* replaced.
LEMMA InstallSmooth ==
  ASSUME FineState, InstallStep
  PROVE  Smoothly
  <1>1. Faults = {} /\ Starting = {"up"} /\ (mode = "install" => svc = "down")
    BY DEF FineState, Smooth, Starting, FineInv
  <1>2. ~InstallFails /\ ~ReinstallFails
    BY <1>1 DEF InstallFails, ReinstallFails, Installed
  <1>3. CASE InstallOk
    <2>1. mode = "install" /\ svc = "down" /\ UNCHANGED srvVars
      BY <1>1, <1>3 DEF InstallOk, Installed
    <2>2. PICK v \in Versions : Restart("up", v)
      BY <1>1, <1>3, <2>1 DEF InstallOk
    <2>3. /\ mode' = "loop" /\ Send(pending, <<async_open("ctrl")>>) /\ state' = state
          /\ UNCHANGED <<ioVars, sigVars, userVars, net, toCli>>
      BY <1>3 DEF InstallOk, Installed
    <2>4. state = "OPENING"
      BY <2>1 DEF FineState, OnceInv, OpenInv
    <2> QED BY <2>1, <2>2, <2>3, <2>4, RestartSmooth
  <1>4. CASE ReinstallOk
    <2>1. Restart("up", VERSION) /\ UNCHANGED srvVars
      BY <1>1, <1>4 DEF ReinstallOk
    <2>2. /\ mode = "reinstall" /\ mode' = "loop" /\ state' = "OPENING"
          /\ Send(pending, <<async_open("ctrl")>>)
          /\ UNCHANGED <<ioVars, sigVars, userVars, net, toCli>>
      BY <1>4 DEF ReinstallOk, Reinstalled
    <2> QED BY <2>1, <2>2, RestartSmooth
  <1> QED BY <1>2, <1>3, <1>4 DEF InstallStep

-----------------------------------------------------------------------------
\* The whole of such a run.

\* The process has ended when its code is known, and nothing changes that.
LEMMA CodeStays ==
  ASSUME SessTypeOK, ServiceInv, OnceInv, CodeInv, codeSeen, SessNext
  PROVE  codeSeen' /\ UNCHANGED <<ec, pcode>>
  <1>1. proc = "exited" /\ Loc \in Released /\ state = "RUNNING"
    BY DEF CodeInv, CodeDue
  <1>2. CASE ServerNext \/ ServerLoopReady
    BY <1>2 DEF ServerNext, ServerLoopReady, threadVars, userVars, clientVars
  <1>3. CASE NetFail
    BY <1>3 DEF NetFail, connVars, threadVars, userVars
  <1>4. CASE ThreadStep
    <2>1. codeSeen' = codeSeen /\ ThreadNext
      BY <1>4 DEF ThreadStep, clientVars, userVars
    <2>2. cont \notin Ending \union {"flush", "wait"}
      BY DEF ServiceInv, ConnInv, Ending
    <2>3. pc \notin {"spawn", "wait"}
      BY <1>1 DEF Loc, Released, ReleaseLabels
    <2> QED BY <2>1, <2>2, <2>3, ThreadEnds
  <1>5. CASE ProcWriteStep \/ ProcReadStep \/ ProcExitStep
    BY <1>1, <1>5 DEF ProcWriteStep, ProcReadStep, ProcExitStep, ProcWrite, ProcRead, ProcExit
  <1>6. CASE CompletionStep \/ TimeoutStep \/ DeadStep \/ StdinStep \/ TimerStep \/ SignalStep \/ ExitStep
    <2>1. UNCHANGED Remote /\ (PlainStep \/ CtrlOpened \/ CtrlMessage)
      BY <1>6 DEF CompletionStep, TimeoutStep, DeadStep, StdinStep, TimerStep, SignalStep, ExitStep, Completion,
         PlainStep, CtrlMessage
    <2>2. UNCHANGED <<ec, pcode>>
      BY <2>1 DEF Remote, connVars, threadVars
    <2>3. CASE PlainStep
      BY <2>2, <2>3, PlainLearns DEF OnceInv, Learns
    <2>4. CASE CtrlOpened
      BY <2>2, <2>4 DEF CtrlOpened, userVars
    <2>5. CASE CtrlMessage
      BY <2>2, <2>5
      DEF CtrlMessage, OnStdIoErr, OnReturnCode, OnVersion, OnBadVersion, OnServiceError, OnUnknown,
          CloseForReinstall, userVars
    <2> QED BY <2>1, <2>3, <2>4, <2>5
  <1>7. ~InstallStep
    BY <1>1 DEF InstallStep, InstallOk, InstallFails, ReinstallOk, ReinstallFails, Installed, Reinstalled,
       OnceInv, OpenInv
  <1> QED BY <1>2, <1>3, <1>4, <1>5, <1>6, <1>7 DEF SessNext

\* Until the code is known all goes on as it did.
LEMMA NextSmooth ==
  ASSUME FineState, SessNext
  PROVE  Smoothly \/ (codeSeen' /\ return_code' = pcode')
  <1>1. CASE ServerNext
    BY <1>1, ServerFine DEF Smoothly
  <1>2. CASE ThreadStep
    BY <1>2, ThreadSmooth
  <1>3. CASE ProcWriteStep \/ ProcReadStep \/ ProcExitStep
    BY <1>3, ProcessSmooth
  <1>4. CASE CompletionStep
    BY <1>4, CompletionSmooth
  <1>5. CASE NetFail \/ TimeoutStep \/ DeadStep \/ StdinStep \/ TimerStep \/ SignalStep \/ ExitStep
    BY <1>5, EventSmooth
  <1>6. CASE InstallStep
    BY <1>6, InstallSmooth
  <1>7. ~ServerLoopReady
    BY DEF ServerLoopReady, FineState, FineInv
  <1> QED BY <1>1, <1>2, <1>3, <1>4, <1>5, <1>6, <1>7 DEF SessNext

\* A step in which nothing happens.
LEMMA StutterSmooth ==
  ASSUME FineState, UNCHANGED sessVars
  PROVE  Smoothly
  <1>1. UNCHANGED <<connVars, clientVars, svc, srvVars>>
    BY DEF sessVars
  <1>2. UNCHANGED <<inst, c2s, s2c, pc, cont, token>>
    BY <1>1 DEF connVars, pipeVars, threadVars
  <1>3. /\ UNCHANGED <<account, state, mode, activated, net, abort_requested, abortSent, codeSeen>>
        /\ UNCHANGED <<toSrv, toCli, pending, fd, io_read, io_write, svc, srvOpen, srvFnum, parked>>
    BY <1>1 DEF clientVars, stateVars, ioVars, reqVars, sigVars, userVars, srvVars
  <1>4. ClientTypeOK /\ CtrlKept /\ WaitsKept
    BY <1>2, <1>3 DEF FineState, SessTypeOK, CtrlKept, WaitsKept
  <1>5. Alike(toSrv, toSrv') /\ Alike(toCli, toCli')
    BY <1>3, <1>4, AlikeSame DEF ClientTypeOK
  <1>6. CtrlFine'
    BY <1>4, <1>5, AsideFine DEF Aside, FineState
  <1>7. StdFineInv'
    <2>1. Loc' = Loc
      BY <1>2 DEF Loc
    <2> QED BY <1>2, <1>3, <2>1 DEF FineState, StdFineInv, StdFine, HoldsOf, Teller
  <1>8. FineInv'
    BY <1>3 DEF FineState, FineInv, Staying
  <1> QED BY <1>3, <1>6, <1>7, <1>8 DEF Smoothly

\* Every step keeps it all.
LEMMA SmoothStep ==
  ASSUME Smooth, SessTypeOK, ServiceInv, OnceInv, TimedInv, StoreInv, RunInv, RunInv', SmoothInv,
         [SessNext]_sessVars
  PROVE  SmoothInv'
  <1>1. CASE ~codeSeen
    <2>1. FineState
      BY <1>1 DEF FineState, SmoothInv, CtrlFine, StoreInv, FineInv
    <2>2. Smoothly \/ (codeSeen' /\ return_code' = pcode')
      BY <2>1, NextSmooth, StutterSmooth
    <2> QED BY <1>1, <2>2 DEF SmoothInv, Smoothly, CtrlFine
  <1>2. CASE codeSeen
    <2>1. return_code = pcode /\ return_code = ec
      BY <1>2 DEF SmoothInv, RunInv, CodeInv
    <2>2. CASE SessNext
      <3>1. codeSeen' /\ UNCHANGED <<ec, pcode>>
        BY <1>2, <2>2, CodeStays DEF RunInv
      <3>2. return_code' = ec'
        BY <3>1 DEF RunInv, CodeInv
      <3> QED BY <2>1, <3>1, <3>2 DEF SmoothInv
    <2>3. CASE UNCHANGED sessVars
      <3>1. UNCHANGED <<codeSeen, return_code, pcode>>
        BY <2>3 DEF sessVars, clientVars, userVars, stateVars, connVars, threadVars
      <3> QED BY <1>2, <2>1, <3>1 DEF SmoothInv
    <2> QED BY <2>2, <2>3
  <1> QED BY <1>1, <1>2

\* One open is under way, and finds what there is.
LEMMA InitSmooth ==
  ASSUME Smooth, SessInit
  PROVE  SmoothInv
  <1>1. /\ svc \in {"up", "down"} /\ inst = NewPipes(svc = "up")
        /\ \A p \in Pipe : c2s[p] = <<>> /\ s2c[p] = <<>>
        /\ pc = "idle" /\ Loc = "idle" /\ state = "OPENING" /\ ~activated /\ mode = "loop" /\ ~codeSeen
        /\ net = "up" /\ ~abort_requested /\ ~abortSent
        /\ \A p \in Pipe : fd[p] = 0 /\ io_read[p] = 0 /\ io_write[p] = 0
        /\ srvOpen = {} /\ parked = {} /\ toCli = <<>>
    BY DEF SessInit, Starting, Smooth, ThreadInit, ClientInit, Loc, Pipe, PipeName
  <1>2. /\ DOMAIN toSrv = {1} /\ toSrv[1].op = "open" /\ toSrv[1].pipe = "ctrl"
        /\ DOMAIN pending = {1} /\ pending[1].op = "open" /\ pending[1].pipe = "ctrl"
    <2>1. toSrv = <<Request("open", "ctrl", 0, <<>>)>>
      BY DEF SessInit, ClientInit, async_open
    <2>2. pending = <<[op |-> "open", pipe |-> "ctrl", fnum |-> 0, timed |-> TRUE]>>
      BY DEF SessInit, ClientInit
    <2>3. /\ DOMAIN toSrv = {1} /\ toSrv[1] = Request("open", "ctrl", 0, <<>>)
          /\ DOMAIN pending = {1} /\ pending[1] = [op |-> "open", pipe |-> "ctrl", fnum |-> 0, timed |-> TRUE]
      BY <2>1, <2>2
    <2>4. Request("open", "ctrl", 0, <<>>) = [op |-> "open", pipe |-> "ctrl", fnum |-> 0, items |-> <<>>]
      BY DEF Request
    <2> QED BY <2>3, <2>4
  <1>3. /\ inst["ctrl"] = (IF svc = "up" THEN "listen" ELSE "none")
        /\ \A p \in Std : p \in Pipe /\ p # "ctrl" /\ inst[p] = "none"
    BY <1>1 DEF NewPipes, Pipe, Std
  <1>4. DOMAIN toCli = {}
    BY <1>1
  <1>5. FineInv
    BY <1>1 DEF FineInv, Staying
  <1>6. TalkInv
    BY <1>1, <1>2, <1>4 DEF TalkInv, NoneWritten, NoneOf, OnceOf, Is
  <1>7. OpeningInv
    BY <1>1, <1>2, <1>3, <1>4 DEF OpeningInv, Before, NoneOf, Is, Pipe
  <1>8. ReadingInv
    BY <1>1, <1>2, <1>4 DEF ReadingInv, OneUnderway, NoneUnderway, OnceOf, NoneOf, Is
  <1>9. FileInv /\ ClosingInv /\ PathInv
    BY <1>1 DEF FileInv, ClosingInv, PathInv, Pipe
  <1>10. StdFineInv
    <2>1. \A p \in Std : "idle" \notin HoldsOf(p)
      BY DEF HoldsOf, HoldsIn, HoldsOut, HoldsErr
    <2>2. ~Tells(s2c["ctrl"]) /\ \A i \in DOMAIN toCli : ~Teller(i)
      BY <1>1, <1>4 DEF Tells, Pipe
    <2> QED BY <1>1, <1>2, <1>3, <1>4, <2>1, <2>2 DEF StdFineInv, StdFine
  <1> QED BY <1>1, <1>5, <1>6, <1>7, <1>8, <1>9, <1>10 DEF SmoothInv

\* When no call fails, no connection is lost and nobody interrupts, the client
\* ends (exit_program) with the code of the process and with nothing else, whatever
\* version of the service it finds and replaces.
THEOREM NormalEndCorrect == ASSUME Smooth PROVE SessSpec => []NormalEnd
  <1>1. /\ SessTypeOK /\ SessTypeOK' /\ ServiceInv /\ ServiceInv' /\ OnceInv /\ TimedInv /\ StoreInv /\ RunInv
        /\ [SessNext]_sessVars
        => RunInv'
    BY RunStep
  <1>2. /\ StoreInv /\ SessTypeOK /\ SessTypeOK' /\ ServiceInv /\ OnceInv /\ TimedInv /\ [SessNext]_sessVars
        => StoreInv'
    BY StoreStep
  <1>3. OnceInv /\ SessTypeOK /\ SessTypeOK' /\ ServiceInv /\ [SessNext]_sessVars => OnceInv'
    BY OnceStep
  <1>4. TimedInv /\ SessTypeOK /\ [SessNext]_sessVars => TimedInv'
    BY TimedStep
  <1>5. SessInit => StoreInv
    BY InitStored DEF StoreInv
  <1>6. /\ SessTypeOK /\ ServiceInv /\ OnceInv /\ TimedInv /\ StoreInv /\ RunInv /\ RunInv' /\ SmoothInv
        /\ [SessNext]_sessVars
        => SmoothInv'
    BY SmoothStep
  <1>7. SessInit => SmoothInv
    BY InitSmooth
  <1>8. SmoothInv => NormalEnd
    BY DEF SmoothInv, FineInv, Staying, NormalEnd, Gone
  <1> QED BY <1>1, <1>2, <1>3, <1>4, <1>5, <1>6, <1>7, <1>8, InitOnce, InitTimed, InitRuns, SessInv, PTL DEF SessSpec
=============================================================================
