------------------------- MODULE SessionStoreProofs -------------------------
(***************************************************************************)
(* Proofs about Session, for every set of accounts, versions, faults and   *)
(* failing calls: where the client stores the completion of a read or a    *)
(* write.  StoreInv relates what the client holds of each pipe to all the  *)
(* requests and replies under way; it is about a client that is not on its *)
(* way out.  The steps of the client are taken together as one Move, those *)
(* of the server as Served, the others as Fades.                           *)
(***************************************************************************)
EXTENDS SessionProofs

-----------------------------------------------------------------------------
\* Where a completion is stored.

\* Requests and replies of one kind for one pipe.
Is(r, op, p) == r.op = op /\ r.pipe = p
NoneOf(q, op, p) == \A i \in DOMAIN q : ~Is(q[i], op, p)
OnceOf(q, op, p) == \A i, j \in DOMAIN q : Is(q[i], op, p) /\ Is(q[j], op, p) => i = j

\* On the wire in either direction: none of them, or at most one.
NoneUnderway(op, p) == NoneOf(toSrv, op, p) /\ NoneOf(toCli, op, p)
OneUnderway(op, p) ==
    OnceOf(toSrv, op, p) /\ OnceOf(toCli, op, p) /\ (NoneOf(toSrv, op, p) \/ NoneOf(toCli, op, p))

\* The client is not on its way out.
Staying == mode \in {"loop", "install", "reinstall"}

\* File numbers come from the server, and what the client holds of a pipe is
\* the last file that was opened, but for an open that was answered.
NumberInv ==
    /\ \A i \in DOMAIN toSrv : toSrv[i].fnum <= srvFnum[toSrv[i].pipe]
    /\ \A p \in Pipe :
          /\ fd[p] <= srvFnum[p] /\ io_read[p] <= srvFnum[p] /\ io_write[p] <= srvFnum[p]
          /\ p \in srvOpen => srvFnum[p] > 0
          /\ net = "up" /\ NoneOf(toCli, "open", p) => fd[p] = srvFnum[p]
    /\ \A i \in DOMAIN toCli :
          LET r == toCli[i] IN
          r.op = "open" => IF r.status = "ok" THEN r.fnum = srvFnum[r.pipe] /\ r.fnum > 0
                           ELSE net = "up" => fd[r.pipe] = srvFnum[r.pipe]

\* The client waits for what is under way, or will never hear of it.
Known(op, p) == net = "dead" \/ ~NoneOf(pending, op, p)

\* One open of a pipe at a time, and none while the pipe is open for the
\* client; one close of the control pipe, for its reinstallation.
RoundInv ==
    /\ \A p \in Pipe : OneUnderway("open", p) /\ (Known("open", p) \/ NoneUnderway("open", p))
    /\ OneUnderway("close", "ctrl") /\ OnceOf(pending, "close", "ctrl")
    /\ state # "OPENING" \/ mode # "loop" => NoneUnderway("open", "ctrl")
    /\ ~(state = "CLOSING_FOR_REINSTALL" /\ mode = "loop") =>
          /\ NoneOf(pending, "close", "ctrl") /\ NoneOf(toCli, "close", "ctrl")
          /\ net # "dead" => NoneOf(toSrv, "close", "ctrl")
    /\ net = "dead" => toCli = <<>>

\* A read or a write succeeded, or will when it is its turn.
Good(i, op, p) == Is(toCli[i], op, p) /\ toCli[i].status = "ok"
Alive(i, op, p) ==
    /\ Is(toSrv[i], op, p) /\ p \in srvOpen /\ toSrv[i].fnum = srvFnum[p]
    /\ op = "write" => inst[p] = "conn"
NoneGood(op, p) == \A i \in DOMAIN toCli : ~Good(i, op, p)
NoneGoodAfter(i, op, p) == \A j \in DOMAIN toCli : j > i => ~Good(j, op, p)
NoneAlive(op, p) == (op = "read" => p \notin parked) /\ \A i \in DOMAIN toSrv : ~Alive(i, op, p)

\* A close is asked for and answered last.
CloseInv ==
    \A p \in Pipe :
        /\ \A i \in DOMAIN toSrv : Is(toSrv[i], "close", p) =>
              NoneUnderway("open", p) /\ toSrv[i].fnum = srvFnum[p]
        /\ \A i \in DOMAIN toCli : Is(toCli[i], "close", p) =>
              /\ NoneUnderway("open", p) /\ p \notin srvOpen
              /\ \A op \in {"read", "write"} : NoneGoodAfter(i, op, p)

\* The standard pipes are opened once: nothing is heard of them before the
\* one message that tells of them.
BeforeStdio == {"idle", "hgets", "token", "dup", "closetmp", "revert", "mkin",
                "mkout", "mkerr", "stdio"}
Tells(m) == \E k \in DOMAIN m : m[k].type = "std_io_err"
Teller(i) == OnCtrl(toCli[i], "read") /\ Tells(toCli[i].data)
StdQuiet ==
    /\ stdinEv = "none"
    /\ \A q \in {toSrv, toCli, pending} : \A i \in DOMAIN q : q[i].pipe = "ctrl"
    /\ \A p \in Std : fd[p] = 0 /\ io_read[p] = 0 /\ io_write[p] = 0 /\ srvFnum[p] = 0
NoneTells == ~Tells(s2c["ctrl"]) /\ \A i \in DOMAIN toCli : ~Teller(i)
TellInv ==
    /\ state # "RUNNING" \/ Loc \in BeforeStdio => StdQuiet /\ NoneTells
    /\ Tells(s2c["ctrl"]) => StdQuiet /\ \A i \in DOMAIN toCli : ~Teller(i)
    /\ \A i, j \in DOMAIN toCli : Teller(i) => StdQuiet /\ (Teller(j) => i = j)

StdInv ==
    /\ stdinEv # "none" => fd["in"] # 0
    /\ \A p \in Std :
          /\ srvFnum[p] <= 1
          /\ ~NoneOf(toSrv, "open", p) => srvFnum[p] = 0
          /\ ~NoneUnderway("open", p) => fd[p] = 0
          /\ \A op \in {"read", "write"} : ~NoneOf(pending, op, p) => fd[p] # 0
          /\ \A i \in DOMAIN toSrv : Is(toSrv[i], "write", p) => fd[p] # 0 /\ toSrv[i].fnum = srvFnum[p]
          /\ \A i \in DOMAIN toCli : Is(toCli[i], "write", p) =>
                /\ fd[p] # 0
                /\ toCli[i].status # "ok" => /\ p \notin srvOpen \/ inst[p] # "conn"
                                             /\ NoneGoodAfter(i, "write", p)

\* Where a structure has been freed nothing will be stored any more.
FreedInv ==
    \A p \in Pipe :
        /\ io_read[p] = 0  => NoneGood("read", p)  /\ (net = "up" => NoneAlive("read", p))
        /\ io_write[p] = 0 => NoneGood("write", p) /\ (net = "up" => NoneAlive("write", p))

Stored == NumberInv /\ RoundInv /\ CloseInv /\ TellInv /\ StdInv /\ FreedInv
StoreInv == Staying => Stored

\* Sequences that lose their first element, or one in the middle, or that grow.
LEMMA TailOf ==
  ASSUME NEW S, NEW q \in Seq(S), q # <<>>, NEW op, NEW p
  PROVE  /\ NoneOf(q, op, p) => NoneOf(Tail(q), op, p)
         /\ OnceOf(q, op, p) => OnceOf(Tail(q), op, p)
         /\ OnceOf(q, op, p) /\ Is(Head(q), op, p) => NoneOf(Tail(q), op, p)
         /\ NoneOf(Tail(q), op, p) => NoneOf(q, op, p) \/ Is(Head(q), op, p)
  <1> DEFINE t == Tail(q)
  <1>1. /\ DOMAIN q = 1..Len(q) /\ DOMAIN t = 1..(Len(q) - 1) /\ Len(q) \in Nat
        /\ Head(q) = q[1] /\ 1 \in DOMAIN q
        /\ \A k \in DOMAIN t : k + 1 \in DOMAIN q /\ t[k] = q[k + 1]
    BY TailElements
  <1>2. \A k \in DOMAIN t : k \in Nat /\ k + 1 # 1
    BY <1>1
  <1>3. \A i, j \in DOMAIN t : i + 1 = j + 1 => i = j
    BY <1>1
  <1>4. \A i \in DOMAIN q : i # 1 => i - 1 \in DOMAIN t /\ t[i - 1] = q[i]
    BY <1>1
  <1> HIDE DEF t
  <1>5. NoneOf(q, op, p) => NoneOf(t, op, p)
    BY <1>1 DEF NoneOf
  <1>6. OnceOf(q, op, p) => OnceOf(t, op, p)
    BY <1>1, <1>3 DEF OnceOf
  <1>7. OnceOf(q, op, p) /\ Is(Head(q), op, p) => NoneOf(t, op, p)
    BY <1>1, <1>2 DEF OnceOf, NoneOf
  <1>8. NoneOf(t, op, p) => NoneOf(q, op, p) \/ Is(Head(q), op, p)
    BY <1>1, <1>4 DEF NoneOf
  <1> QED BY <1>5, <1>6, <1>7, <1>8 DEF t

LEMMA ConcatOf ==
  ASSUME NEW S, NEW q \in Seq(S), NEW rs \in Seq(S), NEW op, NEW p
  PROVE  /\ NoneOf(q, op, p) /\ NoneOf(rs, op, p) => NoneOf(q \o rs, op, p)
         /\ OnceOf(q, op, p) /\ NoneOf(rs, op, p) => OnceOf(q \o rs, op, p)
         /\ NoneOf(q, op, p) /\ OnceOf(rs, op, p) => OnceOf(q \o rs, op, p)
         /\ NoneOf(q \o rs, op, p) => NoneOf(q, op, p) /\ NoneOf(rs, op, p)
  <1> DEFINE s == q \o rs
  <1>1. \A k \in DOMAIN s : \/ k \in DOMAIN q /\ s[k] = q[k]
                            \/ /\ k - Len(q) \in DOMAIN rs /\ k = Len(q) + (k - Len(q))
                               /\ s[k] = rs[k - Len(q)]
    BY ConcatSplit
  <1>2. /\ \A k \in DOMAIN q : k \in DOMAIN s /\ s[k] = q[k]
        /\ \A k \in DOMAIN rs : Len(q) + k \in DOMAIN s /\ s[Len(q) + k] = rs[k]
    <2>1. /\ Len(q) \in Nat /\ Len(rs) \in Nat /\ DOMAIN q = 1..Len(q) /\ DOMAIN rs = 1..Len(rs)
          /\ DOMAIN s = 1..(Len(q) + Len(rs))
          /\ \A i \in 1..(Len(q) + Len(rs)) : s[i] = IF i <= Len(q) THEN q[i] ELSE rs[i - Len(q)]
      BY ConcatElements
    <2> HIDE DEF s
    <2>2. \A k \in 1..Len(rs) : Len(q) + k \in 1..(Len(q) + Len(rs)) /\ ~(Len(q) + k <= Len(q))
                                /\ Len(q) + k - Len(q) = k
      BY <2>1
    <2> QED BY <2>1, <2>2
  <1> HIDE DEF s
  <1>3. NoneOf(q, op, p) /\ NoneOf(rs, op, p) => NoneOf(s, op, p)
    BY <1>1 DEF NoneOf
  <1>4. OnceOf(q, op, p) /\ NoneOf(rs, op, p) => OnceOf(s, op, p)
    BY <1>1 DEF NoneOf, OnceOf
  <1>5. NoneOf(q, op, p) /\ OnceOf(rs, op, p) => OnceOf(s, op, p)
    BY <1>1 DEF NoneOf, OnceOf
  <1>6. NoneOf(s, op, p) => NoneOf(q, op, p) /\ NoneOf(rs, op, p)
    BY <1>2 DEF NoneOf
  <1> QED BY <1>3, <1>4, <1>5, <1>6 DEF s

LEMMA RemoveAtOf ==
  ASSUME NEW S, NEW q \in Seq(S), NEW m \in DOMAIN q, NEW op, NEW p
  PROVE  /\ NoneOf(q, op, p) => NoneOf(RemoveAt(q, m), op, p)
         /\ OnceOf(q, op, p) => OnceOf(RemoveAt(q, m), op, p)
         /\ OnceOf(q, op, p) /\ Is(q[m], op, p) => NoneOf(RemoveAt(q, m), op, p)
         /\ NoneOf(RemoveAt(q, m), op, p) => NoneOf(q, op, p) \/ Is(q[m], op, p)
  <1> DEFINE r == RemoveAt(q, m)
             at(k) == IF k < m THEN k ELSE k + 1
  <1>1. DOMAIN q \subseteq Nat /\ DOMAIN q = 1..Len(q) /\ Len(q) \in Nat
    OBVIOUS
  <1>2. /\ r \in Seq(S) /\ Len(r) = Len(q) - 1
        /\ \A k \in DOMAIN r : k \in DOMAIN q /\ k + 1 \in DOMAIN q /\ r[k] = IF k < m THEN q[k] ELSE q[k + 1]
    BY RemoveAtElements, RemoveAtType
  <1>3. \A k \in DOMAIN r : k \in Nat /\ at(k) \in DOMAIN q /\ r[k] = q[at(k)] /\ at(k) # m
    BY <1>1, <1>2
  <1>4. \A i, j \in DOMAIN r : at(i) = at(j) => i = j
    BY <1>1, <1>3
  <1>5. DOMAIN r = 1..(Len(q) - 1)
    BY <1>2
  <1>6. ASSUME NEW k \in DOMAIN q, k # m
        PROVE  \E j \in DOMAIN r : r[j] = q[k]
    <2>1. CASE k < m
      BY <1>1, <1>2, <1>5, <2>1
    <2>2. CASE ~(k < m)
      <3>1. k - 1 \in DOMAIN r /\ ~(k - 1 < m) /\ k - 1 + 1 = k
        BY <1>1, <1>5, <1>6, <2>2
      <3> QED BY <1>2, <3>1
    <2> QED BY <2>1, <2>2
  <1> HIDE DEF r, at
  <1>7. NoneOf(q, op, p) => NoneOf(r, op, p)
    BY <1>3 DEF NoneOf
  <1>8. OnceOf(q, op, p) => OnceOf(r, op, p)
    BY <1>3, <1>4 DEF OnceOf
  <1>9. OnceOf(q, op, p) /\ Is(q[m], op, p) => NoneOf(r, op, p)
    BY <1>3 DEF OnceOf, NoneOf
  <1>10. NoneOf(r, op, p) => NoneOf(q, op, p) \/ Is(q[m], op, p)
    BY <1>6 DEF NoneOf
  <1> QED BY <1>7, <1>8, <1>9, <1>10 DEF r

-----------------------------------------------------------------------------
\* What the steps of the client have in common.

\* The reply of one kind that this step takes off the wire.
Popped(op, p) == toCli # <<>> /\ toCli' = Tail(toCli) /\ Is(Reply, op, p)

\* This step tells it of the standard pipes.
StdTold == Popped("read", "ctrl") /\ Teller(1)

\* The requests it sends, while the connection is up.
Sent(rs) ==
    \A j \in DOMAIN rs :
        LET r == rs[j]
            p == r.pipe IN
        /\ r.fnum <= srvFnum[p]
        /\ r.op = "read" => r.fnum = io_read'[p]
        /\ r.op = "write" => /\ r.fnum = io_write'[p]
                             /\ p \in Std => fd'[p] # 0 /\ r.fnum = srvFnum[p]
        /\ r.op = "close" =>
              /\ r.fnum = srvFnum[p] /\ NoneOf(rs, "open", p)
              /\ NoneUnderway("open", p) \/ Popped("open", p)
        /\ Is(r, "close", "ctrl") =>
              /\ state' = "CLOSING_FOR_REINSTALL" /\ mode' = "loop"
              /\ OnceOf(rs, "close", "ctrl") /\ NoneUnderway("close", "ctrl")
        /\ r.op = "open" =>
              /\ OnceOf(rs, "open", p) /\ NoneUnderway("open", p) /\ NoneUnderway("close", p)
              /\ NoneOf(rs, "close", p) /\ ~NoneOf(pending', "open", p)
              /\ p \in Std => srvFnum[p] = 0 /\ fd'[p] = 0
        /\ Is(r, "open", "ctrl") => state' = "OPENING" /\ mode' = "loop"
        /\ StdQuiet => p = "ctrl" \/ StdTold

\* What else it does: to the wire and the service, ...
WireMoved ==
    /\ Taken /\ UNCHANGED srvVars
    /\ net' \in {net, "dead"} /\ (net' = "dead" => toCli' = <<>>)
    /\ \A p \in Pipe : inst'[p] = "conn" => inst[p] = "conn"
    /\ s2c'["ctrl"] \in {s2c["ctrl"], <<>>}
    /\ Loc' = Loc \/ (state # "RUNNING" /\ state' # "RUNNING")

\* ... to what is known of the files, ...
FilesMoved ==
    /\ \A p \in Pipe :
          /\ fd'[p] \in {fd[p], srvFnum[p]}
          /\ io_read'[p] <= srvFnum[p] /\ io_write'[p] <= srvFnum[p]
          /\ Popped("open", p) /\ Reply.status = "ok" => fd'[p] = srvFnum[p]
          /\ io_read'[p] = 0 => io_read[p] = 0 \/ Popped("close", p) \/ net' = "dead"
          /\ io_write'[p] = 0 => \/ io_write[p] = 0 \/ Popped("close", p) \/ net' = "dead"
                                 \/ p \in Std /\ Popped("write", p) /\ Reply.status # "ok"
    /\ \A p \in Std : fd'[p] # 0 => fd[p] # 0 \/ Popped("open", p)
    /\ stdinEv' # "none" => fd'["in"] # 0

\* ... to where the client is, ...
PlaceMoved ==
    /\ state' # "OPENING" \/ mode' # "loop" => NoneUnderway("open", "ctrl") \/ Popped("open", "ctrl")
    /\ ~(state' = "CLOSING_FOR_REINSTALL" /\ mode' = "loop") =>
          \/ ~(state = "CLOSING_FOR_REINSTALL" /\ mode = "loop")
          \/ Popped("close", "ctrl") \/ net' = "dead"
    /\ state = "RUNNING" => state' = "RUNNING"

\* ... and to what it waits for.
PendingMoved ==
    /\ \A p \in Pipe : Known("open", p)' \/ NoneUnderway("open", p) \/ Popped("open", p)
    /\ OnceOf(pending', "close", "ctrl")
    /\ ~(state' = "CLOSING_FOR_REINSTALL" /\ mode' = "loop") => NoneOf(pending', "close", "ctrl")
    /\ \A p \in Std, op \in {"read", "write"} : ~NoneOf(pending', op, p) => fd'[p] # 0

\* The standard pipes stay untouched until it is told of them.
StdStays ==
    /\ stdinEv' = "none" /\ \A i \in DOMAIN pending' : pending'[i].pipe = "ctrl"
    /\ \A p \in Std : fd'[p] = 0 /\ io_read'[p] = 0 /\ io_write'[p] = 0
QuietMoved == StdQuiet => StdTold \/ StdStays

Moved == WireMoved /\ FilesMoved /\ PlaceMoved /\ PendingMoved /\ QuietMoved

Move(rs) == rs \in Seq(Wired(account)) /\ Adds(rs) /\ Sent(rs) /\ Moved

\* What stays on the wire keeps its order.
LEMMA TakenElements ==
  ASSUME ClientTypeOK, Taken
  PROVE  \E d \in {0, 1} :
            /\ \A k \in DOMAIN toCli' : k \in Nat /\ k + d \in DOMAIN toCli /\ toCli'[k] = toCli[k + d]
            /\ d = 0 => toCli' = toCli
            /\ d = 1 => toCli # <<>> /\ toCli' = Tail(toCli) /\ Reply = toCli[1] /\ 1 \in DOMAIN toCli
  <1>1. toCli \in Seq(Replied)
    BY DEF ClientTypeOK
  <1>2. CASE toCli' = toCli
    <2>1. \A k \in DOMAIN toCli' : k \in Nat /\ k + 0 \in DOMAIN toCli /\ toCli'[k] = toCli[k + 0]
      BY <1>1, <1>2
    <2> QED BY <1>2, <2>1
  <1>3. CASE toCli # <<>> /\ toCli' = Tail(toCli)
    <2>1. /\ Len(toCli) \in Nat /\ DOMAIN toCli' = 1..(Len(toCli) - 1)
          /\ \A k \in DOMAIN toCli' : k + 1 \in DOMAIN toCli /\ toCli'[k] = toCli[k + 1]
          /\ Reply = toCli[1] /\ 1 \in DOMAIN toCli
      BY <1>1, <1>3, TailElements DEF Reply
    <2> QED BY <1>3, <2>1
  <1> QED BY <1>2, <1>3 DEF Taken

LEMMA TakenOf ==
  ASSUME ClientTypeOK, Taken, NEW op, NEW p
  PROVE  /\ NoneOf(toCli, op, p) => NoneOf(toCli', op, p)
         /\ OnceOf(toCli, op, p) => OnceOf(toCli', op, p)
         /\ OnceOf(toCli, op, p) /\ Popped(op, p) => NoneOf(toCli', op, p)
         /\ NoneOf(toCli', op, p) => NoneOf(toCli, op, p) \/ Popped(op, p)
  <1>1. toCli \in Seq(Replied)
    BY DEF ClientTypeOK
  <1>2. CASE toCli # <<>> /\ toCli' = Tail(toCli)
    BY <1>1, <1>2, TailOf DEF Popped, Reply
  <1>3. CASE toCli' = toCli /\ ~(toCli # <<>> /\ toCli' = Tail(toCli))
    BY <1>3 DEF Popped
  <1> QED BY <1>2, <1>3 DEF Taken

LEMMA AddsOf ==
  ASSUME NEW S, toSrv \in Seq(S), NEW rs \in Seq(S), Adds(rs), NEW op, NEW p
  PROVE  /\ NoneOf(toSrv, op, p) /\ NoneOf(rs, op, p) => NoneOf(toSrv', op, p)
         /\ OnceOf(toSrv, op, p) /\ NoneOf(rs, op, p) => OnceOf(toSrv', op, p)
         /\ NoneOf(toSrv, op, p) /\ OnceOf(rs, op, p) => OnceOf(toSrv', op, p)
         /\ NoneOf(toSrv', op, p) => NoneOf(toSrv, op, p)
  <1>1. CASE toSrv' = toSrv
    BY <1>1 DEF NoneOf, OnceOf
  <1>2. CASE toSrv' = toSrv \o rs
    BY <1>2, ConcatOf
  <1> QED BY <1>1, <1>2 DEF Adds

LEMMA MoveNumber ==
  ASSUME SessTypeOK, SessTypeOK', NumberInv, RoundInv, NEW rs, Move(rs)
  PROVE  NumberInv'
  <1>1. /\ ClientTypeOK /\ ServerTypeOK /\ ClientTypeOK' /\ ServerTypeOK'
        /\ toSrv \in Seq(Wired(account)) /\ toCli \in Seq(Replied)
        /\ rs \in Seq(Wired(account)) /\ Adds(rs) /\ Sent(rs) /\ Taken
        /\ UNCHANGED <<srvOpen, srvFnum>> /\ net' \in {net, "dead"}
    BY DEF SessTypeOK, ClientTypeOK, Move, Moved, WireMoved, srvVars
  <1>2. \A i \in DOMAIN toSrv' : toSrv'[i].fnum <= srvFnum'[toSrv'[i].pipe]
    <2> SUFFICES ASSUME NEW i \in DOMAIN toSrv'
                 PROVE  toSrv'[i].fnum <= srvFnum[toSrv'[i].pipe]
      BY <1>1
    <2>1. (i \in DOMAIN toSrv /\ toSrv'[i] = toSrv[i]) \/ \E j \in DOMAIN rs : toSrv'[i] = rs[j]
      BY <1>1, AddsElements
    <2> QED BY <1>1, <2>1 DEF NumberInv, Sent
  <1>3. ASSUME NEW p \in Pipe
        PROVE  /\ fd'[p] <= srvFnum'[p] /\ io_read'[p] <= srvFnum'[p] /\ io_write'[p] <= srvFnum'[p]
               /\ p \in srvOpen' => srvFnum'[p] > 0
    <2>1. /\ srvFnum[p] \in Nat /\ fd'[p] \in {fd[p], srvFnum[p]}
          /\ io_read'[p] <= srvFnum[p] /\ io_write'[p] <= srvFnum[p]
      BY <1>1 DEF ServerTypeOK, Move, Moved, FilesMoved
    <2> QED BY <1>1, <2>1 DEF NumberInv
  <1>4. ASSUME NEW p \in Pipe, net' = "up", NoneOf(toCli', "open", p)
        PROVE  fd'[p] = srvFnum'[p]
    <2>1. net = "up"
      BY <1>1, <1>4
    <2>2. NoneOf(toCli, "open", p) \/ Popped("open", p)
      BY <1>1, <1>4, TakenOf
    <2>3. fd'[p] \in {fd[p], srvFnum[p]}
      BY DEF Move, Moved, FilesMoved
    <2>4. CASE NoneOf(toCli, "open", p)
      BY <1>1, <2>1, <2>3, <2>4 DEF NumberInv
    <2>5. CASE Popped("open", p)
      <3>1. CASE Reply.status = "ok"
        BY <1>1, <2>5, <3>1 DEF Move, Moved, FilesMoved
      <3>2. CASE Reply.status # "ok"
        <4>1. 1 \in DOMAIN toCli /\ Reply = toCli[1] /\ Reply.op = "open" /\ Reply.pipe = p
          BY <1>1, <2>5, FetchedTail DEF Popped, Is
        <4>2. fd[p] = srvFnum[p]
          BY <2>1, <3>2, <4>1 DEF NumberInv
        <4> QED BY <1>1, <2>3, <4>2
      <3> QED BY <3>1, <3>2
    <2> QED BY <2>2, <2>4, <2>5
  <1>5. ASSUME NEW i \in DOMAIN toCli', toCli'[i].op = "open"
        PROVE  IF toCli'[i].status = "ok" THEN toCli'[i].fnum = srvFnum'[toCli'[i].pipe] /\ toCli'[i].fnum > 0
               ELSE net' = "up" => fd'[toCli'[i].pipe] = srvFnum'[toCli'[i].pipe]
    <2>1. PICK m \in DOMAIN toCli : toCli'[i] = toCli[m]
      BY <1>1, TakenElements
    <2>2. toCli[m].pipe \in Pipe
      BY <1>1 DEF Replied
    <2>3. fd'[toCli[m].pipe] \in {fd[toCli[m].pipe], srvFnum[toCli[m].pipe]}
      BY <2>2 DEF Move, Moved, FilesMoved
    <2>4. IF toCli[m].status = "ok" THEN toCli[m].fnum = srvFnum[toCli[m].pipe] /\ toCli[m].fnum > 0
          ELSE net = "up" => fd[toCli[m].pipe] = srvFnum[toCli[m].pipe]
      BY <1>5, <2>1 DEF NumberInv
    <2> QED BY <1>1, <2>1, <2>3, <2>4
  <1> QED BY <1>2, <1>3, <1>4, <1>5 DEF NumberInv

LEMMA NoneMore ==
  ASSUME ClientTypeOK, Taken, NEW rs \in Seq(Wired(account)), Adds(rs), NEW op, NEW p,
         NoneOf(rs, op, p), OneUnderway(op, p), NoneUnderway(op, p) \/ Popped(op, p)
  PROVE  NoneUnderway(op, p)'
  <1>1. toSrv \in Seq(Wired(account)) /\ toCli \in Seq(Replied)
    BY DEF ClientTypeOK
  <1>2. NoneOf(toSrv, op, p)
    <2>1. CASE Popped(op, p)
      <3>1. ~NoneOf(toCli, op, p)
        BY <1>1, <2>1, FetchedTail DEF Popped, NoneOf
      <3> QED BY <3>1 DEF OneUnderway
    <2> QED BY <2>1 DEF NoneUnderway
  <1>3. NoneOf(toSrv', op, p)
    BY <1>1, <1>2, AddsOf
  <1>4. NoneOf(toCli', op, p)
    BY TakenOf DEF NoneUnderway, OneUnderway
  <1> QED BY <1>3, <1>4 DEF NoneUnderway, NoneOf

LEMMA MoveRound ==
  ASSUME SessTypeOK, RoundInv, NEW rs, Move(rs)
  PROVE  RoundInv'
  <1>1. /\ ClientTypeOK /\ ServerTypeOK
        /\ toSrv \in Seq(Wired(account)) /\ toCli \in Seq(Replied)
        /\ rs \in Seq(Wired(account)) /\ Adds(rs) /\ Sent(rs) /\ Taken /\ Moved
        /\ net' \in {net, "dead"}
    BY DEF SessTypeOK, ClientTypeOK, Move, Moved, WireMoved
  <1>2. ASSUME NEW op, NEW p, OneUnderway(op, p),
               NoneOf(rs, op, p) \/ (OnceOf(rs, op, p) /\ NoneUnderway(op, p))
        PROVE  OneUnderway(op, p)'
    <2>1. /\ OnceOf(toSrv, op, p) /\ OnceOf(toCli, op, p)
          /\ NoneOf(toSrv, op, p) \/ NoneOf(toCli, op, p)
      BY <1>2 DEF OneUnderway
    <2>2. OnceOf(toCli', op, p) /\ (NoneOf(toCli, op, p) => NoneOf(toCli', op, p))
      BY <1>1, <2>1, TakenOf
    <2>3. CASE NoneOf(rs, op, p)
      <3>1. OnceOf(toSrv', op, p) /\ (NoneOf(toSrv, op, p) => NoneOf(toSrv', op, p))
        BY <1>1, <2>1, <2>3, AddsOf
      <3> QED BY <2>1, <2>2, <3>1 DEF OneUnderway, OnceOf, NoneOf
    <2>4. CASE OnceOf(rs, op, p) /\ NoneUnderway(op, p)
      <3>1. NoneOf(toSrv, op, p) /\ NoneOf(toCli, op, p)
        BY <2>4 DEF NoneUnderway
      <3>2. OnceOf(toSrv', op, p) /\ NoneOf(toCli', op, p)
        BY <1>1, <2>2, <2>4, <3>1, AddsOf
      <3> QED BY <2>2, <3>2 DEF OneUnderway, OnceOf, NoneOf
    <2> QED BY <1>2, <2>3, <2>4
  <1>3. \A op, p : NoneOf(rs, op, p) /\ OneUnderway(op, p) /\ (NoneUnderway(op, p) \/ Popped(op, p))
                  => NoneUnderway(op, p)'
    BY <1>1, NoneMore
  <1>4. ASSUME NEW p \in Pipe
        PROVE  OneUnderway("open", p)' /\ (Known("open", p)' \/ NoneUnderway("open", p)')
    <2>1. OneUnderway("open", p)
      BY DEF RoundInv
    <2>2. CASE NoneOf(rs, "open", p)
      <3>1. Known("open", p)' \/ NoneUnderway("open", p) \/ Popped("open", p)
        BY <1>1 DEF Moved, PendingMoved
      <3> QED BY <1>2, <1>3, <2>1, <2>2, <3>1
    <2>3. CASE ~NoneOf(rs, "open", p)
      <3>1. OnceOf(rs, "open", p) /\ NoneUnderway("open", p) /\ ~NoneOf(pending', "open", p)
        BY <1>1, <2>3 DEF Sent, NoneOf, Is
      <3>2. Known("open", p)'
        BY <3>1 DEF Known, NoneOf
      <3> QED BY <1>2, <2>1, <3>1, <3>2
    <2> QED BY <2>2, <2>3
  <1>5. OneUnderway("close", "ctrl")'
    <2>1. NoneOf(rs, "close", "ctrl") \/ (OnceOf(rs, "close", "ctrl") /\ NoneUnderway("close", "ctrl"))
      BY <1>1 DEF Sent, NoneOf
    <2> QED BY <1>2, <2>1 DEF RoundInv
  <1>6. ASSUME state' # "OPENING" \/ mode' # "loop"
        PROVE  NoneUnderway("open", "ctrl")'
    <2>1. NoneOf(rs, "open", "ctrl")
      BY <1>1, <1>6 DEF Sent, NoneOf
    <2>2. NoneUnderway("open", "ctrl") \/ Popped("open", "ctrl")
      BY <1>1, <1>6 DEF Moved, PlaceMoved
    <2>3. OneUnderway("open", "ctrl")
      BY DEF RoundInv, Pipe
    <2> QED BY <1>3, <2>1, <2>2, <2>3
  <1>7. ASSUME ~(state' = "CLOSING_FOR_REINSTALL" /\ mode' = "loop")
        PROVE  /\ NoneOf(pending', "close", "ctrl") /\ NoneOf(toCli', "close", "ctrl")
               /\ net' # "dead" => NoneOf(toSrv', "close", "ctrl")
    <2>1. NoneOf(pending', "close", "ctrl")
      BY <1>1, <1>7 DEF Moved, PendingMoved
    <2>2. NoneOf(rs, "close", "ctrl")
      BY <1>1, <1>7 DEF Sent, NoneOf
    <2>3. \/ ~(state = "CLOSING_FOR_REINSTALL" /\ mode = "loop")
          \/ Popped("close", "ctrl") \/ net' = "dead"
      BY <1>1, <1>7 DEF Moved, PlaceMoved
    <2>4. CASE net' = "dead"
      <3>1. toCli' = <<>>
        BY <1>1, <2>4 DEF Moved, WireMoved
      <3> QED BY <2>1, <2>4, <3>1 DEF NoneOf
    <2>5. CASE net' # "dead"
      <3>1. NoneUnderway("close", "ctrl") \/ Popped("close", "ctrl")
        BY <1>1, <2>3, <2>5 DEF RoundInv, NoneUnderway
      <3>2. NoneUnderway("close", "ctrl")'
        BY <1>3, <2>2, <3>1 DEF RoundInv
      <3> QED BY <2>1, <3>2 DEF NoneUnderway, NoneOf
    <2> QED BY <2>4, <2>5
  <1>8. OnceOf(pending', "close", "ctrl") /\ (net' = "dead" => toCli' = <<>>)
    BY <1>1 DEF Moved, WireMoved, PendingMoved
  <1> QED BY <1>4, <1>5, <1>6, <1>7, <1>8 DEF RoundInv, NoneUnderway, NoneOf, OnceOf

LEMMA MoveClose ==
  ASSUME SessTypeOK, RoundInv, CloseInv, NEW rs, Move(rs)
  PROVE  CloseInv'
  <1>1. /\ ClientTypeOK /\ ServerTypeOK
        /\ toSrv \in Seq(Wired(account)) /\ toCli \in Seq(Replied)
        /\ rs \in Seq(Wired(account)) /\ Adds(rs) /\ Sent(rs) /\ Taken
        /\ UNCHANGED <<srvOpen, srvFnum>>
    BY DEF SessTypeOK, ClientTypeOK, Move, Moved, WireMoved, srvVars
  <1>2. ASSUME NEW p \in Pipe, NoneOf(rs, "open", p), NoneUnderway("open", p) \/ Popped("open", p)
        PROVE  NoneUnderway("open", p)'
    BY <1>1, <1>2, NoneMore DEF RoundInv
  <1>3. ASSUME NEW p \in Pipe, ~NoneOf(rs, "open", p)
        PROVE  NoneUnderway("close", p) /\ NoneOf(rs, "close", p)
    BY <1>1, <1>3 DEF Sent, NoneOf, Is
  <1>4. ASSUME NEW p \in Pipe, NEW i \in DOMAIN toSrv', Is(toSrv'[i], "close", p)
        PROVE  NoneUnderway("open", p)' /\ toSrv'[i].fnum = srvFnum'[p]
    <2>1. CASE i \in DOMAIN toSrv /\ toSrv'[i] = toSrv[i]
      <3>1. ~NoneUnderway("close", p)
        BY <1>4, <2>1 DEF NoneUnderway, NoneOf
      <3>2. NoneUnderway("open", p) /\ toSrv[i].fnum = srvFnum[p]
        BY <1>4, <2>1 DEF CloseInv
      <3>3. NoneUnderway("open", p)'
        BY <1>2, <1>3, <3>1, <3>2
      <3> QED BY <1>1, <2>1, <3>2, <3>3
    <2>2. CASE \E j \in DOMAIN rs : toSrv'[i] = rs[j]
      <3>1. PICK j \in DOMAIN rs : toSrv'[i] = rs[j]
        BY <2>2
      <3>2. /\ rs[j].fnum = srvFnum[p] /\ NoneOf(rs, "open", p)
            /\ NoneUnderway("open", p) \/ Popped("open", p)
        BY <1>1, <1>4, <3>1 DEF Sent, Is
      <3>3. NoneUnderway("open", p)'
        BY <1>2, <3>2
      <3> QED BY <1>1, <3>1, <3>2, <3>3
    <2> QED BY <1>1, <2>1, <2>2, AddsElements
  <1>5. ASSUME NEW p \in Pipe, NEW i \in DOMAIN toCli', Is(toCli'[i], "close", p)
        PROVE  /\ NoneUnderway("open", p)' /\ p \notin srvOpen'
               /\ \A op \in {"read", "write"} : NoneGoodAfter(i, op, p)'
    <2>1. PICK d \in {0, 1} :
             \A k \in DOMAIN toCli' : k \in Nat /\ k + d \in DOMAIN toCli /\ toCli'[k] = toCli[k + d]
      BY <1>1, TakenElements
    <2>2. i \in Nat /\ i + d \in DOMAIN toCli /\ toCli'[i] = toCli[i + d]
      BY <2>1
    <2>3. /\ NoneUnderway("open", p) /\ p \notin srvOpen
          /\ \A op \in {"read", "write"} : NoneGoodAfter(i + d, op, p)
      BY <1>5, <2>2 DEF CloseInv
    <2>4. ~NoneUnderway("close", p)
      BY <1>5, <2>2 DEF NoneUnderway, NoneOf
    <2>5. NoneUnderway("open", p)'
      BY <1>2, <1>3, <2>3, <2>4
    <2>6. ASSUME NEW op \in {"read", "write"}, NEW j \in DOMAIN toCli', j > i, Good(j, op, p)'
          PROVE  FALSE
      <3>1. j \in Nat /\ j + d \in DOMAIN toCli /\ toCli'[j] = toCli[j + d]
        BY <2>1
      <3>2. j + d > i + d
        BY <2>2, <2>6, <3>1
      <3>3. Good(j + d, op, p)
        BY <2>6, <3>1 DEF Good
      <3> QED BY <2>3, <3>1, <3>2, <3>3 DEF NoneGoodAfter
    <2> QED BY <1>1, <2>3, <2>5, <2>6 DEF NoneGoodAfter
  <1> QED BY <1>4, <1>5 DEF CloseInv

LEMMA MoveTell ==
  ASSUME SessTypeOK, SessTypeOK', TellInv, NEW rs, Move(rs)
  PROVE  TellInv'
  <1>1. /\ ClientTypeOK /\ ServerTypeOK
        /\ toSrv \in Seq(Wired(account)) /\ toCli \in Seq(Replied)
        /\ rs \in Seq(Wired(account)) /\ Adds(rs) /\ Sent(rs) /\ Moved /\ Taken
        /\ UNCHANGED <<srvOpen, srvFnum>> /\ s2c["ctrl"] \in Seq(Message)
    BY DEF SessTypeOK, ConnTypeOK, PipeTypeOK, Pipe, ClientTypeOK, Move, Moved, WireMoved, srvVars
  <1>2. /\ Tells(s2c'["ctrl"]) => Tells(s2c["ctrl"])
        /\ state = "RUNNING" => state' = "RUNNING"
        /\ Loc' = Loc \/ (state # "RUNNING" /\ state' # "RUNNING")
    <2>1. s2c'["ctrl"] \in {s2c["ctrl"], <<>>}
      BY <1>1 DEF Moved, WireMoved
    <2> QED BY <1>1, <2>1 DEF Moved, WireMoved, PlaceMoved, Tells
  <1>3. PICK d \in {0, 1} :
           /\ \A k \in DOMAIN toCli' : k \in Nat /\ k + d \in DOMAIN toCli /\ toCli'[k] = toCli[k + d]
           /\ d = 0 => toCli' = toCli
           /\ d = 1 => toCli # <<>> /\ toCli' = Tail(toCli) /\ Reply = toCli[1] /\ 1 \in DOMAIN toCli
    BY <1>1, TakenElements
  <1>4. \A i \in DOMAIN toCli' : i \in Nat /\ i + d \in DOMAIN toCli /\ (Teller(i)' => Teller(i + d))
    BY <1>3 DEF Teller
  <1>5. CASE ~StdQuiet
    <2>1. /\ state = "RUNNING" /\ Loc \notin BeforeStdio
          /\ ~Tells(s2c["ctrl"]) /\ \A i \in DOMAIN toCli : ~Teller(i)
      BY <1>5 DEF TellInv
    <2>2. state' = "RUNNING" /\ Loc' \notin BeforeStdio /\ ~Tells(s2c'["ctrl"])
      BY <1>2, <2>1
    <2>3. \A i \in DOMAIN toCli' : ~Teller(i)'
      BY <1>4, <2>1
    <2> QED BY <2>2, <2>3 DEF TellInv
  <1>6. CASE StdQuiet /\ Popped("read", "ctrl") /\ Teller(1)
    <2>1. toCli # <<>> /\ toCli' = Tail(toCli)
      BY <1>6 DEF Popped
    <2>2. /\ 1 \in DOMAIN toCli
          /\ \A k \in DOMAIN toCli' : k \in Nat /\ k + 1 \in DOMAIN toCli /\ toCli'[k] = toCli[k + 1]
      <3>1. Len(toCli) \in Nat /\ DOMAIN toCli' = 1..(Len(toCli) - 1)
        BY <1>1, <2>1, TailElements
      <3> QED BY <1>1, <2>1, <3>1, TailElements
    <2>3. /\ state = "RUNNING" /\ Loc \notin BeforeStdio /\ ~Tells(s2c["ctrl"])
          /\ \A j \in DOMAIN toCli : Teller(j) => j = 1
      BY <1>6, <2>2 DEF TellInv, NoneTells
    <2>4. state' = "RUNNING" /\ Loc' \notin BeforeStdio /\ ~Tells(s2c'["ctrl"])
      BY <1>2, <2>3
    <2>5. \A i \in DOMAIN toCli' : ~Teller(i)'
      <3> SUFFICES ASSUME NEW i \in DOMAIN toCli', Teller(i)'
                   PROVE  FALSE
        OBVIOUS
      <3>1. i \in Nat /\ i + 1 \in DOMAIN toCli /\ Teller(i + 1)
        BY <2>2 DEF Teller
      <3>2. i + 1 = 1 /\ i \in 1..Len(toCli')
        BY <1>1, <2>1, <2>3, <3>1
      <3> QED BY <3>2
    <2> QED BY <2>4, <2>5 DEF TellInv
  <1>7. CASE StdQuiet /\ ~(Popped("read", "ctrl") /\ Teller(1))
    <2>1. StdQuiet'
      <3>1. \A i \in DOMAIN toSrv' : toSrv'[i].pipe = "ctrl"
        <4>1. \A j \in DOMAIN rs : rs[j].pipe = "ctrl"
          BY <1>1, <1>7 DEF Sent, StdTold
        <4>2. \A i \in DOMAIN toSrv : toSrv[i].pipe = "ctrl"
          BY <1>7 DEF StdQuiet
        <4> QED BY <1>1, <4>1, <4>2, AddsElements
      <3>2. \A i \in DOMAIN toCli' : toCli'[i].pipe = "ctrl"
        BY <1>3, <1>7 DEF StdQuiet
      <3>3. /\ stdinEv' = "none" /\ \A i \in DOMAIN pending' : pending'[i].pipe = "ctrl"
            /\ \A p \in Std : fd'[p] = 0 /\ io_read'[p] = 0 /\ io_write'[p] = 0
        BY <1>1, <1>7 DEF Moved, QuietMoved, StdTold, StdStays
      <3>4. \A p \in Std : srvFnum'[p] = 0
        BY <1>1, <1>7 DEF StdQuiet
      <3> QED BY <3>1, <3>2, <3>3, <3>4 DEF StdQuiet
    <2>2. NoneTells => NoneTells'
      BY <1>2, <1>4 DEF NoneTells
    <2>3. state' # "RUNNING" \/ Loc' \in BeforeStdio => NoneTells'
      BY <1>2, <2>2 DEF TellInv
    <2>4. Tells(s2c'["ctrl"]) => \A i \in DOMAIN toCli' : ~Teller(i)'
      BY <1>2, <1>4 DEF TellInv
    <2>5. ASSUME NEW i \in DOMAIN toCli', NEW j \in DOMAIN toCli', Teller(i)', Teller(j)'
          PROVE  i = j
      <3>1. i + d = j + d
        BY <1>4, <2>5 DEF TellInv
      <3> QED BY <1>4, <3>1
    <2> QED BY <2>1, <2>3, <2>4, <2>5 DEF TellInv
  <1> QED BY <1>5, <1>6, <1>7

LEMMA MoveStd ==
  ASSUME SessTypeOK, NumberInv, RoundInv, StdInv, NEW rs, Move(rs)
  PROVE  StdInv'
  <1>1. /\ ClientTypeOK /\ ServerTypeOK /\ Std \subseteq Pipe
        /\ toSrv \in Seq(Wired(account)) /\ toCli \in Seq(Replied)
        /\ rs \in Seq(Wired(account)) /\ Adds(rs) /\ Sent(rs) /\ Moved /\ Taken
        /\ UNCHANGED <<srvOpen, srvFnum>>
    BY DEF SessTypeOK, ClientTypeOK, Move, Moved, WireMoved, srvVars, Pipe, Std
  <1>2. PICK d \in {0, 1} :
           \A k \in DOMAIN toCli' : k \in Nat /\ k + d \in DOMAIN toCli /\ toCli'[k] = toCli[k + d]
    BY <1>1, TakenElements
  <1>3. ASSUME NEW p \in Std, fd[p] # 0
        PROVE  fd'[p] # 0
    <2>1. fd'[p] \in {fd[p], srvFnum[p]} /\ fd[p] <= srvFnum[p] /\ fd[p] \in Nat
      BY <1>1 DEF Moved, FilesMoved, NumberInv, ClientTypeOK
    <2> QED BY <1>3, <2>1
  <1>4. ASSUME NEW p \in Std
        PROVE  /\ srvFnum'[p] <= 1
               /\ ~NoneOf(toSrv', "open", p) => srvFnum'[p] = 0
               /\ ~(NoneOf(toSrv', "open", p) /\ NoneOf(toCli', "open", p)) => fd'[p] = 0
    <2>1. srvFnum'[p] <= 1
      BY <1>1 DEF StdInv
    <2>2. NoneOf(rs, "open", p) \/ (srvFnum[p] = 0 /\ fd'[p] = 0)
      BY <1>1 DEF Sent, NoneOf, Is
    <2>3. ~NoneOf(toSrv', "open", p) => srvFnum'[p] = 0
      BY <1>1, <2>2, AddsOf DEF StdInv
    <2>4. CASE srvFnum[p] = 0 /\ fd'[p] = 0
      BY <2>1, <2>3, <2>4
    <2>5. CASE NoneOf(rs, "open", p) /\ fd'[p] # 0
      <3>1. fd[p] # 0 \/ Popped("open", p)
        BY <1>1, <2>5 DEF Moved, FilesMoved
      <3>2. OneUnderway("open", p)
        BY <1>1 DEF RoundInv
      <3>3. NoneUnderway("open", p) \/ Popped("open", p)
        BY <3>1 DEF StdInv
      <3>4. NoneUnderway("open", p)'
        BY <1>1, <2>5, <3>2, <3>3, NoneMore
      <3> QED BY <2>1, <2>3, <3>4 DEF NoneUnderway, NoneOf
    <2> QED BY <2>1, <2>2, <2>3, <2>4, <2>5
  <1>5. ASSUME NEW p \in Std, NEW i \in DOMAIN toSrv', Is(toSrv'[i], "write", p)
        PROVE  fd'[p] # 0 /\ toSrv'[i].fnum = srvFnum'[p]
    <2>1. CASE i \in DOMAIN toSrv /\ toSrv'[i] = toSrv[i]
      BY <1>1, <1>3, <1>5, <2>1 DEF StdInv
    <2>2. CASE \E j \in DOMAIN rs : toSrv'[i] = rs[j]
      BY <1>1, <1>5, <2>2 DEF Sent, Is
    <2> QED BY <1>1, <2>1, <2>2, AddsElements
  <1>6. ASSUME NEW p \in Std, NEW i \in DOMAIN toCli', Is(toCli'[i], "write", p)
        PROVE  /\ fd'[p] # 0
               /\ toCli'[i].status # "ok" => /\ p \notin srvOpen' \/ inst'[p] # "conn"
                                             /\ NoneGoodAfter(i, "write", p)'
    <2>1. i \in Nat /\ i + d \in DOMAIN toCli /\ toCli'[i] = toCli[i + d]
      BY <1>2
    <2>2. /\ fd[p] # 0
          /\ toCli[i + d].status # "ok" => /\ p \notin srvOpen \/ inst[p] # "conn"
                                           /\ NoneGoodAfter(i + d, "write", p)
      BY <1>6, <2>1 DEF StdInv
    <2>3. ASSUME NoneGoodAfter(i + d, "write", p), NEW j \in DOMAIN toCli', j > i, Good(j, "write", p)'
          PROVE  FALSE
      <3>1. j \in Nat /\ j + d \in DOMAIN toCli /\ toCli'[j] = toCli[j + d]
        BY <1>2
      <3>2. j + d > i + d
        BY <2>1, <2>3, <3>1
      <3>3. Good(j + d, "write", p)
        BY <2>3, <3>1 DEF Good
      <3> QED BY <2>3, <3>1, <3>2, <3>3 DEF NoneGoodAfter
    <2>4. inst'[p] = "conn" => inst[p] = "conn"
      BY <1>1 DEF Moved, WireMoved
    <2> QED BY <1>1, <1>3, <2>1, <2>2, <2>3, <2>4 DEF NoneGoodAfter
  <1>7. /\ stdinEv' # "none" => fd'["in"] # 0
        /\ \A p \in Std, op \in {"read", "write"} : ~NoneOf(pending', op, p) => fd'[p] # 0
    BY <1>1 DEF Moved, FilesMoved, PendingMoved
  <1> QED BY <1>4, <1>5, <1>6, <1>7 DEF StdInv, NoneUnderway, NoneOf

\* Where nothing will be stored, because the file is gone or was never used.
LEMMA MoveFreed ==
  ASSUME SessTypeOK, SessTypeOK', NumberInv, CloseInv, StdInv, FreedInv, NEW rs, Move(rs)
  PROVE  FreedInv'
  <1>1. /\ ClientTypeOK /\ ServerTypeOK /\ Std \subseteq Pipe
        /\ toSrv \in Seq(Wired(account)) /\ toCli \in Seq(Replied)
        /\ rs \in Seq(Wired(account)) /\ Adds(rs) /\ Sent(rs) /\ Moved /\ Taken
        /\ UNCHANGED <<srvOpen, srvFnum, parked>> /\ parked \subseteq srvOpen
        /\ net' \in {net, "dead"} /\ (net' = "dead" => toCli' = <<>>)
    BY DEF SessTypeOK, ClientTypeOK, ServerTypeOK, Move, Moved, WireMoved, srvVars, Pipe, Std
  <1>2. PICK d \in {0, 1} :
           /\ \A k \in DOMAIN toCli' : k \in Nat /\ k + d \in DOMAIN toCli /\ toCli'[k] = toCli[k + d]
           /\ d = 0 => toCli' = toCli
           /\ d = 1 => toCli # <<>> /\ toCli' = Tail(toCli) /\ Reply = toCli[1] /\ 1 \in DOMAIN toCli
    BY <1>1, TakenElements
  <1>3. ASSUME NEW p \in Pipe, NEW op \in {"read", "write"}, NEW i \in DOMAIN toSrv', Alive(i, op, p)'
        PROVE  /\ p \in srvOpen /\ (op = "write" => inst[p] = "conn")
               /\ \/ i \in DOMAIN toSrv /\ Alive(i, op, p)
                  \/ (op = "read" => io_read'[p] # 0) /\ (op = "write" => io_write'[p] # 0)
    <2>0. /\ Is(toSrv'[i], op, p) /\ p \in srvOpen /\ toSrv'[i].fnum = srvFnum[p]
          /\ op = "write" => inst[p] = "conn"
      BY <1>1, <1>3 DEF Alive, Moved, WireMoved
    <2>1. CASE i \in DOMAIN toSrv /\ toSrv'[i] = toSrv[i]
      BY <2>0, <2>1 DEF Alive
    <2>2. CASE \E j \in DOMAIN rs : toSrv'[i] = rs[j]
      <3>1. (op = "read" => srvFnum[p] = io_read'[p]) /\ (op = "write" => srvFnum[p] = io_write'[p])
        BY <1>1, <2>0, <2>2 DEF Sent, Is
      <3>2. srvFnum[p] > 0 /\ srvFnum[p] \in Nat
        BY <1>1, <2>0 DEF NumberInv, ServerTypeOK
      <3> QED BY <2>0, <3>1, <3>2
    <2> QED BY <1>1, <2>1, <2>2, AddsElements
  <1>4. ASSUME NEW p \in Pipe, NEW op \in {"read", "write"}, NoneGood(op, p), net = "up" => NoneAlive(op, p),
               op = "read" => io_read'[p] = 0, op = "write" => io_write'[p] = 0
        PROVE  NoneGood(op, p)' /\ (net' = "up" => NoneAlive(op, p)')
    <2>1. NoneGood(op, p)'
      BY <1>2, <1>4 DEF NoneGood, Good
    <2>2. net' = "up" => NoneAlive(op, p)'
      BY <1>1, <1>3, <1>4 DEF NoneAlive
    <2> QED BY <2>1, <2>2
  <1>5. ASSUME NEW p \in Pipe, NEW op \in {"read", "write"},
               Popped("close", p)
               \/ (op = "write" /\ p \in Std /\ Popped("write", p) /\ Reply.status # "ok"),
               op = "read" => io_read'[p] = 0, op = "write" => io_write'[p] = 0
        PROVE  NoneGood(op, p)' /\ (net' = "up" => NoneAlive(op, p)')
    <2>1. /\ toCli # <<>> /\ toCli' = Tail(toCli) /\ Reply = toCli[1] /\ 1 \in DOMAIN toCli
          /\ \A k \in DOMAIN toCli' : k \in Nat /\ k + 1 \in DOMAIN toCli /\ toCli'[k] = toCli[k + 1] /\ k + 1 > 1
      <3>1. toCli # <<>> /\ toCli' = Tail(toCli)
        BY <1>5 DEF Popped
      <3>2. Len(toCli) \in Nat /\ DOMAIN toCli' = 1..(Len(toCli) - 1)
            /\ \A k \in DOMAIN toCli' : k + 1 \in DOMAIN toCli /\ toCli'[k] = toCli[k + 1]
        BY <1>1, <3>1, TailElements
      <3>3. Reply = toCli[1] /\ 1 \in DOMAIN toCli
        BY <1>1, <3>1, FetchedTail
      <3>4. \A k \in 1..(Len(toCli) - 1) : k \in Nat /\ k + 1 > 1
        BY <3>2
      <3> QED BY <3>1, <3>2, <3>3, <3>4
    <2>2. /\ NoneGoodAfter(1, op, p)
          /\ p \notin srvOpen \/ (op = "write" /\ inst[p] # "conn")
      <3>1. CASE Popped("close", p)
        <4>1. Is(toCli[1], "close", p)
          BY <2>1, <3>1 DEF Popped
        <4> QED BY <2>1, <4>1 DEF CloseInv
      <3>2. CASE op = "write" /\ p \in Std /\ Popped("write", p) /\ Reply.status # "ok"
        <4>1. Is(toCli[1], "write", p) /\ toCli[1].status # "ok"
          BY <2>1, <3>2 DEF Popped
        <4> QED BY <2>1, <3>2, <4>1 DEF StdInv
      <3> QED BY <1>5, <3>1, <3>2
    <2>3. NoneGood(op, p)'
      <3> SUFFICES ASSUME NEW k \in DOMAIN toCli', Good(k, op, p)'
                   PROVE  FALSE
        BY DEF NoneGood
      <3>1. k + 1 \in DOMAIN toCli /\ Good(k + 1, op, p) /\ k + 1 > 1
        BY <2>1 DEF Good
      <3> QED BY <2>2, <3>1 DEF NoneGoodAfter
    <2>4. NoneAlive(op, p)'
      <3>1. \A i \in DOMAIN toSrv' : ~Alive(i, op, p)'
        BY <1>3, <2>2
      <3>2. op = "read" => p \notin parked'
        BY <1>1, <2>2
      <3> QED BY <3>1, <3>2 DEF NoneAlive
    <2> QED BY <2>3, <2>4
  <1>6. CASE net' = "dead"
    <2>1. \A op, p : NoneGood(op, p)'
      BY <1>1, <1>6 DEF NoneGood
    <2> QED BY <1>6, <2>1 DEF FreedInv
  <1>7. ASSUME net' # "dead", NEW p \in Pipe, io_read'[p] = 0
        PROVE  NoneGood("read", p)' /\ (net' = "up" => NoneAlive("read", p)')
    <2>1. io_read[p] = 0 \/ Popped("close", p)
      BY <1>1, <1>7 DEF Moved, FilesMoved
    <2>2. CASE io_read[p] = 0
      BY <1>4, <1>7, <2>2 DEF FreedInv
    <2>3. CASE Popped("close", p)
      BY <1>5, <1>7, <2>3
    <2> QED BY <2>1, <2>2, <2>3
  <1>8. ASSUME net' # "dead", NEW p \in Pipe, io_write'[p] = 0
        PROVE  NoneGood("write", p)' /\ (net' = "up" => NoneAlive("write", p)')
    <2>1. \/ io_write[p] = 0 \/ Popped("close", p)
          \/ p \in Std /\ Popped("write", p) /\ Reply.status # "ok"
      BY <1>1, <1>8 DEF Moved, FilesMoved
    <2>2. CASE io_write[p] = 0
      BY <1>4, <1>8, <2>2 DEF FreedInv
    <2>3. CASE ~(io_write[p] = 0)
      BY <1>5, <1>8, <2>1, <2>3
    <2> QED BY <2>2, <2>3
  <1> QED BY <1>6, <1>7, <1>8 DEF FreedInv

-----------------------------------------------------------------------------
\* The steps of the client, one by one.

\* The service and the SMB server do nothing meanwhile.
LEMMA WireMoves ==
  ASSUME RoundInv, UNCHANGED Remote, Taken, net' = net \/ (net' = "dead" /\ toCli' = <<>>)
  PROVE  WireMoved
  <1>1. /\ UNCHANGED <<srvVars, inst, s2c, pc, cont>>
    BY DEF Remote, connVars, pipeVars, threadVars
  <1>2. net = "dead" => toCli' = <<>>
    BY DEF Taken, RoundInv
  <1>3. Loc' = Loc
    BY <1>1 DEF Loc
  <1> QED BY <1>1, <1>2, <1>3 DEF WireMoved

\* Nothing new is pending; what goes is one of the kind of r.
Less(q) ==
    /\ q \in Seq(Waiting)
    /\ \A op, p : /\ NoneOf(pending, op, p) => NoneOf(q, op, p)
                  /\ OnceOf(pending, op, p) => OnceOf(q, op, p)
Fewer(q, r) ==
    /\ Less(q)
    /\ \A op, p : /\ NoneOf(q, op, p) => NoneOf(pending, op, p) \/ Is(r, op, p)
                  /\ OnceOf(pending, op, p) /\ Is(r, op, p) => NoneOf(q, op, p)

LEMMA RemovedFewer ==
  ASSUME ClientTypeOK, NEW i \in DOMAIN pending
  PROVE  Fewer(RemoveAt(pending, i), pending[i])
  <1>1. pending \in Seq(Waiting)
    BY DEF ClientTypeOK
  <1>2. RemoveAt(pending, i) \in Seq(Waiting)
    BY <1>1, RemoveAtType
  <1> QED BY <1>1, <1>2, RemoveAtOf DEF Fewer, Less

LEMMA RestFewer ==
  ASSUME ClientTypeOK, NEW r, Matching(r) # {}
  PROVE  Fewer(Rest(r), r) /\ ~NoneOf(pending, r.op, r.pipe)
  <1>1. Matched(r) \in DOMAIN pending /\ Matched(r) \in Matching(r)
    BY MatchedPending DEF ClientTypeOK
  <1>2. pending[Matched(r)].op = r.op /\ pending[Matched(r)].pipe = r.pipe
    BY <1>1 DEF Matching
  <1>3. Fewer(Rest(r), pending[Matched(r)])
    BY <1>1, RemovedFewer DEF Rest
  <1>4. \A op, p : Is(r, op, p) <=> Is(pending[Matched(r)], op, p)
    BY <1>2 DEF Is
  <1> QED BY <1>1, <1>3, <1>4 DEF Fewer, NoneOf, Is

LEMMA FrontFewer ==
  ASSUME ClientTypeOK, pending # <<>>
  PROVE  /\ Fewer(Front(pending), Last(pending)) /\ Last(pending) \in Waiting
         /\ Len(pending) \in DOMAIN pending /\ Last(pending) = pending[Len(pending)]
  <1>1. pending \in Seq(Waiting)
    BY DEF ClientTypeOK
  <1>2. /\ Front(pending) = RemoveAt(pending, Len(pending)) /\ Len(pending) \in DOMAIN pending
        /\ Last(pending) = pending[Len(pending)]
    BY <1>1, FrontRemoved
  <1> QED BY <1>1, <1>2, RemovedFewer

LEMMA UndestroyedOf ==
  ASSUME NEW p, NEW q \in Seq(Waiting), NEW op, NEW o
  PROVE  /\ NoneOf(q, op, o) => NoneOf(Undestroyed(p, q), op, o)
         /\ OnceOf(q, op, o) => OnceOf(Undestroyed(p, q), op, o)
         /\ NoneOf(Undestroyed(p, q), op, o) => NoneOf(q, op, o) \/ (o = p /\ op \in {"open", "read"})
  <1> DEFINE rreq == {i \in DOMAIN q : Destroyed(p, q[i])}
             m == CHOOSE i \in rreq : \A j \in rreq : j <= i
  <1>1. rreq \subseteq 1..Len(q) /\ Len(q) \in Nat
    OBVIOUS
  <1>2. CASE rreq = {}
    <2>1. Undestroyed(p, q) = q
      BY <1>2 DEF Undestroyed
    <2> QED BY <2>1
  <1>3. CASE rreq # {}
    <2>1. m \in DOMAIN q /\ Destroyed(p, q[m])
      BY <1>1, <1>3, Greatest
    <2>2. Undestroyed(p, q) = RemoveAt(q, m)
      BY <1>3 DEF Undestroyed
    <2> HIDE DEF m
    <2> QED BY <2>1, <2>2, RemoveAtOf DEF Destroyed, Is
  <1> QED BY <1>2, <1>3

\* What is pending when requests rs were made, rest being what else is.
Asks(rest, rs) == pending' = rest \/ pending' = rest \o Added(rs)

LEMMA SendAsks ==
  ASSUME NEW link, NEW rest, NEW rs, SendOn(link, rest, rs)
  PROVE  Asks(rest, rs) /\ (link # "dead" => pending' = rest \o Added(rs))
  BY DEF SendOn, Asks, Added

LEMMA AddedOf ==
  ASSUME ClientTypeOK, NEW rs \in Seq(Wired(account)), NEW op, NEW p
  PROVE  /\ Added(rs) \in Seq(Waiting)
         /\ NoneOf(Added(rs), op, p) <=> NoneOf(rs, op, p)
         /\ OnceOf(Added(rs), op, p) <=> OnceOf(rs, op, p)
  <1>1. Added(rs) \in Seq(Waiting)
    BY AddedType DEF ClientTypeOK
  <1>2. DOMAIN Added(rs) = DOMAIN rs /\ \A j \in DOMAIN rs : Is(Added(rs)[j], op, p) <=> Is(rs[j], op, p)
    BY DEF Added, Is
  <1> QED BY <1>1, <1>2 DEF NoneOf, OnceOf

LEMMA AsksOf ==
  ASSUME ClientTypeOK, NEW rest \in Seq(Waiting), NEW rs \in Seq(Wired(account)), Asks(rest, rs),
         NEW op, NEW p
  PROVE  /\ NoneOf(rest, op, p) /\ NoneOf(rs, op, p) => NoneOf(pending', op, p)
         /\ OnceOf(rest, op, p) /\ NoneOf(rs, op, p) => OnceOf(pending', op, p)
         /\ NoneOf(rest, op, p) /\ OnceOf(rs, op, p) => OnceOf(pending', op, p)
         /\ NoneOf(pending', op, p) => NoneOf(rest, op, p)
         /\ NoneOf(pending', op, p) /\ pending' = rest \o Added(rs) => NoneOf(rs, op, p)
  <1>1. /\ Added(rs) \in Seq(Waiting)
        /\ NoneOf(Added(rs), op, p) <=> NoneOf(rs, op, p)
        /\ OnceOf(Added(rs), op, p) <=> OnceOf(rs, op, p)
    BY AddedOf
  <1>2. CASE pending' = rest \o Added(rs)
    BY <1>1, <1>2, ConcatOf
  <1>3. CASE pending' = rest /\ ~(pending' = rest \o Added(rs))
    BY <1>3 DEF NoneOf, OnceOf
  <1> QED BY <1>2, <1>3 DEF Asks

\* All of the control pipe, in other words.
AllCtrl(q) == \A i \in DOMAIN q : q[i].pipe = "ctrl"

LEMMA CtrlNone ==
  ASSUME NEW q
  PROVE  AllCtrl(q) <=> \A op, p : p # "ctrl" => NoneOf(q, op, p)
  <1>1. ASSUME \A op, p : p # "ctrl" => NoneOf(q, op, p), NEW i \in DOMAIN q
        PROVE  q[i].pipe = "ctrl"
    BY <1>1 DEF NoneOf, Is
  <1> QED BY <1>1 DEF AllCtrl, NoneOf, Is

\* A request may be sent now.
Proper(r) ==
    LET p == r.pipe IN
    /\ r.fnum <= srvFnum[p]
    /\ r.op = "read" => r.fnum = io_read'[p]
    /\ r.op = "write" => /\ r.fnum = io_write'[p]
                         /\ p \in Std => fd'[p] # 0 /\ r.fnum = srvFnum[p]
    /\ r.op = "close" => r.fnum = srvFnum[p] /\ (NoneUnderway("open", p) \/ Popped("open", p))
    /\ Is(r, "close", "ctrl") =>
          state' = "CLOSING_FOR_REINSTALL" /\ mode' = "loop" /\ NoneUnderway("close", "ctrl")
    /\ r.op = "open" =>
          /\ NoneUnderway("open", p) /\ NoneUnderway("close", p) /\ ~NoneOf(pending', "open", p)
          /\ p \in Std => srvFnum[p] = 0 /\ fd'[p] = 0
    /\ Is(r, "open", "ctrl") => state' = "OPENING" /\ mode' = "loop"
    /\ StdQuiet => p = "ctrl" \/ StdTold

LEMMA ProperSent ==
  ASSUME NEW rs, \A j \in DOMAIN rs : Proper(rs[j]),
         \A i, j \in DOMAIN rs :
            /\ rs[i].op \in {"open", "close"} /\ rs[j].op \in {"open", "close"}
            /\ rs[i].pipe = rs[j].pipe
            => i = j
  PROVE  Sent(rs)
  <1> SUFFICES ASSUME NEW j \in DOMAIN rs
               PROVE  /\ rs[j].op = "close" => NoneOf(rs, "open", rs[j].pipe)
                      /\ Is(rs[j], "close", "ctrl") => OnceOf(rs, "close", "ctrl")
                      /\ rs[j].op = "open" =>
                            OnceOf(rs, "open", rs[j].pipe) /\ NoneOf(rs, "close", rs[j].pipe)
    BY DEF Sent, Proper
  <1>1. rs[j].op = "close" => NoneOf(rs, "open", rs[j].pipe)
    BY DEF NoneOf, Is
  <1>2. OnceOf(rs, "close", "ctrl") /\ OnceOf(rs, "open", rs[j].pipe)
    BY DEF OnceOf, Is
  <1>3. rs[j].op = "open" => NoneOf(rs, "close", rs[j].pipe)
    BY DEF NoneOf, Is
  <1> QED BY <1>1, <1>2, <1>3

Sends == \E rs \in Seq(Wired(account)) : Adds(rs) /\ Sent(rs)

LEMMA SendsNothing ==
  ASSUME toSrv' = toSrv
  PROVE  Sends
  <1>1. <<>> \in Seq(Wired(account)) /\ \A j \in DOMAIN <<>> : FALSE
    OBVIOUS
  <1> QED BY <1>1 DEF Sends, Adds, Sent

LEMMA SendsAll ==
  ASSUME NEW link, NEW rest, NEW rs \in Seq(Wired(account)), SendOn(link, rest, rs), link = "up" => Sent(rs)
  PROVE  Sends
  <1>1. CASE link = "up"
    BY <1>1, SendAdds DEF Sends
  <1>2. CASE link # "up"
    BY <1>2, SendsNothing DEF SendOn
  <1> QED BY <1>1, <1>2

LEMMA SendsOne ==
  ASSUME NEW link, NEW rest, NEW r \in Wired(account), SendOn(link, rest, <<r>>), link = "up" => Proper(r)
  PROVE  Sends
  <1>1. <<r>> \in Seq(Wired(account)) /\ DOMAIN <<r>> = {1} /\ <<r>>[1] = r
    OBVIOUS
  <1>2. Proper(r) => Sent(<<r>>)
    BY <1>1, ProperSent
  <1> QED BY <1>1, <1>2, SendsAll

LEMMA MovesOnce ==
  ASSUME Sends, Moved
  PROVE  \E rs : Move(rs)
  BY DEF Sends, Move

\* The requests rs may be pending now.
Awaited(rs) ==
    /\ rs \in Seq(Wired(account))
    /\ \A j \in DOMAIN rs :
          /\ rs[j].pipe \in Std /\ rs[j].op \in {"read", "write"} => fd'[rs[j].pipe] # 0
          /\ StdQuiet => rs[j].pipe = "ctrl" \/ StdTold
Untouched == stdinEv' = "none" /\ \A p \in Std : fd'[p] = 0 /\ io_read'[p] = 0 /\ io_write'[p] = 0
Replaces(rest) ==
    \A p \in Pipe : NoneOf(rest, "open", p) =>
        NoneOf(pending, "open", p) \/ NoneUnderway("open", p) \/ Popped("open", p) \/ net' = "dead"

LEMMA MovedWith ==
  ASSUME SessTypeOK, NumberInv, RoundInv, StdInv, WireMoved, FilesMoved, PlaceMoved,
         NEW rest, Less(rest), Replaces(rest), NEW rs, Awaited(rs), Asks(rest, rs),
         \/ NoneOf(rest, "close", "ctrl") /\ NoneOf(rs, "close", "ctrl")
         \/ /\ state' = "CLOSING_FOR_REINSTALL" /\ mode' = "loop"
            /\ \/ OnceOf(rest, "close", "ctrl") /\ NoneOf(rs, "close", "ctrl")
               \/ NoneOf(rest, "close", "ctrl") /\ OnceOf(rs, "close", "ctrl"),
         StdQuiet => StdTold \/ Untouched
  PROVE  Moved
  <1>1. /\ ClientTypeOK /\ rest \in Seq(Waiting) /\ rs \in Seq(Wired(account)) /\ Std \subseteq Pipe
        /\ pending \in Seq(Waiting) /\ net' \in {net, "dead"}
    BY DEF SessTypeOK, ClientTypeOK, Less, Awaited, WireMoved, Std, Pipe
  <1>2. ASSUME NEW op, NEW p, NoneOf(pending, op, p), NoneOf(rs, op, p)
        PROVE  NoneOf(pending', op, p)
    BY <1>1, <1>2, AsksOf DEF Less
  <1>3. ASSUME NEW p \in Pipe
        PROVE  Known("open", p)' \/ NoneUnderway("open", p) \/ Popped("open", p)
    <2>1. CASE NoneOf(pending', "open", p)
      <3>1. NoneOf(pending, "open", p) \/ NoneUnderway("open", p) \/ Popped("open", p) \/ net' = "dead"
        BY <1>1, <2>1, AsksOf DEF Replaces
      <3>2. NoneOf(pending, "open", p) => net = "dead" \/ NoneUnderway("open", p)
        BY DEF RoundInv, Known
      <3> QED BY <1>1, <3>1, <3>2 DEF Known
    <2>2. CASE ~NoneOf(pending', "open", p)
      BY <2>2 DEF Known, NoneOf
    <2> QED BY <2>1, <2>2
  <1>4. OnceOf(pending', "close", "ctrl")
    <2>1. NoneOf(rest, "close", "ctrl") => OnceOf(rest, "close", "ctrl")
      BY DEF NoneOf, OnceOf
    <2> QED BY <1>1, <2>1, AsksOf
  <1>5. ~(state' = "CLOSING_FOR_REINSTALL" /\ mode' = "loop") => NoneOf(pending', "close", "ctrl")
    BY <1>1, AsksOf
  <1>6. ASSUME NEW p \in Std, NEW op \in {"read", "write"}, ~NoneOf(pending', op, p)
        PROVE  fd'[p] # 0
    <2>1. CASE ~NoneOf(rs, op, p)
      BY <2>1 DEF Awaited, NoneOf, Is
    <2>2. CASE ~NoneOf(pending, op, p)
      <3>1. fd[p] # 0
        BY <2>2 DEF StdInv
      <3>2. fd'[p] \in {fd[p], srvFnum[p]} /\ fd[p] <= srvFnum[p] /\ fd[p] \in Nat
        BY <1>1 DEF FilesMoved, NumberInv, ClientTypeOK
      <3> QED BY <3>1, <3>2
    <2> QED BY <1>2, <1>6, <2>1, <2>2
  <1>7. ASSUME StdQuiet, ~StdTold
        PROVE  StdStays
    <2>1. AllCtrl(pending)
      BY <1>7 DEF StdQuiet, AllCtrl
    <2>2. AllCtrl(rs)
      BY <1>7 DEF Awaited, AllCtrl
    <2>3. \A op, p : p # "ctrl" => NoneOf(pending', op, p)
      BY <1>2, <2>1, <2>2, CtrlNone
    <2>4. AllCtrl(pending')
      BY <2>3, CtrlNone
    <2> QED BY <1>7, <2>4 DEF StdStays, Untouched, AllCtrl
  <1>8. PendingMoved
    BY <1>3, <1>4, <1>5, <1>6 DEF PendingMoved
  <1> QED BY <1>7, <1>8 DEF Moved, QuietMoved

\* Steps that leave the client where it is.
IoKept ==
    \A p \in Pipe :
        /\ io_read'[p] <= srvFnum[p] /\ io_write'[p] <= srvFnum[p]
        /\ io_read'[p] = 0 => io_read[p] = 0 \/ Popped("close", p) \/ net' = "dead"
        /\ io_write'[p] = 0 => \/ io_write[p] = 0 \/ Popped("close", p) \/ net' = "dead"
                               \/ p \in Std /\ Popped("write", p) /\ Reply.status # "ok"
        /\ StdQuiet /\ p \in Std => StdTold \/ (io_read'[p] = 0 /\ io_write'[p] = 0)

\* What a step that changes no file keeps.
LEMMA FilesKept ==
  ASSUME StdInv, UNCHANGED <<fd, stdinEv>>, IoKept, \A p \in Pipe : Popped("open", p) => Reply.status # "ok"
  PROVE  FilesMoved /\ (StdQuiet => StdTold \/ Untouched)
  <1>1. Std \subseteq Pipe
    BY DEF Std, Pipe
  <1> QED BY <1>1 DEF FilesMoved, IoKept, StdInv, StdQuiet, Untouched

LEMMA StaysMoved ==
  ASSUME SessTypeOK, NumberInv, RoundInv, StdInv, WireMoved, UNCHANGED <<state, mode, fd, stdinEv>>,
         \A p \in Pipe : Popped("open", p) => Reply.status # "ok",
         IoKept, NEW rest, Less(rest), Replaces(rest), NEW rs, Awaited(rs), Asks(rest, rs),
         NoneOf(rs, "close", "ctrl")
  PROVE  Moved
  <1>1. FilesMoved /\ (StdQuiet => StdTold \/ Untouched)
    BY FilesKept
  <1>2. PlaceMoved
    <2>1. ~(state = "CLOSING_FOR_REINSTALL" /\ mode = "loop") \/ (state' = "CLOSING_FOR_REINSTALL" /\ mode' = "loop")
      OBVIOUS
    <2>2. state' # "OPENING" \/ mode' # "loop" => NoneUnderway("open", "ctrl")
      BY DEF RoundInv
    <2> QED BY <2>1, <2>2 DEF PlaceMoved
  <1>3. \/ NoneOf(rest, "close", "ctrl")
        \/ state' = "CLOSING_FOR_REINSTALL" /\ mode' = "loop" /\ OnceOf(rest, "close", "ctrl")
    BY DEF RoundInv, Less
  <1> QED BY <1>1, <1>2, <1>3, MovedWith

LEMMA NotPopped ==
  ASSUME ClientTypeOK, toCli' = toCli, NEW op, NEW p
  PROVE  ~Popped(op, p)
  <1>1. ASSUME toCli # <<>>, toCli = Tail(toCli)
        PROVE  FALSE
    <2>1. toCli \in Seq(Replied) /\ Len(toCli) \in Nat /\ DOMAIN toCli = 1..Len(toCli)
      BY DEF ClientTypeOK
    <2>2. DOMAIN Tail(toCli) = 1..(Len(toCli) - 1) /\ 1 \in DOMAIN toCli
      BY <1>1, <2>1, TailElements
    <2>3. Len(toCli) \in DOMAIN toCli /\ Len(toCli) \notin 1..(Len(toCli) - 1)
      BY <2>1, <2>2
    <2> QED BY <1>1, <2>2, <2>3
  <1> QED BY <1>1 DEF Popped

\* What a completion starts from.
LEMMA Received ==
  ASSUME ClientTypeOK, NEW op, NEW ok, Receive(op, ok)
  PROVE  /\ toCli # <<>> /\ Taken /\ mode = "loop"
         /\ Reply = toCli[1] /\ 1 \in DOMAIN toCli /\ Reply \in Replied
         /\ Reply.op = op /\ Reply.pipe \in Pipe /\ Reply.fnum \in Nat
         /\ Fewer(Rest(Reply), Reply) /\ ~NoneOf(pending, op, Reply.pipe)
         /\ ~NoneUnderway(op, Reply.pipe)
         /\ \A o, p : Popped(o, p) <=> o = op /\ p = Reply.pipe
  <1>1. /\ toCli \in Seq(Replied) /\ toCli # <<>> /\ toCli' = Tail(toCli) /\ Matching(Reply) # {}
        /\ mode = "loop" /\ Reply.op = op
    BY DEF ClientTypeOK, Receive, Receiving
  <1>2. Reply = toCli[1] /\ 1 \in DOMAIN toCli
    BY <1>1, FetchedTail
  <1>3. Fewer(Rest(Reply), Reply) /\ ~NoneOf(pending, op, Reply.pipe)
    BY <1>1, RestFewer
  <1>4. \A o, p : Popped(o, p) <=> o = op /\ p = Reply.pipe
    BY <1>1 DEF Popped, Is
  <1>5. ~NoneUnderway(op, Reply.pipe)
    BY <1>1, <1>2 DEF NoneUnderway, NoneOf, Is
  <1> QED BY <1>1, <1>2, <1>3, <1>4, <1>5, ReceiveType DEF Taken

\* The file number that a read or a write is sent with.
LEMMA ReadKept ==
  ASSUME SessTypeOK, NumberInv, NEW p \in Pipe, NEW f \in Nat, f <= srvFnum[p], ReadIssued(p, f)
  PROVE  /\ async_read(p, f) \in Wired(account)
         /\ async_read(p, f).op = "read" /\ async_read(p, f).pipe = p
         /\ async_read(p, f).fnum = io_read'[p] /\ io_read'[p] <= srvFnum[p]
         /\ \A o \in Pipe : /\ io_read'[o] <= srvFnum[o]
                            /\ io_read'[o] = 0 => io_read[o] = 0
                            /\ o # p => io_read'[o] = io_read[o]
  <1>1. ClientTypeOK /\ io_read \in [Pipe -> Nat] /\ \A o \in Pipe : io_read[o] <= srvFnum[o]
    BY DEF SessTypeOK, ClientTypeOK, NumberInv
  <1>2. io_read'[p] = Cached(io_read, p, f) /\ \A o \in Pipe : o # p => io_read'[o] = io_read[o]
    BY <1>1 DEF ReadIssued
  <1>3. Cached(io_read, p, f) <= srvFnum[p] /\ (Cached(io_read, p, f) = 0 => io_read[p] = 0)
    BY <1>1 DEF Cached
  <1>4. async_read(p, f).op = "read" /\ async_read(p, f).pipe = p /\ async_read(p, f).fnum = Cached(io_read, p, f)
    BY DEF async_read, Request
  <1>5. async_read(p, f) \in Wired(account)
    BY <1>1, OwnRequestType
  <1> HIDE DEF Cached
  <1> QED BY <1>1, <1>2, <1>3, <1>4, <1>5

LEMMA WriteKept ==
  ASSUME SessTypeOK, NumberInv, NEW p \in Pipe, NEW f \in Nat, f <= srvFnum[p], WriteIssued(p, f), NEW items
  PROVE  /\ async_write(p, f, items).op = "write" /\ async_write(p, f, items).pipe = p
         /\ async_write(p, f, items).fnum = io_write'[p] /\ io_write'[p] <= srvFnum[p]
         /\ io_write'[p] = IF io_write[p] # 0 THEN io_write[p] ELSE f
         /\ \A o \in Pipe : /\ io_write'[o] <= srvFnum[o]
                            /\ io_write'[o] = 0 => io_write[o] = 0
                            /\ o # p => io_write'[o] = io_write[o]
  <1>1. ClientTypeOK /\ io_write \in [Pipe -> Nat] /\ \A o \in Pipe : io_write[o] <= srvFnum[o]
    BY DEF SessTypeOK, ClientTypeOK, NumberInv
  <1>2. io_write'[p] = Cached(io_write, p, f) /\ \A o \in Pipe : o # p => io_write'[o] = io_write[o]
    BY <1>1 DEF WriteIssued
  <1>3. /\ Cached(io_write, p, f) <= srvFnum[p] /\ (Cached(io_write, p, f) = 0 => io_write[p] = 0)
        /\ Cached(io_write, p, f) = IF io_write[p] # 0 THEN io_write[p] ELSE f
    BY <1>1 DEF Cached
  <1>4. /\ async_write(p, f, items).op = "write" /\ async_write(p, f, items).pipe = p
        /\ async_write(p, f, items).fnum = Cached(io_write, p, f)
    BY DEF async_write, Request
  <1> HIDE DEF Cached
  <1> QED BY <1>1, <1>2, <1>3, <1>4

\* Nothing changes but that a reply is taken and its request is forgotten.
LEMMA ForgetMoves ==
  ASSUME SessTypeOK, NumberInv, RoundInv, StdInv, WireMoved,
         UNCHANGED <<state, mode, fd, io_read, io_write, stdinEv, toSrv>>,
         \A p \in Pipe : Popped("open", p) => Reply.status # "ok",
         Less(pending'), Replaces(pending')
  PROVE  \E rs : Move(rs)
  <1>1. Awaited(<<>>) /\ NoneOf(<<>>, "close", "ctrl")
    BY DEF Awaited, NoneOf
  <1>2. Asks(pending', <<>>)
    BY DEF Asks
  <1>3. IoKept
    BY DEF IoKept, NumberInv, StdQuiet
  <1> QED BY <1>1, <1>2, <1>3, StaysMoved, SendsNothing, MovesOnce

LEMMA SameMoves ==
  ASSUME SessTypeOK, Stored, UNCHANGED Remote, UNCHANGED net,
         UNCHANGED <<state, mode, fd, io_read, io_write, stdinEv, toSrv, pending>>, Taken,
         \A p \in Pipe : ~Popped("open", p)
  PROVE  \E rs : Move(rs)
  <1>1. WireMoved
    BY WireMoves DEF Stored
  <1>2. Less(pending') /\ Replaces(pending')
    BY DEF Less, Replaces, SessTypeOK, ClientTypeOK
  <1> QED BY <1>1, <1>2, ForgetMoves DEF Stored

LEMMA DropMoves ==
  ASSUME SessTypeOK, Stored, UNCHANGED Remote, DropReply
  PROVE  \E rs : Move(rs)
  <1>1. /\ ClientTypeOK /\ toCli \in Seq(Replied) /\ toCli # <<>> /\ toCli' = Tail(toCli)
        /\ Matching(Reply) = {} /\ Taken
        /\ UNCHANGED <<net, state, mode, fd, io_read, io_write, stdinEv, toSrv, pending>>
    BY DEF SessTypeOK, ClientTypeOK, DropReply, Taken, stateVars, ioVars, reqVars, userVars
  <1>2. ASSUME NEW p \in Pipe, Popped("open", p)
        PROVE  FALSE
    <2>1. Reply = toCli[1] /\ 1 \in DOMAIN toCli /\ Is(Reply, "open", p)
      BY <1>1, <1>2, FetchedTail DEF Popped
    <2>2. ~NoneUnderway("open", p) /\ net # "dead"
      BY <1>1, <2>1 DEF NoneUnderway, NoneOf, Stored, RoundInv
    <2>3. ~NoneOf(pending, "open", p)
      BY <2>2 DEF Stored, RoundInv, Known
    <2>4. Matching(Reply) # {}
      BY <2>1, <2>3 DEF NoneOf, Is, Matching
    <2> QED BY <1>1, <2>4
  <1> QED BY <1>1, <1>2, SameMoves

LEMMA WrittenMoves ==
  ASSUME SessTypeOK, Stored, UNCHANGED Remote, Written
  PROVE  \E rs : Move(rs)
  <1>1. ClientTypeOK /\ Receive("write", TRUE)
    BY DEF SessTypeOK, Written
  <1>2. /\ Taken /\ Fewer(Rest(Reply), Reply) /\ Reply.op = "write"
        /\ \A o, p : Popped(o, p) <=> o = "write" /\ p = Reply.pipe
    BY <1>1, Received
  <1>3. /\ UNCHANGED <<net, state, mode, fd, io_read, io_write, stdinEv, toSrv>> /\ pending' = Rest(Reply)
    BY DEF Written, stateVars, ioVars, userVars
  <1>4. WireMoved
    BY <1>2, <1>3, WireMoves DEF Stored
  <1>5. Less(pending') /\ Replaces(pending')
    BY <1>2, <1>3 DEF Fewer, Less, Replaces, Is
  <1> QED BY <1>2, <1>3, <1>4, <1>5, ForgetMoves DEF Stored

\* One read follows another.
LEMMA ReadMoves ==
  ASSUME SessTypeOK, Stored, UNCHANGED Remote, NEW p \in Pipe, Receive("read", TRUE), Reply.pipe = p,
         ReadIssued(p, fd[p]), Send(Rest(Reply), <<async_read(p, fd[p])>>),
         UNCHANGED <<net, state, mode, fd, io_write, stdinEv>>
  PROVE  \E rs : Move(rs)
  <1> DEFINE r == async_read(p, fd[p])
  <1>1. /\ ClientTypeOK /\ NumberInv /\ RoundInv /\ StdInv
        /\ fd[p] \in Nat /\ fd[p] <= srvFnum[p] /\ Std \subseteq Pipe
    BY DEF SessTypeOK, ClientTypeOK, Stored, NumberInv, Std, Pipe
  <1>2. /\ Taken /\ Fewer(Rest(Reply), Reply) /\ Reply = toCli[1] /\ 1 \in DOMAIN toCli
        /\ ~NoneOf(pending, "read", p) /\ Reply.op = "read"
        /\ \A o, q : Popped(o, q) <=> o = "read" /\ q = p
    BY <1>1, Received
  <1>3. /\ r \in Wired(account) /\ r.op = "read" /\ r.pipe = p
        /\ r.fnum = io_read'[p] /\ io_read'[p] <= srvFnum[p]
        /\ \A o \in Pipe : /\ io_read'[o] <= srvFnum[o]
                           /\ io_read'[o] = 0 => io_read[o] = 0
                           /\ o # p => io_read'[o] = io_read[o]
    BY <1>1, ReadKept
  <1>4. p # "ctrl" => ~StdQuiet
    BY <1>2 DEF StdQuiet
  <1>5. p \in Std => fd[p] # 0
    BY <1>1, <1>2 DEF StdInv
  <1> HIDE DEF r
  <1>6. Proper(r)
    BY <1>3, <1>4 DEF Proper, Is
  <1>7. <<r>> \in Seq(Wired(account)) /\ DOMAIN <<r>> = {1} /\ <<r>>[1] = r
    BY <1>3
  <1>8. Awaited(<<r>>) /\ NoneOf(<<r>>, "close", "ctrl")
    BY <1>3, <1>4, <1>5, <1>7 DEF Awaited, NoneOf, Is
  <1>9. SendOn(net, Rest(Reply), <<r>>)
    BY DEF Send, r
  <1>10. Sends
    BY <1>3, <1>6, <1>9, SendsOne
  <1>11. IoKept
    <2>1. StdQuiet => \A q \in Std : io_read'[q] = 0 /\ io_write'[q] = 0
      BY <1>1, <1>3, <1>4 DEF StdQuiet, Std
    <2> QED BY <1>1, <1>3, <2>1 DEF IoKept, NumberInv
  <1>12. Less(Rest(Reply)) /\ Replaces(Rest(Reply))
    BY <1>2 DEF Fewer, Replaces, Is
  <1>13. WireMoved
    BY <1>1, <1>2, WireMoves
  <1>14. Asks(Rest(Reply), <<r>>)
    BY <1>9, SendAsks
  <1>15. Moved
    BY <1>1, <1>2, <1>8, <1>11, <1>12, <1>13, <1>14, StaysMoved
  <1> QED BY <1>10, <1>15, MovesOnce

LEMMA OutputMoves ==
  ASSUME SessTypeOK, Stored, UNCHANGED Remote, OutputRead
  PROVE  \E rs : Move(rs)
  <1>1. /\ Receive("read", TRUE) /\ ReadIssued(Reply.pipe, fd[Reply.pipe])
        /\ Send(Rest(Reply), <<async_read(Reply.pipe, fd[Reply.pipe])>>)
        /\ UNCHANGED <<net, state, mode, fd, io_write, stdinEv>>
    BY DEF OutputRead, stateVars
  <1>2. Reply.pipe \in Pipe
    BY <1>1, Received DEF SessTypeOK
  <1> QED BY <1>1, <1>2, ReadMoves

\* A message of the control pipe that only asks for the next one.
LEMMA NextMoves ==
  ASSUME SessTypeOK, Stored, UNCHANGED Remote, NEW type, CtrlRead(type),
         Send(Rest(Reply), <<NextRead>>), UNCHANGED <<state, io_write, stdinEv>>
  PROVE  \E rs : Move(rs)
  <1>1. /\ Receive("read", TRUE) /\ Reply.pipe = "ctrl" /\ ReadIssued("ctrl", fd["ctrl"])
        /\ UNCHANGED <<net, mode, fd>>
    BY DEF CtrlRead
  <1>2. "ctrl" \in Pipe /\ Send(Rest(Reply), <<async_read("ctrl", fd["ctrl"])>>)
    BY DEF Pipe, NextRead
  <1> QED BY <1>1, <1>2, ReadMoves

\* The control pipe, whose messages come while it is neither opened nor closed.
LEMMA MessageStarts ==
  ASSUME SessTypeOK, OnceInv, Stored, UNCHANGED Remote, NEW type, CtrlRead(type)
  PROVE  /\ ClientTypeOK /\ NumberInv /\ RoundInv /\ StdInv /\ "ctrl" \in Pipe /\ Std \subseteq Pipe
         /\ fd["ctrl"] \in Nat /\ fd["ctrl"] <= srvFnum["ctrl"] /\ mode = "loop" /\ mode' = mode
         /\ UNCHANGED <<net, fd>> /\ net # "dead"
         /\ state \in {"GETTING_VERSION", "RUNNING"} /\ NoneUnderway("open", "ctrl")
         /\ NoneOf(pending, "close", "ctrl") /\ NoneUnderway("close", "ctrl")
         /\ Fewer(Rest(Reply), Reply) /\ Is(Reply, "read", "ctrl")
         /\ \A o, q : Popped(o, q) <=> o = "read" /\ q = "ctrl"
         /\ Less(Rest(Reply)) /\ Replaces(Rest(Reply)) /\ WireMoved
  <1>1. /\ ClientTypeOK /\ NumberInv /\ RoundInv /\ StdInv /\ "ctrl" \in Pipe /\ Std \subseteq Pipe
        /\ fd["ctrl"] \in Nat /\ fd["ctrl"] <= srvFnum["ctrl"] /\ Receive("read", TRUE)
        /\ Reply.pipe = "ctrl" /\ UNCHANGED <<net, fd, mode>>
    BY DEF SessTypeOK, ClientTypeOK, Stored, NumberInv, Std, Pipe, CtrlRead
  <1>2. state \in {"GETTING_VERSION", "RUNNING"}
    BY MessageFetched DEF OnceInv
  <1>3. /\ Taken /\ mode = "loop" /\ Reply.op = "read" /\ toCli # <<>> /\ Fewer(Rest(Reply), Reply)
        /\ \A o, q : Popped(o, q) <=> o = "read" /\ q = "ctrl"
    BY <1>1, Received
  <1>4. net # "dead"
    BY <1>1, <1>3 DEF RoundInv
  <1>5. NoneUnderway("open", "ctrl") /\ NoneOf(pending, "close", "ctrl") /\ NoneUnderway("close", "ctrl")
    BY <1>1, <1>2, <1>4 DEF RoundInv, NoneUnderway
  <1>6. Less(Rest(Reply)) /\ Replaces(Rest(Reply))
    BY <1>3 DEF Fewer, Replaces, Is
  <1>7. WireMoved
    BY <1>1, <1>3, WireMoves
  <1> QED BY <1>1, <1>2, <1>3, <1>4, <1>5, <1>6, <1>7 DEF Is

\* The next read of the control pipe.
LEMMA NextProper ==
  ASSUME SessTypeOK, NumberInv, ReadIssued("ctrl", fd["ctrl"])
  PROVE  /\ NextRead \in Wired(account) /\ NextRead.op = "read" /\ NextRead.pipe = "ctrl" /\ Proper(NextRead)
         /\ \A o \in Pipe : /\ io_read'[o] <= srvFnum[o]
                            /\ io_read'[o] = 0 => io_read[o] = 0
                            /\ o # "ctrl" => io_read'[o] = io_read[o]
  <1>1. "ctrl" \in Pipe /\ fd["ctrl"] \in Nat /\ fd["ctrl"] <= srvFnum["ctrl"]
    BY DEF Pipe, NumberInv, SessTypeOK, ClientTypeOK
  <1>2. /\ NextRead \in Wired(account) /\ NextRead.op = "read" /\ NextRead.pipe = "ctrl"
        /\ NextRead.fnum = io_read'["ctrl"] /\ io_read'["ctrl"] <= srvFnum["ctrl"]
        /\ \A o \in Pipe : /\ io_read'[o] <= srvFnum[o]
                           /\ io_read'[o] = 0 => io_read[o] = 0
                           /\ o # "ctrl" => io_read'[o] = io_read[o]
    BY <1>1, ReadKept DEF NextRead
  <1>3. Proper(NextRead)
    BY <1>2 DEF Proper, Is
  <1> QED BY <1>2, <1>3

\* The service tells of the standard pipes, for the first time.
LEMMA StdIoMoves ==
  ASSUME SessTypeOK, OnceInv, Stored, UNCHANGED Remote, OnStdIoErr
  PROVE  \E rs : Move(rs)
  <1> DEFINE a == async_open("in")
             b == async_open("out")
             c == async_open("err")
             rs == <<a, b, c, NextRead>>
  <1>1. /\ CtrlRead("std_io_err") /\ SendOn(net, Rest(Reply), rs) /\ ReadIssued("ctrl", fd["ctrl"])
        /\ UNCHANGED <<state, io_write, stdinEv>>
    BY DEF OnStdIoErr, CtrlRead, Send, userVars
  <1>2. /\ ClientTypeOK /\ NumberInv /\ RoundInv /\ StdInv /\ Std \subseteq Pipe
        /\ UNCHANGED <<net, fd, mode>> /\ net # "dead"
        /\ Fewer(Rest(Reply), Reply) /\ \A o, q : Popped(o, q) <=> o = "read" /\ q = "ctrl"
        /\ Less(Rest(Reply)) /\ Replaces(Rest(Reply)) /\ WireMoved
    BY <1>1, MessageStarts
  <1>3. /\ NextRead \in Wired(account) /\ NextRead.op = "read" /\ NextRead.pipe = "ctrl" /\ Proper(NextRead)
        /\ \A o \in Pipe : /\ io_read'[o] <= srvFnum[o]
                           /\ io_read'[o] = 0 => io_read[o] = 0
                           /\ o # "ctrl" => io_read'[o] = io_read[o]
    BY <1>1, <1>2, NextProper
  <1>4. StdTold
    <2>1. /\ Reply = toCli[1] /\ 1 \in DOMAIN toCli /\ Reply.op = "read" /\ Reply.pipe = "ctrl"
          /\ Reply.status = "ok" /\ Reply \in Replied
      BY <1>1, <1>2, Received DEF CtrlRead, Receive
    <2>2. Reply.data \in Seq(Message) /\ Reply.data # <<>>
      BY <2>1 DEF Replied
    <2>3. 1 \in DOMAIN Reply.data /\ Reply.data[1].type = "std_io_err"
      BY <1>1, <2>2, TailElements DEF CtrlRead
    <2> QED BY <1>2, <2>1, <2>3 DEF StdTold, Teller, Tells, OnCtrl
  <1>5. StdQuiet
    <2>1. Teller(1) /\ 1 \in DOMAIN toCli
      BY <1>1, <1>2, <1>4, Received DEF StdTold, CtrlRead
    <2> QED BY <2>1 DEF Stored, TellInv
  <1>6. ASSUME NEW p \in Std
        PROVE  /\ NoneUnderway("open", p) /\ NoneUnderway("close", p) /\ srvFnum[p] = 0 /\ fd[p] = 0
               /\ async_open(p) \in Wired(account) /\ async_open(p).op = "open" /\ async_open(p).pipe = p
               /\ async_open(p).fnum = 0
    <2>1. srvFnum[p] = 0 /\ fd[p] = 0 /\ p # "ctrl"
      BY <1>5 DEF StdQuiet, Std
    <2>2. NoneUnderway("open", p) /\ NoneUnderway("close", p)
      BY <1>5, <2>1 DEF StdQuiet, NoneUnderway, NoneOf, Is
    <2>3. async_open(p).op = "open" /\ async_open(p).pipe = p /\ async_open(p).fnum = 0
      BY DEF async_open, Request
    <2>4. async_open(p) \in Wired(account)
      BY <1>2, OwnRequestType
    <2> QED BY <2>1, <2>2, <2>3, <2>4
  <1>7. /\ a \in Wired(account) /\ b \in Wired(account) /\ c \in Wired(account)
        /\ a.op = "open" /\ b.op = "open" /\ c.op = "open"
        /\ a.pipe = "in" /\ b.pipe = "out" /\ c.pipe = "err"
    BY <1>6 DEF Std
  <1>8. /\ rs \in Seq(Wired(account)) /\ DOMAIN rs = {1, 2, 3, 4}
        /\ rs[1] = a /\ rs[2] = b /\ rs[3] = c /\ rs[4] = NextRead
    <2> HIDE DEF a, b, c
    <2> QED BY <1>3, <1>7
  <1>9. pending' = Rest(Reply) \o Added(rs) /\ Asks(Rest(Reply), rs)
    BY <1>1, <1>2, SendAsks
  <1>10. \A p \in Std : Proper(async_open(p)) \/ NoneOf(rs, "open", p)
    <2> SUFFICES ASSUME NEW p \in Std, ~NoneOf(rs, "open", p)
                 PROVE  Proper(async_open(p))
      OBVIOUS
    <2>1. ~NoneOf(pending', "open", p)
      BY <1>2, <1>8, <1>9, AsksOf DEF Less
    <2> QED BY <1>2, <1>4, <1>6, <2>1 DEF Proper, Is, Std
  <1> HIDE DEF a, b, c, rs
  <1>11. \A j \in DOMAIN rs : Proper(rs[j])
    <2>1. ~NoneOf(rs, "open", "in") /\ ~NoneOf(rs, "open", "out") /\ ~NoneOf(rs, "open", "err")
      BY <1>7, <1>8 DEF NoneOf, Is
    <2>2. Proper(a) /\ Proper(b) /\ Proper(c)
      BY <1>10, <2>1 DEF Std, a, b, c
    <2> QED BY <1>3, <1>8, <2>2
  <1>12. Sent(rs)
    <2>1. \A i, j \in DOMAIN rs :
             /\ rs[i].op \in {"open", "close"} /\ rs[j].op \in {"open", "close"}
             /\ rs[i].pipe = rs[j].pipe
             => i = j
      BY <1>3, <1>7, <1>8
    <2> QED BY <1>11, <2>1, ProperSent
  <1>13. Awaited(rs) /\ NoneOf(rs, "close", "ctrl")
    BY <1>3, <1>4, <1>7, <1>8 DEF Awaited, NoneOf, Is, Std
  <1>14. IoKept
    BY <1>1, <1>2, <1>3, <1>4 DEF IoKept, NumberInv
  <1>15. Moved
    BY <1>1, <1>2, <1>9, <1>13, <1>14, StaysMoved
  <1> QED BY <1>1, <1>8, <1>12, <1>15, SendsAll, MovesOnce

\* The version is right, and the command is sent.
LEMMA VersionMoves ==
  ASSUME SessTypeOK, OnceInv, Stored, UNCHANGED Remote, OnVersion
  PROVE  \E rs : Move(rs)
  <1> DEFINE w == async_write("ctrl", fd["ctrl"], RunCommand)
             rs == <<w, NextRead>>
  <1>1. /\ CtrlRead("version") /\ SendOn(net, Rest(Reply), rs) /\ ReadIssued("ctrl", fd["ctrl"])
        /\ WriteIssued("ctrl", fd["ctrl"]) /\ state' = "RUNNING" /\ UNCHANGED stdinEv
    BY DEF OnVersion, CtrlRead, Send, userVars
  <1>2. /\ ClientTypeOK /\ NumberInv /\ RoundInv /\ StdInv /\ "ctrl" \in Pipe /\ Std \subseteq Pipe
        /\ fd["ctrl"] \in Nat /\ fd["ctrl"] <= srvFnum["ctrl"]
        /\ UNCHANGED fd /\ state \in {"GETTING_VERSION", "RUNNING"}
        /\ NoneUnderway("open", "ctrl") /\ NoneOf(pending, "close", "ctrl")
        /\ \A o, q : Popped(o, q) <=> o = "read" /\ q = "ctrl"
        /\ Less(Rest(Reply)) /\ Replaces(Rest(Reply)) /\ WireMoved
    BY <1>1, MessageStarts
  <1>3. /\ NextRead \in Wired(account) /\ NextRead.op = "read" /\ NextRead.pipe = "ctrl" /\ Proper(NextRead)
        /\ \A o \in Pipe : /\ io_read'[o] <= srvFnum[o]
                           /\ io_read'[o] = 0 => io_read[o] = 0
                           /\ o # "ctrl" => io_read'[o] = io_read[o]
    BY <1>1, <1>2, NextProper
  <1>4. /\ w.op = "write" /\ w.pipe = "ctrl" /\ w.fnum = io_write'["ctrl"] /\ io_write'["ctrl"] <= srvFnum["ctrl"]
        /\ \A o \in Pipe : /\ io_write'[o] <= srvFnum[o]
                           /\ io_write'[o] = 0 => io_write[o] = 0
                           /\ o # "ctrl" => io_write'[o] = io_write[o]
    BY <1>1, <1>2, WriteKept
  <1>5. w \in Wired(account)
    BY <1>2, OwnRequestType DEF RunCommand
  <1> HIDE DEF w
  <1>6. Proper(w)
    BY <1>4 DEF Proper, Is, Std
  <1>7. /\ rs \in Seq(Wired(account)) /\ DOMAIN rs = {1, 2} /\ rs[1] = w /\ rs[2] = NextRead
    BY <1>3, <1>5
  <1>8. SendOn(net, Rest(Reply), rs)
    BY <1>1 DEF w
  <1> HIDE DEF rs
  <1>9. Sent(rs)
    <2>1. \A j \in DOMAIN rs : Proper(rs[j]) /\ rs[j].op \notin {"open", "close"}
      BY <1>3, <1>4, <1>6, <1>7
    <2> QED BY <2>1, ProperSent
  <1>10. Awaited(rs) /\ NoneOf(rs, "close", "ctrl")
    BY <1>3, <1>4, <1>7 DEF Awaited, NoneOf, Is, Std
  <1>11. IoKept
    BY <1>2, <1>3, <1>4 DEF IoKept, StdQuiet, Std
  <1>12. FilesMoved /\ (StdQuiet => StdTold \/ Untouched)
    BY <1>1, <1>2, <1>11, FilesKept
  <1>13. PlaceMoved
    BY <1>1, <1>2 DEF PlaceMoved
  <1>14. Asks(Rest(Reply), rs) /\ NoneOf(Rest(Reply), "close", "ctrl")
    BY <1>2, <1>8, SendAsks DEF Less
  <1>15. Moved
    BY <1>2, <1>10, <1>12, <1>13, <1>14, MovedWith
  <1> QED BY <1>7, <1>8, <1>9, <1>15, SendsAll, MovesOnce

\* The version is wrong, and the control pipe is closed.
LEMMA CloseMoves ==
  ASSUME SessTypeOK, OnceInv, Stored, UNCHANGED Remote, NEW type, CtrlRead(type), CloseForReinstall,
         state = "GETTING_VERSION"
  PROVE  \E rs : Move(rs)
  <1> DEFINE c == async_close("ctrl")
             rest == Rest(Reply)
             rs == <<c, NextRead>>
  <1>1. /\ SendOn(net, rest, rs) /\ ReadIssued("ctrl", fd["ctrl"])
        /\ state' = "CLOSING_FOR_REINSTALL" /\ UNCHANGED <<io_write, stdinEv>>
    BY DEF CloseForReinstall, CtrlRead, Send, userVars
  <1>2. /\ ClientTypeOK /\ NumberInv /\ RoundInv /\ StdInv /\ "ctrl" \in Pipe /\ Std \subseteq Pipe
        /\ fd["ctrl"] \in Nat /\ fd["ctrl"] <= srvFnum["ctrl"] /\ mode = "loop" /\ mode' = mode
        /\ UNCHANGED fd /\ NoneUnderway("open", "ctrl") /\ NoneUnderway("close", "ctrl")
        /\ NoneOf(pending, "close", "ctrl") /\ WireMoved
        /\ Fewer(Rest(Reply), Reply) /\ Is(Reply, "read", "ctrl")
        /\ \A o, q : Popped(o, q) <=> o = "read" /\ q = "ctrl"
    BY MessageStarts
  <1>3. /\ NextRead \in Wired(account) /\ NextRead.op = "read" /\ NextRead.pipe = "ctrl" /\ Proper(NextRead)
        /\ \A o \in Pipe : /\ io_read'[o] <= srvFnum[o]
                           /\ io_read'[o] = 0 => io_read[o] = 0
                           /\ o # "ctrl" => io_read'[o] = io_read[o]
    BY <1>1, <1>2, NextProper
  <1>4. c \in Wired(account) /\ c.op = "close" /\ c.pipe = "ctrl" /\ c.fnum = fd["ctrl"]
    BY <1>2, OwnRequestType DEF async_close, Request
  <1>5. Less(rest) /\ Replaces(rest)
    BY <1>2 DEF Fewer, Replaces, Less, Is
  <1> HIDE DEF c, rest
  <1>6. /\ rs \in Seq(Wired(account)) /\ DOMAIN rs = {1, 2} /\ rs[1] = c /\ rs[2] = NextRead
    BY <1>3, <1>4
  <1> HIDE DEF rs
  <1>7. net = "up" => Sent(rs)
    <2>1. net = "up" => fd["ctrl"] = srvFnum["ctrl"]
      BY <1>2 DEF NumberInv, NoneUnderway
    <2>2. net = "up" => Proper(c)
      BY <1>1, <1>2, <1>4, <2>1 DEF Proper, Is
    <2>3. net = "up" => \A j \in DOMAIN rs : Proper(rs[j])
      BY <1>3, <1>6, <2>2
    <2>4. \A i, j \in DOMAIN rs : rs[i].op \in {"open", "close"} /\ rs[j].op \in {"open", "close"} => i = j
      BY <1>3, <1>4, <1>6
    <2> QED BY <2>3, <2>4, ProperSent
  <1>8. Awaited(rs) /\ OnceOf(rs, "close", "ctrl")
    BY <1>3, <1>4, <1>6 DEF Awaited, OnceOf, Is, Std
  <1>9. IoKept
    BY <1>1, <1>2, <1>3 DEF IoKept, StdQuiet, Std, NumberInv
  <1>10. FilesMoved /\ (StdQuiet => StdTold \/ Untouched)
    BY <1>1, <1>2, <1>9, FilesKept
  <1>11. PlaceMoved
    BY <1>1, <1>2 DEF PlaceMoved
  <1>12. Asks(rest, rs) /\ NoneOf(rest, "close", "ctrl")
    BY <1>1, <1>2, <1>5, SendAsks DEF Less
  <1>13. Moved
    BY <1>1, <1>2, <1>5, <1>8, <1>10, <1>11, <1>12, MovedWith
  <1> QED BY <1>1, <1>6, <1>7, <1>13, SendsAll, MovesOnce

LEMMA MessageMoves ==
  ASSUME SessTypeOK, OnceInv, Stored, UNCHANGED Remote, CtrlMessage
  PROVE  \E rs : Move(rs)
  <1>1. CASE OnStdIoErr
    BY <1>1, StdIoMoves
  <1>2. CASE OnReturnCode
    BY <1>2, NextMoves DEF OnReturnCode
  <1>3. CASE OnVersion
    BY <1>3, VersionMoves
  <1>4. CASE OnBadVersion
    BY <1>4, CloseMoves, BadVersionGetting DEF OnBadVersion, OnceInv
  <1>5. CASE OnServiceError
    <2>1. CASE state = "GETTING_VERSION"
      BY <1>5, <2>1, CloseMoves DEF OnServiceError
    <2>2. CASE state # "GETTING_VERSION"
      BY <1>5, <2>2, NextMoves DEF OnServiceError, userVars
    <2> QED BY <2>1, <2>2
  <1>6. CASE OnUnknown
    BY <1>6, NextMoves DEF OnUnknown, userVars
  <1> QED BY <1>1, <1>2, <1>3, <1>4, <1>5, <1>6 DEF CtrlMessage

\* The control pipe is open: the version is asked for.
LEMMA CtrlOpenedMoves ==
  ASSUME SessTypeOK, Stored, UNCHANGED Remote, CtrlOpened
  PROVE  \E rs : Move(rs)
  <1> DEFINE f == Reply.fnum
             w == async_write("ctrl", f, GetVersion)
             r == async_read("ctrl", f)
             rs == <<w, r>>
  <1>1. /\ Receive("open", TRUE) /\ Reply.pipe = "ctrl" /\ SendOn(net, Rest(Reply), rs)
        /\ ReadIssued("ctrl", f) /\ WriteIssued("ctrl", f) /\ fd' = [fd EXCEPT !["ctrl"] = f]
        /\ state' = "GETTING_VERSION" /\ UNCHANGED <<mode, net, stdinEv>> /\ Reply.status = "ok"
    BY DEF CtrlOpened, Receive, Send, userVars
  <1>2. /\ ClientTypeOK /\ NumberInv /\ RoundInv /\ StdInv /\ "ctrl" \in Pipe /\ Std \subseteq Pipe
        /\ fd \in [Pipe -> Nat] /\ "in" \in Std /\ \A p \in Std : p # "ctrl"
    BY DEF SessTypeOK, ClientTypeOK, Stored, Pipe, Std
  <1>3. /\ Taken /\ f \in Nat /\ Reply = toCli[1] /\ 1 \in DOMAIN toCli /\ Reply.op = "open"
        /\ Fewer(Rest(Reply), Reply) /\ ~NoneUnderway("open", "ctrl")
        /\ \A o, p : Popped(o, p) <=> o = "open" /\ p = "ctrl"
    BY <1>1, <1>2, Received
  <1>4. state = "OPENING" /\ f = srvFnum["ctrl"] /\ NoneOf(pending, "close", "ctrl")
    <2>1. state = "OPENING"
      BY <1>2, <1>3 DEF RoundInv
    <2>2. f = srvFnum["ctrl"]
      BY <1>1, <1>2, <1>3 DEF NumberInv
    <2> QED BY <1>2, <2>1, <2>2 DEF RoundInv
  <1>5. f <= srvFnum["ctrl"]
    BY <1>3, <1>4
  <1> HIDE DEF f
  <1>6. /\ r \in Wired(account) /\ r.op = "read" /\ r.pipe = "ctrl"
        /\ r.fnum = io_read'["ctrl"] /\ io_read'["ctrl"] <= srvFnum["ctrl"]
        /\ \A o \in Pipe : /\ io_read'[o] <= srvFnum[o]
                           /\ io_read'[o] = 0 => io_read[o] = 0
                           /\ o # "ctrl" => io_read'[o] = io_read[o]
    BY <1>1, <1>2, <1>3, <1>5, ReadKept
  <1>7. /\ w.op = "write" /\ w.pipe = "ctrl" /\ w.fnum = io_write'["ctrl"] /\ io_write'["ctrl"] <= srvFnum["ctrl"]
        /\ \A o \in Pipe : /\ io_write'[o] <= srvFnum[o]
                           /\ io_write'[o] = 0 => io_write[o] = 0
                           /\ o # "ctrl" => io_write'[o] = io_write[o]
    BY <1>1, <1>2, <1>3, <1>5, WriteKept
  <1>8. w \in Wired(account)
    BY <1>2, <1>3, OwnRequestType
  <1> HIDE DEF w, r
  <1>9. rs \in Seq(Wired(account)) /\ DOMAIN rs = {1, 2} /\ rs[1] = w /\ rs[2] = r
    BY <1>6, <1>8
  <1> HIDE DEF rs
  <1>10. Sent(rs)
    <2>1. Proper(w) /\ Proper(r)
      BY <1>2, <1>6, <1>7 DEF Proper, Is
    <2>2. \A j \in DOMAIN rs : Proper(rs[j]) /\ rs[j].op \notin {"open", "close"}
      BY <1>6, <1>7, <1>9, <2>1
    <2> QED BY <2>2, ProperSent
  <1>11. Awaited(rs) /\ NoneOf(rs, "close", "ctrl")
    BY <1>2, <1>6, <1>7, <1>9 DEF Awaited, NoneOf, Is
  <1>12. fd'["ctrl"] = srvFnum["ctrl"] /\ \A p \in Std : fd'[p] = fd[p]
    BY <1>1, <1>2, <1>4
  <1>13. FilesMoved
    <2>1. \A p \in Pipe : p = "ctrl" \/ p \in Std
      BY DEF Pipe, Std
    <2>2. \A p \in Pipe : fd'[p] \in {fd[p], srvFnum[p]} /\ (Popped("open", p) => fd'[p] = srvFnum[p])
      BY <1>3, <1>12, <2>1
    <2>3. stdinEv' # "none" => fd'["in"] # 0
      BY <1>1, <1>2, <1>12 DEF StdInv
    <2> QED BY <1>6, <1>7, <1>12, <2>2, <2>3 DEF FilesMoved
  <1>14. PlaceMoved
    BY <1>1, <1>3, <1>4 DEF PlaceMoved
  <1>15. StdQuiet => Untouched
    BY <1>1, <1>2, <1>6, <1>7, <1>12 DEF StdQuiet, Untouched
  <1>16. Less(Rest(Reply)) /\ Replaces(Rest(Reply)) /\ NoneOf(Rest(Reply), "close", "ctrl")
    BY <1>3, <1>4, <1>1 DEF Fewer, Less, Replaces, Is
  <1>17. WireMoved /\ Asks(Rest(Reply), rs)
    BY <1>1, <1>2, <1>3, WireMoves, SendAsks
  <1>18. Moved
    BY <1>2, <1>11, <1>13, <1>14, <1>15, <1>16, <1>17, MovedWith
  <1> QED BY <1>1, <1>9, <1>10, <1>18, SendsAll, MovesOnce

\* A standard pipe is open: it is read.
LEMMA StdOpenedMoves ==
  ASSUME SessTypeOK, Stored, UNCHANGED Remote, StdOpened
  PROVE  \E rs : Move(rs)
  <1> DEFINE f == Reply.fnum
             p == Reply.pipe
             r == async_read(p, f)
  <1>1. /\ Receive("open", TRUE) /\ p # "ctrl" /\ SendOn(net, Rest(Reply), <<r>>)
        /\ ReadIssued(p, f) /\ fd' = [fd EXCEPT ![p] = f] /\ Reply.status = "ok"
        /\ (p # "in" => stdinEv' = stdinEv) /\ UNCHANGED <<state, mode, net, io_write>>
    BY DEF StdOpened, Receive, Send, stateVars
  <1>2. /\ ClientTypeOK /\ NumberInv /\ RoundInv /\ StdInv /\ Std \subseteq Pipe
        /\ fd \in [Pipe -> Nat] /\ "in" \in Pipe
    BY DEF SessTypeOK, ClientTypeOK, Stored, Pipe, Std
  <1>3. /\ Taken /\ f \in Nat /\ Reply = toCli[1] /\ 1 \in DOMAIN toCli /\ Reply.op = "open" /\ p \in Pipe
        /\ Fewer(Rest(Reply), Reply) /\ \A o, q : Popped(o, q) <=> o = "open" /\ q = p
    BY <1>1, <1>2, Received
  <1>4. f = srvFnum[p] /\ f > 0 /\ ~StdQuiet
    BY <1>1, <1>2, <1>3 DEF NumberInv, StdQuiet
  <1>5. f <= srvFnum[p] /\ f # 0
    BY <1>3, <1>4
  <1>6. fd'[p] = srvFnum[p] /\ fd'[p] # 0 /\ \A q \in Pipe : q # p => fd'[q] = fd[q]
    BY <1>1, <1>2, <1>3, <1>4, <1>5
  <1>7. stdinEv' # "none" => fd'["in"] # 0
    <2>1. stdinEv # "none" => fd["in"] # 0
      BY <1>2 DEF StdInv
    <2> QED BY <1>1, <1>2, <1>6, <2>1
  <1> HIDE DEF f, p
  <1>8. /\ r \in Wired(account) /\ r.op = "read" /\ r.pipe = p
        /\ r.fnum = io_read'[p] /\ io_read'[p] <= srvFnum[p]
        /\ \A o \in Pipe : /\ io_read'[o] <= srvFnum[o]
                           /\ io_read'[o] = 0 => io_read[o] = 0
                           /\ o # p => io_read'[o] = io_read[o]
    BY <1>1, <1>2, <1>3, <1>5, ReadKept
  <1> HIDE DEF r
  <1>9. Proper(r)
    BY <1>4, <1>8 DEF Proper, Is
  <1>10. <<r>> \in Seq(Wired(account)) /\ DOMAIN <<r>> = {1} /\ <<r>>[1] = r
    BY <1>8
  <1>11. Awaited(<<r>>) /\ NoneOf(<<r>>, "close", "ctrl")
    BY <1>4, <1>6, <1>8, <1>10 DEF Awaited, NoneOf, Is
  <1>12. FilesMoved
    <2>1. \A q \in Pipe : fd'[q] \in {fd[q], srvFnum[q]} /\ (Popped("open", q) => fd'[q] = srvFnum[q])
      BY <1>3, <1>6
    <2>2. \A q \in Std : fd'[q] # 0 => fd[q] # 0 \/ Popped("open", q)
      BY <1>2, <1>3, <1>6
    <2>3. \A q \in Pipe : io_write'[q] = io_write[q] /\ io_write[q] <= srvFnum[q]
      BY <1>1, <1>2 DEF NumberInv
    <2> QED BY <1>7, <1>8, <2>1, <2>2, <2>3 DEF FilesMoved
  <1>13. PlaceMoved
    BY <1>1, <1>2 DEF PlaceMoved, RoundInv
  <1>14. Less(Rest(Reply)) /\ Replaces(Rest(Reply))
    BY <1>3 DEF Fewer, Replaces, Is, p
  <1>15. \/ NoneOf(Rest(Reply), "close", "ctrl")
         \/ state' = "CLOSING_FOR_REINSTALL" /\ mode' = "loop" /\ OnceOf(Rest(Reply), "close", "ctrl")
    BY <1>1, <1>2, <1>14 DEF RoundInv, Less
  <1>16. WireMoved /\ Asks(Rest(Reply), <<r>>)
    BY <1>1, <1>2, <1>3, WireMoves, SendAsks
  <1>17. Moved
    BY <1>2, <1>4, <1>11, <1>12, <1>13, <1>14, <1>15, <1>16, MovedWith
  <1> QED BY <1>1, <1>8, <1>9, <1>17, SendsOne, MovesOnce

\* A close is answered, or will not be.
LEMMA CloseDoneMoves ==
  ASSUME SessTypeOK, Stored, WireMoved, NEW p \in Pipe, NEW r, Is(r, "close", p), NEW rest, Fewer(rest, r),
         CloseDone(p, rest), mode = "loop", Popped("close", p) \/ net' = "dead",
         \A q \in Pipe : ~Popped("open", q),
         p = "ctrl" => state = "CLOSING_FOR_REINSTALL"
  PROVE  \E rs : Move(rs)
  <1>1. /\ NumberInv /\ RoundInv /\ StdInv /\ pending' = rest
        /\ io_read'  = [io_read  EXCEPT ![p] = 0] /\ io_write' = [io_write EXCEPT ![p] = 0]
        /\ mode' = IF p = "ctrl" /\ state = "CLOSING_FOR_REINSTALL" THEN "reinstall" ELSE mode
        /\ UNCHANGED <<state, fd, stdinEv, toSrv>>
        /\ io_read \in [Pipe -> Nat] /\ io_write \in [Pipe -> Nat] /\ Std \subseteq Pipe
    BY DEF CloseDone, Stored, userVars, SessTypeOK, ClientTypeOK, Std, Pipe
  <1>2. \A q \in Pipe : io_read'[q] = (IF q = p THEN 0 ELSE io_read[q])
                        /\ io_write'[q] = (IF q = p THEN 0 ELSE io_write[q])
    BY <1>1
  <1>3. IoKept
    <2>1. \A q \in Pipe : srvFnum[q] \in Nat /\ io_read[q] <= srvFnum[q] /\ io_write[q] <= srvFnum[q]
      BY <1>1 DEF NumberInv, SessTypeOK, ServerTypeOK
    <2>2. \A q \in Pipe : io_read'[q] <= srvFnum[q] /\ io_write'[q] <= srvFnum[q]
      BY <1>2, <2>1
    <2>3. StdQuiet => \A q \in Std : io_read'[q] = 0 /\ io_write'[q] = 0
      BY <1>1, <1>2 DEF StdQuiet
    <2> QED BY <1>2, <2>2, <2>3 DEF IoKept
  <1>4. Less(rest) /\ Replaces(rest)
    BY DEF Fewer, Replaces, Is
  <1>5. Awaited(<<>>) /\ NoneOf(<<>>, "close", "ctrl") /\ Asks(rest, <<>>)
    BY <1>1 DEF Awaited, NoneOf, Asks
  <1>6. Sends
    BY <1>1, SendsNothing
  <1>7. CASE p # "ctrl"
    <2>1. mode' = mode
      BY <1>1, <1>7
    <2>2. Moved
      BY <1>1, <1>3, <1>4, <1>5, <2>1, StaysMoved
    <2> QED BY <1>6, <2>2, MovesOnce
  <1>8. CASE p = "ctrl"
    <2>1. FilesMoved /\ (StdQuiet => StdTold \/ Untouched)
      BY <1>1, <1>3, FilesKept
    <2>2. PlaceMoved
      BY <1>1, <1>8 DEF PlaceMoved, RoundInv
    <2>3. NoneOf(rest, "close", "ctrl")
      BY <1>1, <1>8 DEF Fewer, RoundInv
    <2>4. Moved
      BY <1>1, <1>4, <1>5, <2>1, <2>2, <2>3, MovedWith
    <2> QED BY <1>6, <2>4, MovesOnce
  <1> QED BY <1>7, <1>8

LEMMA ClosedMoves ==
  ASSUME SessTypeOK, Stored, UNCHANGED Remote, Closed
  PROVE  \E rs : Move(rs)
  <1>1. PICK ok \in BOOLEAN : Receive("close", ok)
    BY DEF Closed
  <1>2. CloseDone(Reply.pipe, Rest(Reply)) /\ UNCHANGED net
    BY DEF Closed
  <1>3. /\ Taken /\ mode = "loop" /\ Reply.op = "close" /\ Reply.pipe \in Pipe
        /\ Reply = toCli[1] /\ 1 \in DOMAIN toCli
        /\ Fewer(Rest(Reply), Reply) /\ \A o, q : Popped(o, q) <=> o = "close" /\ q = Reply.pipe
    BY <1>1, Received DEF SessTypeOK
  <1>4. Reply.pipe = "ctrl" => state = "CLOSING_FOR_REINSTALL"
    BY <1>3 DEF Stored, RoundInv, NoneOf, Is
  <1>5. WireMoved
    BY <1>2, <1>3, WireMoves DEF Stored
  <1>6. Is(Reply, "close", Reply.pipe)
    BY <1>3 DEF Is
  <1> QED BY <1>2, <1>3, <1>4, <1>5, <1>6, CloseDoneMoves

\* A request has failed, and the client stays: r is the request or the reply
\* that says so, rest what is pending otherwise.
LEMMA FailMoves ==
  ASSUME SessTypeOK, Stored, WireMoved, NEW op, NEW p \in Pipe, NEW r, Is(r, op, p), NEW rest, Fewer(rest, r),
         NEW status, NEW link, Fail(link, op, p, status, rest), mode = "loop", Staying',
         link = "up" => Popped(op, p) /\ net = "up", Popped(op, p) \/ net' = "dead" \/ op = "read",
         \A o, q : Popped(o, q) => o = op /\ q = p /\ Reply.status # "ok",
         status = "notfound" => op = "open" /\ Popped(op, p),
         p \in Std => /\ ~StdQuiet /\ (Popped(op, p) \/ net' = "dead")
                      /\ op \in {"read", "write"} => fd[p] # 0
  PROVE  \E rs : Move(rs)
  <1>1. /\ ClientTypeOK /\ NumberInv /\ RoundInv /\ StdInv /\ Std \subseteq Pipe
        /\ op \in {"open", "read", "write"} /\ UNCHANGED <<state, fd, io_read, stdinEv>>
        /\ io_write' = IF op = "write" THEN [io_write EXCEPT ![p] = 0] ELSE io_write
        /\ io_write \in [Pipe -> Nat] /\ rest \in Seq(Waiting) /\ toCli \in Seq(Replied)
    BY DEF Fail, Stored, userVars, SessTypeOK, ClientTypeOK, Std, Pipe, Fewer, Less
  <1>2. \A q \in Pipe : io_read[q] <= srvFnum[q] /\ io_write[q] <= srvFnum[q] /\ 0 <= srvFnum[q]
    BY <1>1 DEF NumberInv, SessTypeOK, ServerTypeOK
  <1>3. CASE p = "ctrl"
    <2>1. OnCtrlError(op, status, rest)
      BY <1>3 DEF Fail
    <2>2. /\ pending' = rest /\ toSrv' = toSrv
          /\ \/ mode' = "install" /\ status = "notfound"
             \/ mode' = mode /\ op = "read"
      BY <2>1 DEF OnCtrlError, exit_program, Staying
    <2>3. op # "write" /\ io_write' = io_write
      BY <1>1, <2>2
    <2>4. Less(pending')
      BY <2>2 DEF Fewer
    <2>5. CASE mode' = mode /\ op = "read"
      <3>1. Replaces(pending')
        BY <2>2, <2>5 DEF Fewer, Replaces, Is
      <3>2. \A q \in Pipe : Popped("open", q) => Reply.status # "ok"
        OBVIOUS
      <3> QED BY <1>1, <2>2, <2>3, <2>4, <2>5, <3>1, <3>2, ForgetMoves
    <2>6. CASE mode' = "install" /\ status = "notfound"
      <3>1. op = "open" /\ Popped("open", "ctrl")
        BY <1>3, <2>6
      <3>2. ~NoneUnderway("open", "ctrl")
        <4>1. toCli # <<>> /\ toCli' = Tail(toCli) /\ Is(Reply, "open", "ctrl")
          BY <3>1 DEF Popped
        <4>2. Reply = toCli[1] /\ 1 \in DOMAIN toCli
          BY <1>1, <4>1, FetchedTail
        <4> QED BY <4>1, <4>2 DEF NoneUnderway, NoneOf
      <3>3. state = "OPENING" /\ NoneOf(pending, "close", "ctrl")
        BY <1>1, <3>2 DEF RoundInv
      <3>4. Awaited(<<>>) /\ NoneOf(<<>>, "close", "ctrl") /\ Asks(rest, <<>>)
        BY <2>2 DEF Awaited, NoneOf, Asks
      <3>5. Replaces(rest)
        BY <1>3, <3>1 DEF Fewer, Replaces, Is
      <3>6. IoKept
        BY <1>1, <1>2, <2>3 DEF IoKept, StdQuiet
      <3>7. FilesMoved /\ (StdQuiet => StdTold \/ Untouched)
        BY <1>1, <3>6, FilesKept
      <3>8. PlaceMoved
        BY <1>1, <3>1, <3>3 DEF PlaceMoved
      <3>9. NoneOf(rest, "close", "ctrl") /\ Less(rest)
        BY <3>3 DEF Fewer, Less
      <3>10. Moved
        BY <1>1, <3>4, <3>5, <3>7, <3>8, <3>9, MovedWith
      <3> QED BY <2>2, <3>10, SendsNothing, MovesOnce
    <2> QED BY <2>2, <2>5, <2>6
  <1>4. CASE p # "ctrl"
    <2> DEFINE c == async_close(p)
               kept == Undestroyed(p, rest)
    <2>1. /\ SendOn(link, kept, <<c>>) /\ mode' = mode /\ p \in Std
      BY <1>4 DEF Fail, OnStdError, Std, Pipe
    <2>2. c \in Wired(account) /\ c.op = "close" /\ c.pipe = p /\ c.fnum = fd[p]
      <3>1. fd[p] \in Nat
        BY <1>1 DEF ClientTypeOK
      <3> QED BY <1>1, <3>1, OwnRequestType DEF async_close, Request
    <2>3. kept \in Seq(Waiting) /\ Less(kept)
      <3>1. kept \in Seq(Waiting)
        BY <1>1, UndestroyedType
      <3> QED BY <1>1, <3>1, UndestroyedOf DEF Fewer, Less
    <2>4. op \in {"read", "write"} => NoneUnderway("open", p)
      BY <2>1 DEF Stored, StdInv
    <2>5. Replaces(kept)
      <3> SUFFICES ASSUME NEW q \in Pipe, NoneOf(kept, "open", q)
                   PROVE  NoneOf(pending, "open", q) \/ NoneUnderway("open", q) \/ Popped("open", q) \/ net' = "dead"
        BY DEF Replaces
      <3>1. CASE q = p
        BY <1>1, <2>1, <2>4, <3>1
      <3>2. CASE q # p
        <4>1. NoneOf(rest, "open", q)
          BY <1>1, <3>2, UndestroyedOf
        <4> QED BY <3>2, <4>1 DEF Fewer, Is
      <3> QED BY <3>1, <3>2
    <2> HIDE DEF c, kept
    <2>6. link = "up" => Proper(c)
      <3> SUFFICES ASSUME link = "up"
                   PROVE  Proper(c)
        OBVIOUS
      <3>1. Popped(op, p) /\ net = "up" /\ Reply.status # "ok"
        OBVIOUS
      <3>2. toCli # <<>> /\ Is(Reply, op, p) /\ Reply = toCli[1] /\ 1 \in DOMAIN toCli
        BY <1>1, <3>1, FetchedTail DEF Popped
      <3>3. fd[p] = srvFnum[p] /\ (NoneUnderway("open", p) \/ Popped("open", p))
        <4>1. CASE op = "open"
          BY <1>1, <3>1, <3>2, <4>1 DEF NumberInv, Is
        <4>2. CASE op # "open"
          BY <1>1, <2>4, <3>1, <4>2 DEF NumberInv, NoneUnderway
        <4> QED BY <4>1, <4>2
      <3>4. fd[p] <= srvFnum[p]
        BY <1>1 DEF NumberInv
      <3> QED BY <1>4, <2>1, <2>2, <3>3, <3>4 DEF Proper, Is
    <2>7. <<c>> \in Seq(Wired(account)) /\ DOMAIN <<c>> = {1} /\ <<c>>[1] = c
      BY <2>2
    <2>8. Awaited(<<c>>) /\ NoneOf(<<c>>, "close", "ctrl")
      BY <1>4, <2>1, <2>2, <2>7 DEF Awaited, NoneOf, Is
    <2>9. IoKept
      <3>1. \A q \in Pipe : io_write'[q] = IF op = "write" /\ q = p THEN 0 ELSE io_write[q]
        BY <1>1
      <3>2. \A q \in Pipe : io_write'[q] <= srvFnum[q]
        BY <1>2, <3>1
      <3>3. ASSUME NEW q \in Pipe, io_write'[q] = 0
            PROVE  \/ io_write[q] = 0 \/ net' = "dead"
                   \/ q \in Std /\ Popped("write", q) /\ Reply.status # "ok"
        BY <2>1, <3>1, <3>3
      <3> QED BY <1>1, <1>2, <2>1, <3>2, <3>3 DEF IoKept
    <2>10. Asks(kept, <<c>>)
      BY <2>1, SendAsks
    <2>11. Moved
      BY <1>1, <2>1, <2>3, <2>5, <2>8, <2>9, <2>10, StaysMoved
    <2> QED BY <2>1, <2>2, <2>6, <2>11, SendsOne, MovesOnce
  <1> QED BY <1>3, <1>4

LEMMA ErrorMoves ==
  ASSUME SessTypeOK, Stored, UNCHANGED Remote, ErrorReply, Staying'
  PROVE  \E rs : Move(rs)
  <1>1. PICK op \in {"open", "read", "write"} : Receive(op, FALSE)
    BY DEF ErrorReply
  <1>2. Fail(net, op, Reply.pipe, Reply.status, Rest(Reply)) /\ UNCHANGED net
    BY <1>1 DEF ErrorReply, Receive
  <1>3. /\ Taken /\ mode = "loop" /\ Reply.op = op /\ Reply.pipe \in Pipe /\ Reply \in Replied
        /\ Reply = toCli[1] /\ 1 \in DOMAIN toCli /\ ~NoneOf(pending, op, Reply.pipe)
        /\ Fewer(Rest(Reply), Reply) /\ \A o, q : Popped(o, q) <=> o = op /\ q = Reply.pipe
    BY <1>1, Received DEF SessTypeOK
  <1>4. Reply.status # "ok" /\ (Reply.status = "notfound" => op = "open")
    BY <1>1, <1>3 DEF Receive, Replied
  <1>5. Is(Reply, op, Reply.pipe)
    BY <1>3 DEF Is
  <1>6. Reply.pipe \in Std => ~StdQuiet /\ (op \in {"read", "write"} => fd[Reply.pipe] # 0)
    BY <1>3 DEF StdQuiet, Std, Stored, StdInv
  <1>7. WireMoved
    BY <1>2, <1>3, WireMoves DEF Stored
  <1> QED BY <1>2, <1>3, <1>4, <1>5, <1>6, <1>7, FailMoves

LEMMA TimeoutMoves ==
  ASSUME SessTypeOK, TimedInv, Stored, UNCHANGED Remote, RequestTimeout, Staying'
  PROVE  \E rs : Move(rs)
  <1>1. PICK i \in DOMAIN pending :
           pending[i].timed /\ Fail(net, pending[i].op, pending[i].pipe, "timeout", RemoveAt(pending, i))
    BY DEF RequestTimeout
  <1>2. /\ ClientTypeOK /\ pending[i] \in Waiting /\ pending[i].pipe \in Pipe
        /\ UNCHANGED <<net, toCli>> /\ mode = "loop"
    <2>1. ClientTypeOK /\ pending \in Seq(Waiting) /\ UNCHANGED <<net, toCli>> /\ mode = "loop"
      BY DEF SessTypeOK, ClientTypeOK, RequestTimeout
    <2>2. pending[i] \in Waiting
      BY <2>1
    <2> QED BY <2>1, <2>2 DEF Waiting
  <1>3. Fewer(RemoveAt(pending, i), pending[i]) /\ Is(pending[i], pending[i].op, pending[i].pipe)
    BY <1>2, RemovedFewer DEF Is
  <1>4. \A op, p : ~Popped(op, p)
    BY <1>2, NotPopped
  <1>5. WireMoved
    BY <1>2, WireMoves DEF Stored, Taken
  <1>6. pending[i].pipe \notin Std
    <2>1. ASSUME pending[i].pipe \in Std
          PROVE  FALSE
      <3>1. ~StdQuiet
        BY <2>1 DEF StdQuiet, Std
      <3>2. state = "RUNNING"
        BY <3>1 DEF Stored, TellInv
      <3> QED BY <1>1, <3>2 DEF TimedInv, Timed, FirstOpen
    <2> QED BY <2>1
  <1>7. pending[i].op = "read"
    <2>1. OnCtrlError(pending[i].op, "timeout", RemoveAt(pending, i))
      BY <1>1, <1>2, <1>6 DEF Fail, Pipe, Std
    <2> QED BY <2>1 DEF OnCtrlError, exit_program, Staying
  <1> DEFINE rest == RemoveAt(pending, i)
  <1> HIDE DEF rest
  <1>8. Fewer(rest, pending[i]) /\ Fail(net, "read", pending[i].pipe, "timeout", rest)
    BY <1>1, <1>3, <1>7 DEF rest
  <1>9. CASE net # "up"
    BY <1>2, <1>3, <1>4, <1>5, <1>6, <1>7, <1>8, <1>9, FailMoves
  <1>10. CASE net = "up"
    <2>1. Fail("down", "read", pending[i].pipe, "timeout", rest)
      <3>1. pending[i].pipe = "ctrl"
        BY <1>2, <1>6 DEF Pipe, Std
      <3> QED BY <1>8, <3>1 DEF Fail
    <2> QED BY <1>2, <1>3, <1>4, <1>5, <1>6, <1>7, <1>8, <2>1, FailMoves
  <1> QED BY <1>9, <1>10

LEMMA DeadMoves ==
  ASSUME SessTypeOK, Stored, UNCHANGED Remote, TransportDead, Staying'
  PROVE  \E rs : Move(rs)
  <1>1. /\ ClientTypeOK /\ pending \in Seq(Waiting) /\ RoundInv /\ NumberInv /\ StdInv
        /\ mode = "loop" /\ net' = "dead" /\ toCli = <<>> /\ toCli' = toCli
    BY DEF SessTypeOK, ClientTypeOK, Stored, TransportDead
  <1>2. WireMoved
    BY <1>1, WireMoves DEF Taken
  <1>3. \A op, p : ~Popped(op, p)
    BY <1>1, NotPopped
  <1>4. CASE pending = <<>>
    <2>1. UNCHANGED <<state, mode, fd, io_read, io_write, stdinEv, toSrv, pending>>
      BY <1>4 DEF TransportDead, stateVars, ioVars, reqVars, userVars
    <2>2. Less(pending') /\ Replaces(pending')
      BY <1>1, <2>1 DEF Less, Replaces
    <2> QED BY <1>1, <1>2, <1>3, <2>1, <2>2, ForgetMoves
  <1>5. CASE pending # <<>>
    <2> DEFINE q == Last(pending)
               rest == Front(pending)
    <2>1. /\ Fewer(rest, q) /\ q \in Waiting /\ q.pipe \in Pipe
          /\ Len(pending) \in DOMAIN pending /\ q = pending[Len(pending)]
      BY <1>1, <1>5, FrontFewer DEF Waiting
    <2>2. IF q.op = "close" THEN CloseDone(q.pipe, rest) ELSE Fail("dead", q.op, q.pipe, "network", rest)
      BY <1>5 DEF TransportDead
    <2> HIDE DEF q, rest
    <2>3. Is(q, q.op, q.pipe)
      BY DEF Is
    <2>4. CASE q.op = "close"
      <3>1. q.pipe = "ctrl" => state = "CLOSING_FOR_REINSTALL"
        BY <1>1, <2>1, <2>3, <2>4 DEF RoundInv, NoneOf
      <3> QED BY <1>1, <1>2, <1>3, <2>1, <2>2, <2>3, <2>4, <3>1, CloseDoneMoves
    <2>5. CASE q.op # "close"
      <3>1. q.pipe \in Std => ~StdQuiet /\ (q.op \in {"read", "write"} => fd[q.pipe] # 0)
        BY <1>1, <2>1, <2>3 DEF StdQuiet, StdInv, NoneOf, Std
      <3>2. Fail("dead", q.op, q.pipe, "network", rest)
        BY <2>2, <2>5
      <3> QED BY <1>1, <1>2, <1>3, <2>1, <2>3, <3>1, <3>2, FailMoves
    <2> QED BY <2>4, <2>5
  <1> QED BY <1>4, <1>5

\* A write that no reply has called for.
LEMMA WriteMoves ==
  ASSUME SessTypeOK, Stored, UNCHANGED Remote, NEW p \in Pipe, NEW items,
         async_write(p, fd[p], items) \in Wired(account),
         WriteIssued(p, fd[p]), Send(pending, <<async_write(p, fd[p], items)>>),
         UNCHANGED <<net, toCli, state, mode, fd, io_read, stdinEv>>,
         p \in Std => stdinEv # "none" /\ fd[p] # 0
  PROVE  \E rs : Move(rs)
  <1> DEFINE w == async_write(p, fd[p], items)
  <1>1. /\ ClientTypeOK /\ NumberInv /\ RoundInv /\ StdInv /\ Std \subseteq Pipe
        /\ fd[p] \in Nat /\ fd[p] <= srvFnum[p] /\ pending \in Seq(Waiting)
    BY DEF SessTypeOK, ClientTypeOK, Stored, NumberInv, Std, Pipe
  <1>2. /\ w.op = "write" /\ w.pipe = p /\ w.fnum = io_write'[p] /\ io_write'[p] <= srvFnum[p]
        /\ io_write'[p] = IF io_write[p] # 0 THEN io_write[p] ELSE fd[p]
        /\ \A o \in Pipe : /\ io_write'[o] <= srvFnum[o]
                           /\ io_write'[o] = 0 => io_write[o] = 0
                           /\ o # p => io_write'[o] = io_write[o]
    BY <1>1, WriteKept
  <1>3. \A op, q : ~Popped(op, q)
    BY <1>1, NotPopped
  <1>4. p \in Std => ~StdQuiet
    BY DEF StdQuiet
  <1>5. p \in Std => w.fnum = srvFnum[p]
    <2>1. p \in Std => srvFnum[p] <= 1
      BY <1>1 DEF StdInv
    <2>2. srvFnum[p] \in Nat /\ io_write[p] \in Nat /\ io_write[p] <= srvFnum[p]
      BY <1>1 DEF SessTypeOK, ClientTypeOK, ServerTypeOK, NumberInv
    <2>3. w.fnum = IF io_write[p] # 0 THEN io_write[p] ELSE fd[p]
      BY <1>2
    <2> HIDE DEF w
    <2> QED BY <1>1, <2>1, <2>2, <2>3
  <1>6. w \in Wired(account) /\ SendOn(net, pending, <<w>>)
    BY DEF Send
  <1> HIDE DEF w
  <1>7. p = "ctrl" \/ p \in Std
    BY DEF Pipe, Std
  <1>8. Proper(w)
    BY <1>2, <1>4, <1>5, <1>7 DEF Proper, Is
  <1>9. <<w>> \in Seq(Wired(account)) /\ DOMAIN <<w>> = {1} /\ <<w>>[1] = w
    BY <1>6
  <1>10. Awaited(<<w>>) /\ NoneOf(<<w>>, "close", "ctrl")
    BY <1>2, <1>4, <1>7, <1>9 DEF Awaited, NoneOf, Is
  <1>11. IoKept
    <2>1. StdQuiet => \A q \in Std : io_read'[q] = 0 /\ io_write'[q] = 0
      BY <1>1, <1>2, <1>4, <1>7 DEF StdQuiet, Std
    <2> QED BY <1>1, <1>2, <2>1 DEF IoKept, NumberInv
  <1>12. Less(pending) /\ Replaces(pending) /\ Asks(pending, <<w>>)
    BY <1>1, <1>6, SendAsks DEF Less, Replaces
  <1>13. WireMoved
    BY <1>1, WireMoves DEF Taken
  <1>14. Moved
    BY <1>1, <1>3, <1>10, <1>11, <1>12, <1>13, StaysMoved
  <1> QED BY <1>6, <1>8, <1>14, SendsOne, MovesOnce

LEMMA StdinMoves ==
  ASSUME SessTypeOK, Stored, UNCHANGED Remote, StdinRead
  PROVE  \E rs : Move(rs)
  <1>1. /\ stdinEv # "none" /\ Send(pending, <<async_write("in", fd["in"], Input)>>) /\ WriteIssued("in", fd["in"])
        /\ UNCHANGED <<net, toCli, state, mode, fd, io_read, stdinEv>>
    BY DEF StdinRead, stateVars
  <1>2. "in" \in Pipe /\ fd["in"] # 0 /\ ClientTypeOK /\ fd["in"] \in Nat
    BY <1>1 DEF Pipe, Stored, StdInv, SessTypeOK, ClientTypeOK
  <1>3. async_write("in", fd["in"], Input) \in Wired(account)
    BY <1>2, OwnRequestType
  <1> QED BY <1>1, <1>2, <1>3, WriteMoves

LEMMA TimerMoves ==
  ASSUME SessTypeOK, Stored, UNCHANGED Remote, Timer
  PROVE  \E rs : Move(rs)
  <1>1. /\ Send(pending, <<async_write("ctrl", fd["ctrl"], Abort)>>) /\ WriteIssued("ctrl", fd["ctrl"])
        /\ UNCHANGED <<net, toCli, state, mode, fd, io_read, stdinEv>>
    BY DEF Timer, stateVars, userVars
  <1>2. "ctrl" \in Pipe /\ ClientTypeOK /\ fd["ctrl"] \in Nat /\ "ctrl" \notin Std
    BY DEF Pipe, Std, SessTypeOK, ClientTypeOK
  <1>3. async_write("ctrl", fd["ctrl"], Abort) \in Wired(account)
    BY <1>2, OwnRequestType
  <1> QED BY <1>1, <1>2, <1>3, WriteMoves

LEMMA SignalMoves ==
  ASSUME SessTypeOK, Stored, UNCHANGED Remote, NEW s, Signal(s), Staying'
  PROVE  \E rs : Move(rs)
  <1>1. /\ UNCHANGED <<net, toCli, state, fd, io_read, io_write, stdinEv, toSrv, pending>>
        /\ mode' = mode
    BY DEF Signal, Staying, ioVars, reqVars, userVars
  <1>2. \A p \in Pipe : ~Popped("open", p)
    BY <1>1, NotPopped DEF SessTypeOK
  <1> QED BY <1>1, <1>2, SameMoves DEF Taken

\* The control pipe is opened again, of the old service or of a new one.
LEMMA AgainMoves ==
  ASSUME SessTypeOK, Stored, UNCHANGED srvVars, (\E s, v : Restart(s, v)) \/ UNCHANGED connVars,
         Send(pending, <<async_open("ctrl")>>), mode \in {"install", "reinstall"}, mode' = "loop",
         state # "RUNNING", state' = "OPENING", UNCHANGED <<net, toCli, fd, io_read, io_write, stdinEv>>
  PROVE  \E rs : Move(rs)
  <1> DEFINE r == async_open("ctrl")
  <1>1. /\ ClientTypeOK /\ NumberInv /\ RoundInv /\ StdInv /\ "ctrl" \in Pipe /\ "ctrl" \notin Std
        /\ pending \in Seq(Waiting) /\ (inst' = inst \/ \E b : inst' = NewPipes(b))
    <2>1. inst' = inst \/ \E b : inst' = NewPipes(b)
      BY DEF Restart, connVars, pipeVars
    <2> QED BY <2>1 DEF SessTypeOK, ClientTypeOK, Stored, Std, Pipe
  <1>2. r \in Wired(account) /\ r.op = "open" /\ r.pipe = "ctrl" /\ r.fnum = 0 /\ SendOn(net, pending, <<r>>)
    BY <1>1, OwnRequestType DEF async_open, Request, Send
  <1> HIDE DEF r
  <1>3. <<r>> \in Seq(Wired(account)) /\ DOMAIN <<r>> = {1} /\ <<r>>[1] = r
    BY <1>2
  <1>4. Awaited(<<r>>) /\ NoneOf(<<r>>, "close", "ctrl") /\ ~NoneOf(<<r>>, "open", "ctrl")
    BY <1>2, <1>3 DEF Awaited, NoneOf, Is
  <1>5. /\ NoneUnderway("open", "ctrl") /\ NoneOf(pending, "close", "ctrl")
        /\ net = "up" => NoneUnderway("close", "ctrl")
    BY <1>1 DEF RoundInv, NoneUnderway
  <1>6. Asks(pending, <<r>>) /\ (net # "dead" => pending' = pending \o Added(<<r>>))
    BY <1>2, SendAsks
  <1>7. net = "up" => Proper(r)
    <2>1. net = "up" => ~NoneOf(pending', "open", "ctrl")
      BY <1>1, <1>3, <1>4, <1>6, AsksOf
    <2>2. 0 <= srvFnum["ctrl"]
      BY <1>1 DEF SessTypeOK, ServerTypeOK
    <2> QED BY <1>1, <1>2, <1>5, <2>1, <2>2 DEF Proper, Is
  <1>8. \A op, p : ~Popped(op, p)
    BY <1>1, NotPopped
  <1>9. WireMoved
    <2>1. \A p \in Pipe : inst'[p] = "conn" => inst[p] = "conn"
      BY <1>1 DEF NewPipes
    <2>2. s2c'["ctrl"] \in {s2c["ctrl"], <<>>}
      BY <1>1 DEF Restart, connVars, pipeVars
    <2>3. net = "dead" => toCli' = <<>>
      BY <1>1 DEF RoundInv
    <2> QED BY <2>1, <2>2, <2>3 DEF WireMoved, Taken
  <1>10. IoKept
    BY <1>1 DEF IoKept, NumberInv, StdQuiet
  <1>11. FilesMoved /\ (StdQuiet => StdTold \/ Untouched)
    BY <1>1, <1>8, <1>10, FilesKept
  <1>12. PlaceMoved
    BY DEF PlaceMoved
  <1>13. Less(pending) /\ Replaces(pending)
    BY <1>1 DEF Less, Replaces
  <1>14. Moved
    BY <1>1, <1>4, <1>5, <1>6, <1>9, <1>11, <1>12, <1>13, MovedWith
  <1> QED BY <1>2, <1>7, <1>14, SendsOne, MovesOnce

LEMMA InstallMoves ==
  ASSUME SessTypeOK, OnceInv, Stored, InstallStep, Staying'
  PROVE  \E rs : Move(rs)
  <1>1. UNCHANGED srvVars /\ ((\E s, v : Restart(s, v)) \/ UNCHANGED connVars)
    BY DEF InstallStep, InstallOk, InstallFails, ReinstallOk, ReinstallFails
  <1>2. Installed(TRUE) \/ Reinstalled
    <2>1. ~Installed(FALSE)
      BY DEF Installed, exit_program, Staying
    <2> QED BY <2>1 DEF InstallStep, InstallOk, InstallFails, ReinstallOk, ReinstallFails
  <1>3. /\ mode = "install" => state = "OPENING"
        /\ mode = "reinstall" => state = "CLOSING_FOR_REINSTALL"
    BY DEF OnceInv, OpenInv
  <1>4. /\ Send(pending, <<async_open("ctrl")>>) /\ mode \in {"install", "reinstall"} /\ mode' = "loop"
        /\ state # "RUNNING" /\ state' = "OPENING" /\ UNCHANGED <<net, toCli, fd, io_read, io_write, stdinEv>>
    BY <1>2, <1>3 DEF Installed, Reinstalled, ioVars, userVars
  <1> QED BY <1>1, <1>4, AgainMoves

\* Whatever the client does, unless it is about to exit.
LEMMA ClientMoves ==
  ASSUME SessTypeOK, OnceInv, TimedInv, Stored, Staying, Staying',
         \/ CompletionStep \/ TimeoutStep \/ DeadStep \/ StdinStep \/ TimerStep \/ SignalStep
         \/ InstallStep \/ ExitStep
  PROVE  \E rs : Move(rs)
  <1>1. CASE InstallStep
    BY <1>1, InstallMoves
  <1>2. CASE ExitStep
    BY <1>2 DEF ExitStep, Exit, Staying
  <1>3. CASE CompletionStep
    <2>1. UNCHANGED Remote
      BY <1>3 DEF CompletionStep
    <2>2. CASE DropReply
      BY <2>1, <2>2, DropMoves
    <2>3. CASE CtrlOpened
      BY <2>1, <2>3, CtrlOpenedMoves
    <2>4. CASE StdOpened
      BY <2>1, <2>4, StdOpenedMoves
    <2>5. CASE CtrlMessage
      BY <2>1, <2>5, MessageMoves
    <2>6. CASE OutputRead
      BY <2>1, <2>6, OutputMoves
    <2>7. CASE Written
      BY <2>1, <2>7, WrittenMoves
    <2>8. CASE Closed
      BY <2>1, <2>8, ClosedMoves
    <2>9. CASE ErrorReply
      BY <2>1, <2>9, ErrorMoves
    <2> QED BY <1>3, <2>2, <2>3, <2>4, <2>5, <2>6, <2>7, <2>8, <2>9 DEF CompletionStep, Completion, CtrlMessage
  <1>4. CASE TimeoutStep
    BY <1>4, TimeoutMoves DEF TimeoutStep
  <1>5. CASE DeadStep
    BY <1>5, DeadMoves DEF DeadStep
  <1>6. CASE StdinStep
    BY <1>6, StdinMoves DEF StdinStep
  <1>7. CASE TimerStep
    BY <1>7, TimerMoves DEF TimerStep
  <1>8. CASE SignalStep
    BY <1>8, SignalMoves DEF SignalStep
  <1> QED BY <1>1, <1>2, <1>3, <1>4, <1>5, <1>6, <1>7, <1>8

LEMMA MoveStored ==
  ASSUME SessTypeOK, SessTypeOK', Stored, NEW rs, Move(rs)
  PROVE  Stored'
  <1>1. NumberInv' /\ RoundInv' /\ CloseInv'
    BY MoveNumber, MoveRound, MoveClose DEF Stored
  <1>2. TellInv' /\ StdInv' /\ FreedInv'
    BY MoveTell, MoveStd, MoveFreed DEF Stored
  <1> QED BY <1>1, <1>2 DEF Stored

-----------------------------------------------------------------------------
\* The steps of the server.

\* The request this step takes off the wire.
Took(op, p) == toSrv # <<>> /\ toSrv' = Tail(toSrv) /\ Is(Query, op, p)

\* An answer that is due: to the request taken, or to a read that waits.
Due(r) ==
    LET p == r.pipe
        current == Query.fnum = srvFnum[p] IN
    /\ r.op # "read" => Took(r.op, p)
    /\ r.op = "read" => Took(r.op, p) \/ p \in srvOpen
    /\ r.op = "open" => IF r.status = "ok" THEN r.fnum = srvFnum'[p] /\ r.fnum > 0
                        ELSE srvFnum'[p] = srvFnum[p]
    /\ r.op = "close" /\ current => p \notin srvOpen'
    /\ r.op = "write" /\ r.status # "ok" /\ current => p \notin srvOpen' \/ inst'[p] # "conn"
    /\ r.op = "write" /\ r.status = "ok" => Alive(1, "write", p)
    /\ r.op = "read" /\ r.status = "ok" => p \in parked
    /\ OnCtrl(r, "read") /\ Tells(r.data) => r.status = "ok" /\ r.data = s2c["ctrl"] /\ s2c'["ctrl"] = <<>>

\* What a step of the server leaves alone, and what it may change of a pipe.
Settles ==
    /\ toSrv' = toSrv \/ (toSrv # <<>> /\ toSrv' = Tail(toSrv))
    /\ \A p \in Pipe :
          /\ \/ /\ srvFnum'[p] = srvFnum[p] /\ (p \in srvOpen' => p \in srvOpen)
                /\ inst'[p] = "conn" => inst[p] = "conn"
             \/ Took("open", p) /\ srvFnum'[p] = srvFnum[p] + 1
          /\ p \in parked' => p \in parked \/ (Took("read", p) /\ Alive(1, "read", p))
    /\ s2c'["ctrl"] \in {s2c["ctrl"], <<>>}
    /\ UNCHANGED <<state, mode, fd, io_read, io_write, pending, stdinEv, net, pc, cont>>

\* A step of the server with the answers rs.
Served(rs) ==
    /\ rs \in Seq(Replied) /\ Answers(rs) /\ Settles
    /\ \A j \in DOMAIN rs :
          /\ Due(rs[j])
          /\ rs[j].status = "ok" /\ rs[j].op \in {"read", "write"} => DOMAIN rs = {1}
    /\ \A op \in {"open", "close"}, p \in Pipe : OnceOf(rs, op, p)
    /\ \A p \in Pipe : Took("open", p) => ~NoneOf(rs, "open", p)

\* What becomes of a request or a reply of one kind.
LEMMA TookHead ==
  ASSUME ClientTypeOK, NEW op, NEW p, Took(op, p)
  PROVE  /\ 1 \in DOMAIN toSrv /\ Query = toSrv[1] /\ Is(toSrv[1], op, p) /\ toSrv[1] \in Wired(account)
         /\ ~NoneOf(toSrv, op, p) /\ (OnceOf(toSrv, op, p) => NoneOf(toSrv', op, p))
  <1>1. toSrv \in Seq(Wired(account)) /\ toSrv # <<>> /\ toSrv' = Tail(toSrv) /\ Is(Head(toSrv), op, p)
    BY DEF ClientTypeOK, Took, Query
  <1>2. 1 \in DOMAIN toSrv /\ Head(toSrv) = toSrv[1]
    BY <1>1, TailElements
  <1>3. OnceOf(toSrv, op, p) => NoneOf(toSrv', op, p)
    BY <1>1, TailOf
  <1> QED BY <1>1, <1>2, <1>3 DEF Query, NoneOf

LEMMA ServedOf ==
  ASSUME ClientTypeOK, NEW rs, Served(rs), NEW op, NEW p
  PROVE  /\ NoneOf(toSrv, op, p) => NoneOf(toSrv', op, p)
         /\ OnceOf(toSrv, op, p) => OnceOf(toSrv', op, p)
         /\ \A i \in DOMAIN toSrv' : \E k \in DOMAIN toSrv : toSrv'[i] = toSrv[k]
         /\ NoneOf(toCli', op, p) => NoneOf(toCli, op, p)
         /\ NoneOf(toCli, op, p) /\ NoneOf(rs, op, p) => NoneOf(toCli', op, p)
         /\ OnceOf(toCli, op, p) /\ NoneOf(rs, op, p) => OnceOf(toCli', op, p)
         /\ NoneOf(toCli, op, p) /\ OnceOf(rs, op, p) => OnceOf(toCli', op, p)
         /\ op # "read" /\ ~Took(op, p) => NoneOf(rs, op, p)
         /\ Staying /\ net = "up" /\ NoneOf(toCli', op, p) => NoneOf(rs, op, p)
  <1>1. /\ toSrv \in Seq(Wired(account)) /\ toCli \in Seq(Replied) /\ rs \in Seq(Replied)
        /\ toSrv' = toSrv \/ (toSrv # <<>> /\ toSrv' = Tail(toSrv))
        /\ toCli' = toCli \/ toCli' = toCli \o rs
        /\ Staying /\ net = "up" => toCli' = toCli \o rs
    BY DEF ClientTypeOK, Served, Settles, Answers, Staying, Gone
  <1>2. /\ NoneOf(toSrv, op, p) => NoneOf(toSrv', op, p)
        /\ OnceOf(toSrv, op, p) => OnceOf(toSrv', op, p)
        /\ \A i \in DOMAIN toSrv' : \E k \in DOMAIN toSrv : toSrv'[i] = toSrv[k]
    <2>1. CASE toSrv' = toSrv
      BY <2>1 DEF NoneOf, OnceOf
    <2>2. CASE toSrv # <<>> /\ toSrv' = Tail(toSrv)
      BY <1>1, <2>2, TailOf, TailElements
    <2> QED BY <1>1, <2>1, <2>2
  <1>3. /\ NoneOf(toCli', op, p) => NoneOf(toCli, op, p)
        /\ NoneOf(toCli, op, p) /\ NoneOf(rs, op, p) => NoneOf(toCli', op, p)
        /\ OnceOf(toCli, op, p) /\ NoneOf(rs, op, p) => OnceOf(toCli', op, p)
        /\ NoneOf(toCli, op, p) /\ OnceOf(rs, op, p) => OnceOf(toCli', op, p)
    <2>1. CASE toCli' = toCli
      BY <2>1 DEF NoneOf, OnceOf
    <2>2. CASE toCli' = toCli \o rs
      BY <1>1, <2>2, ConcatOf
    <2> QED BY <1>1, <2>1, <2>2
  <1>4. op # "read" /\ ~Took(op, p) => NoneOf(rs, op, p)
    BY DEF Served, Settles, Due, NoneOf, Is
  <1>5. ASSUME Staying, net = "up", NoneOf(toCli', op, p)
        PROVE  NoneOf(rs, op, p)
    <2>1. NoneOf(toCli \o rs, op, p)
      BY <1>1, <1>5
    <2> QED BY <1>1, <2>1, ConcatOf
  <1> QED BY <1>2, <1>3, <1>4, <1>5

\* A reply after the step: an old one, or the answer.
LEMMA ServedReply ==
  ASSUME ClientTypeOK, NEW rs, Served(rs), NEW i \in DOMAIN toCli'
  PROVE  /\ toCli'[i] \in Replied /\ i \in Nat
         /\ \/ i \in DOMAIN toCli /\ toCli'[i] = toCli[i]
            \/ /\ i \notin DOMAIN toCli /\ net = "up"
               /\ \E j \in DOMAIN rs : toCli'[i] = rs[j] /\ i = Len(toCli) + j
  <1>1. /\ toCli \in Seq(Replied) /\ rs \in Seq(Replied) /\ Answers(rs)
    BY DEF ClientTypeOK, Served, Settles
  <1>2. CASE toCli' = toCli
    <2>1. DOMAIN toCli \subseteq Nat
      BY <1>1
    <2> QED BY <1>1, <1>2, <2>1
  <1>3. CASE net = "up" /\ toCli' = toCli \o rs
    <2>1. i \in DOMAIN (toCli \o rs) /\ toCli \o rs \in Seq(Replied)
      BY <1>1, <1>3
    <2>2. \/ i \in DOMAIN toCli /\ (toCli \o rs)[i] = toCli[i]
          \/ /\ i - Len(toCli) \in DOMAIN rs /\ i = Len(toCli) + (i - Len(toCli))
             /\ (toCli \o rs)[i] = rs[i - Len(toCli)]
      BY ONLY <1>1, <2>1, ConcatSplit
    <2>3. toCli'[i] \in Replied /\ i \in Nat
      BY <1>3, <2>1
    <2>4. \A j \in DOMAIN rs : Len(toCli) + j \notin DOMAIN toCli
      BY <1>1
    <2> QED BY <1>3, <2>2, <2>3, <2>4
  <1> QED BY <1>1, <1>2, <1>3 DEF Answers

\* What follows an answer is an answer.
LEMMA ServedAfter ==
  ASSUME ClientTypeOK, NEW rs, Served(rs), NEW i \in DOMAIN toCli', i \notin DOMAIN toCli,
         NEW k \in DOMAIN toCli', k > i
  PROVE  k \notin DOMAIN toCli
  <1>1. toCli \in Seq(Replied) /\ rs \in Seq(Replied) /\ k \in Nat
    BY ServedReply DEF ClientTypeOK, Served, Settles
  <1>2. PICK j \in DOMAIN rs : i = Len(toCli) + j
    BY ServedReply
  <1>3. DOMAIN toCli = 1..Len(toCli) /\ Len(toCli) \in Nat /\ j \in Nat
    BY <1>1
  <1> QED BY <1>1, <1>2, <1>3

LEMMA ServedNumber ==
  ASSUME SessTypeOK, SessTypeOK', Staying, NumberInv, RoundInv, StdInv, NEW rs, Served(rs)
  PROVE  NumberInv'
  <1>1. /\ ClientTypeOK /\ toSrv \in Seq(Wired(account)) /\ toCli \in Seq(Replied)
        /\ UNCHANGED <<fd, io_read, io_write, net>>
    BY DEF SessTypeOK, ClientTypeOK, Served, Settles
  <1>2. ASSUME NEW p \in Pipe
        PROVE  /\ srvFnum[p] \in Nat /\ srvFnum'[p] \in {srvFnum[p], srvFnum[p] + 1}
               /\ fd[p] \in Nat /\ io_read[p] \in Nat /\ io_write[p] \in Nat
               /\ ~Took("open", p) => srvFnum'[p] = srvFnum[p] /\ (p \in srvOpen' => p \in srvOpen)
    BY <1>1 DEF Served, Settles, ClientTypeOK, SessTypeOK, ServerTypeOK
  <1>3. ASSUME NEW i \in DOMAIN toSrv'
        PROVE  toSrv'[i].fnum <= srvFnum'[toSrv'[i].pipe]
    <2>1. PICK k \in DOMAIN toSrv : toSrv'[i] = toSrv[k]
      BY <1>1, ServedOf
    <2>2. toSrv[k].fnum <= srvFnum[toSrv[k].pipe] /\ toSrv[k].pipe \in Pipe /\ toSrv[k].fnum \in Nat
      <3>1. toSrv[k] \in Wired(account)
        BY <1>1
      <3> QED BY <3>1 DEF NumberInv, Wired
    <2> QED BY <1>2, <2>1, <2>2
  <1>4. ASSUME NEW p \in Pipe
        PROVE  /\ fd'[p] <= srvFnum'[p] /\ io_read'[p] <= srvFnum'[p] /\ io_write'[p] <= srvFnum'[p]
               /\ p \in srvOpen' => srvFnum'[p] > 0
    <2>1. /\ fd[p] <= srvFnum[p] /\ io_read[p] <= srvFnum[p] /\ io_write[p] <= srvFnum[p]
          /\ p \in srvOpen => srvFnum[p] > 0
      BY DEF NumberInv
    <2>2. p \in srvOpen' => p \in srvOpen \/ srvFnum'[p] = srvFnum[p] + 1
      BY DEF Served, Settles
    <2> QED BY <1>1, <1>2, <2>1, <2>2
  <1>5. ASSUME NEW p \in Pipe, net' = "up", NoneOf(toCli', "open", p)
        PROVE  fd'[p] = srvFnum'[p]
    <2>1. NoneOf(toCli, "open", p) /\ NoneOf(rs, "open", p)
      BY <1>1, <1>5, ServedOf
    <2>2. ~Took("open", p)
      BY <2>1 DEF Served, Settles
    <2> QED BY <1>1, <1>2, <1>5, <2>1, <2>2 DEF NumberInv
  <1>6. ASSUME NEW i \in DOMAIN toCli', toCli'[i].op = "open"
        PROVE  IF toCli'[i].status = "ok" THEN toCli'[i].fnum = srvFnum'[toCli'[i].pipe] /\ toCli'[i].fnum > 0
               ELSE net' = "up" => fd'[toCli'[i].pipe] = srvFnum'[toCli'[i].pipe]
    <2> DEFINE p == toCli'[i].pipe
    <2>1. p \in Pipe
      BY <1>1, ServedReply DEF Replied
    <2>2. Took("open", p) => NoneOf(toCli, "open", p)
      BY <1>1, <2>1, TookHead DEF RoundInv, OneUnderway
    <2>3. CASE i \in DOMAIN toCli /\ toCli'[i] = toCli[i]
      <3>1. ~Took("open", p)
        BY <1>6, <2>2, <2>3 DEF NoneOf, Is
      <3> QED BY <1>1, <1>2, <1>6, <2>1, <2>3, <3>1 DEF NumberInv
    <2>4. CASE \E j \in DOMAIN rs : toCli'[i] = rs[j]
      <3>1. /\ Took("open", p)
            /\ IF toCli'[i].status = "ok" THEN toCli'[i].fnum = srvFnum'[p] /\ toCli'[i].fnum > 0
               ELSE srvFnum'[p] = srvFnum[p]
        BY <1>6, <2>4 DEF Served, Settles, Due
      <3>2. net = "up" => fd[p] = srvFnum[p]
        BY <2>1, <2>2, <3>1 DEF NumberInv
      <3> QED BY <1>1, <3>1, <3>2
    <2> QED BY <1>1, <2>3, <2>4, ServedReply
  <1> QED BY <1>3, <1>4, <1>5, <1>6 DEF NumberInv

\* At most one open of a pipe, and at most one close, before and after.
LEMMA ServedOne ==
  ASSUME ClientTypeOK, NEW rs, Served(rs), NEW op \in {"open", "close"}, NEW p \in Pipe
  PROVE  /\ OneUnderway(op, p) => OneUnderway(op, p)'
         /\ NoneUnderway(op, p) => NoneUnderway(op, p)'
  <1>1. op # "read" /\ OnceOf(rs, op, p)
    BY DEF Served, Settles
  <1>2. CASE Took(op, p)
    <2>1. ~NoneOf(toSrv, op, p) /\ (OnceOf(toSrv, op, p) => NoneOf(toSrv', op, p))
      BY <1>2, TookHead
    <2>2. /\ OnceOf(toSrv, op, p) => OnceOf(toSrv', op, p)
          /\ NoneOf(toCli, op, p) => OnceOf(toCli', op, p)
      BY <1>1, ServedOf
    <2>3. OnceOf(toSrv', op, p) /\ OnceOf(toCli', op, p) /\ NoneOf(toSrv', op, p) => OneUnderway(op, p)'
      BY DEF OneUnderway, OnceOf, NoneOf
    <2> QED BY <2>1, <2>2, <2>3 DEF OneUnderway, NoneUnderway
  <1>3. CASE ~Took(op, p)
    <2>1. /\ NoneOf(toSrv, op, p) => NoneOf(toSrv', op, p)
          /\ OnceOf(toSrv, op, p) => OnceOf(toSrv', op, p)
          /\ NoneOf(toCli, op, p) => NoneOf(toCli', op, p)
          /\ OnceOf(toCli, op, p) => OnceOf(toCli', op, p)
      BY <1>1, <1>3, ServedOf
    <2> QED BY <2>1 DEF OneUnderway, NoneUnderway, NoneOf, OnceOf
  <1> QED BY <1>2, <1>3

LEMMA ServedRound ==
  ASSUME SessTypeOK, RoundInv, NEW rs, Served(rs)
  PROVE  RoundInv'
  <1>1. /\ ClientTypeOK /\ UNCHANGED <<state, mode, pending, net>> /\ "ctrl" \in Pipe
        /\ net # "up" => toCli' = toCli
    BY DEF SessTypeOK, Served, Settles, Answers, Pipe
  <1>2. ASSUME NEW p \in Pipe
        PROVE  OneUnderway("open", p)' /\ (Known("open", p)' \/ NoneUnderway("open", p)')
    <2>1. Known("open", p)' <=> Known("open", p)
      BY <1>1 DEF Known, NoneOf
    <2> QED BY <1>1, <2>1, ServedOne DEF RoundInv
  <1>3. OneUnderway("close", "ctrl")' /\ OnceOf(pending', "close", "ctrl")
    BY <1>1, ServedOne DEF RoundInv
  <1>4. state' # "OPENING" \/ mode' # "loop" => NoneUnderway("open", "ctrl")'
    BY <1>1, ServedOne DEF RoundInv
  <1>5. ASSUME ~(state' = "CLOSING_FOR_REINSTALL" /\ mode' = "loop")
        PROVE  /\ NoneOf(pending', "close", "ctrl") /\ NoneOf(toCli', "close", "ctrl")
               /\ net' # "dead" => NoneOf(toSrv', "close", "ctrl")
    <2>1. /\ NoneOf(pending, "close", "ctrl") /\ NoneOf(toCli, "close", "ctrl")
          /\ net # "dead" => NoneOf(toSrv, "close", "ctrl")
      BY <1>1, <1>5 DEF RoundInv
    <2>2. net # "dead" => NoneUnderway("close", "ctrl")'
      BY <1>1, <2>1, ServedOne DEF NoneUnderway
    <2>3. net = "dead" => toCli' = toCli
      BY <1>1
    <2>4. NoneOf(toCli', "close", "ctrl")
      BY <2>1, <2>2, <2>3 DEF NoneUnderway, NoneOf
    <2> QED BY <1>1, <2>1, <2>2, <2>4 DEF NoneUnderway, NoneOf
  <1>6. net' = "dead" => toCli' = <<>>
    BY <1>1 DEF RoundInv
  <1> QED BY <1>2, <1>3, <1>4, <1>5, <1>6 DEF RoundInv, OneUnderway, NoneUnderway, Known, NoneOf, OnceOf

\* No read or write succeeds any more, if none could and the file is not opened again.
LEMMA ServedGood ==
  ASSUME ClientTypeOK, ServerTypeOK, NEW rs, Served(rs), NEW op \in {"read", "write"}, NEW p,
         p \notin srvOpen \/ (op = "write" /\ inst[p] # "conn")
  PROVE  /\ \A j \in DOMAIN rs : ~(Is(rs[j], op, p) /\ rs[j].status = "ok")
         /\ \A i \in DOMAIN toCli : NoneGoodAfter(i, op, p) => NoneGoodAfter(i, op, p)'
  <1>1. \A j \in DOMAIN rs : ~(Is(rs[j], op, p) /\ rs[j].status = "ok")
    BY DEF Served, Settles, Due, Alive, Is, ServerTypeOK
  <1>2. ASSUME NEW i \in DOMAIN toCli, NoneGoodAfter(i, op, p), NEW j \in DOMAIN toCli', j > i, Good(j, op, p)'
        PROVE  FALSE
    <2>1. CASE j \in DOMAIN toCli /\ toCli'[j] = toCli[j]
      BY <1>2, <2>1 DEF NoneGoodAfter, Good
    <2>2. CASE \E k \in DOMAIN rs : toCli'[j] = rs[k]
      BY <1>1, <1>2, <2>2 DEF Good
    <2> QED BY <2>1, <2>2, ServedReply
  <1> QED BY <1>1, <1>2 DEF NoneGoodAfter

LEMMA ServedClose ==
  ASSUME SessTypeOK, NumberInv, CloseInv, NEW rs, Served(rs)
  PROVE  CloseInv'
  <1>1. ClientTypeOK /\ ServerTypeOK /\ toSrv \in Seq(Wired(account))
    BY DEF SessTypeOK, ClientTypeOK
  <1>2. ASSUME NEW p \in Pipe, NoneUnderway("open", p)
        PROVE  /\ NoneUnderway("open", p)' /\ srvFnum'[p] = srvFnum[p]
               /\ p \in srvOpen' => p \in srvOpen
    <2>1. ~Took("open", p)
      BY <1>1, <1>2, TookHead DEF NoneUnderway
    <2> QED BY <1>1, <1>2, <2>1, ServedOne DEF Served, Settles
  <1>3. ASSUME NEW p \in Pipe, NEW i \in DOMAIN toSrv', Is(toSrv'[i], "close", p)
        PROVE  NoneUnderway("open", p)' /\ toSrv'[i].fnum = srvFnum'[p]
    <2>1. PICK k \in DOMAIN toSrv : toSrv'[i] = toSrv[k]
      BY <1>1, ServedOf
    <2>2. NoneUnderway("open", p) /\ toSrv[k].fnum = srvFnum[p]
      BY <1>3, <2>1 DEF CloseInv
    <2> QED BY <1>2, <2>1, <2>2
  <1>4. ASSUME NEW p \in Pipe, NEW i \in DOMAIN toCli', Is(toCli'[i], "close", p)
        PROVE  /\ NoneUnderway("open", p)' /\ p \notin srvOpen'
               /\ \A op \in {"read", "write"} : NoneGoodAfter(i, op, p)'
    <2>1. CASE i \in DOMAIN toCli /\ toCli'[i] = toCli[i]
      <3>1. /\ NoneUnderway("open", p) /\ p \notin srvOpen
            /\ \A op \in {"read", "write"} : NoneGoodAfter(i, op, p)
        BY <1>4, <2>1 DEF CloseInv
      <3>2. \A op \in {"read", "write"} : NoneGoodAfter(i, op, p)'
        BY <1>1, <2>1, <3>1, ServedGood
      <3> QED BY <1>2, <3>1, <3>2
    <2>2. ASSUME i \notin DOMAIN toCli, NEW j \in DOMAIN rs, toCli'[i] = rs[j], i = Len(toCli) + j
          PROVE  /\ NoneUnderway("open", p)' /\ p \notin srvOpen'
                 /\ \A op \in {"read", "write"} : NoneGoodAfter(i, op, p)'
      <3>1. /\ Took("close", p) /\ (Query.fnum = srvFnum[p] => p \notin srvOpen')
            /\ rs[j].pipe = p /\ rs[j].op = "close"
        BY <1>4, <2>2 DEF Served, Settles, Due, Is
      <3>2. NoneUnderway("open", p) /\ Query.fnum = srvFnum[p]
        BY <1>1, <3>1, TookHead DEF CloseInv
      <3>3. \A op \in {"read", "write"} : NoneGoodAfter(i, op, p)'
        <4> SUFFICES ASSUME NEW op \in {"read", "write"}, NEW k \in DOMAIN toCli', k > i, Good(k, op, p)'
                     PROVE  FALSE
          BY DEF NoneGoodAfter
        <4>1. k \notin DOMAIN toCli
          BY <1>1, <2>2, ServedAfter
        <4>2. PICK m \in DOMAIN rs : toCli'[k] = rs[m]
          BY <1>1, <4>1, ServedReply
        <4>3. DOMAIN rs = {1}
          BY <4>2 DEF Served, Settles, Good, Is
        <4>4. m = j
          BY <2>2, <4>2, <4>3
        <4> QED BY <3>1, <4>2, <4>4 DEF Good, Is
      <3> QED BY <1>2, <3>1, <3>2, <3>3
    <2> QED BY <1>1, <2>1, <2>2, ServedReply
  <1> QED BY <1>3, <1>4 DEF CloseInv

LEMMA ServedTell ==
  ASSUME SessTypeOK, NumberInv, TellInv, NEW rs, Served(rs)
  PROVE  TellInv'
  <1>1. /\ ClientTypeOK /\ ServerTypeOK /\ toSrv \in Seq(Wired(account))
        /\ UNCHANGED <<state, fd, io_read, io_write, pending, stdinEv, pc, cont>>
        /\ s2c'["ctrl"] \in {s2c["ctrl"], <<>>} /\ Std \subseteq Pipe
    BY DEF SessTypeOK, ClientTypeOK, Served, Settles, Std, Pipe
  <1>2. Loc' = Loc
    BY <1>1 DEF Loc
  <1>3. ~Tells(<<>>) /\ (Tells(s2c'["ctrl"]) => Tells(s2c["ctrl"]))
    BY <1>1 DEF Tells
  <1>4. ASSUME NEW i \in DOMAIN toCli', Teller(i)'
        PROVE  \/ i \in DOMAIN toCli /\ Teller(i)
               \/ /\ i \notin DOMAIN toCli /\ Tells(s2c["ctrl"]) /\ s2c'["ctrl"] = <<>>
                  /\ \A k \in DOMAIN toCli' : k \in DOMAIN toCli \/ k = i \/ ~Teller(k)'
    <2>1. CASE i \in DOMAIN toCli /\ toCli'[i] = toCli[i]
      BY <1>4, <2>1 DEF Teller
    <2>2. ASSUME i \notin DOMAIN toCli, NEW j \in DOMAIN rs, toCli'[i] = rs[j], i = Len(toCli) + j
          PROVE  /\ Tells(s2c["ctrl"]) /\ s2c'["ctrl"] = <<>>
                 /\ \A k \in DOMAIN toCli' : k \in DOMAIN toCli \/ k = i \/ ~Teller(k)'
      <3>1. OnCtrl(rs[j], "read") /\ Tells(rs[j].data)
        BY <1>4, <2>2 DEF Teller
      <3>2. Tells(s2c["ctrl"]) /\ s2c'["ctrl"] = <<>>
        BY <3>1 DEF Served, Settles, Due
      <3>3. ASSUME NEW k \in DOMAIN toCli', k \notin DOMAIN toCli, Teller(k)'
            PROVE  k = i
        <4>1. PICK m \in DOMAIN rs : toCli'[k] = rs[m] /\ k = Len(toCli) + m
          BY <1>1, <3>3, ServedReply
        <4>2. OnCtrl(rs[m], "read") /\ Tells(rs[m].data)
          BY <3>3, <4>1 DEF Teller
        <4>3. DOMAIN rs = {1}
          BY <3>1 DEF Served, Settles, Due, OnCtrl
        <4>4. m = j
          BY <2>2, <4>1, <4>3
        <4> QED BY <2>2, <4>1, <4>4
      <3> QED BY <3>2, <3>3
    <2> QED BY <1>1, <2>1, <2>2, ServedReply
  <1>5. ASSUME StdQuiet
        PROVE  StdQuiet'
    <2>1. \A op, p : Took(op, p) => p = "ctrl"
      BY <1>1, <1>5, TookHead DEF StdQuiet, Is
    <2>2. \A p \in srvOpen : p = "ctrl"
      <3> SUFFICES ASSUME NEW p \in srvOpen, p # "ctrl" PROVE FALSE
        OBVIOUS
      <3>1. p \in Pipe /\ p \in Std
        BY <1>1 DEF ServerTypeOK, Pipe, Std
      <3>2. srvFnum[p] = 0 /\ srvFnum[p] > 0
        BY <1>5, <3>1 DEF StdQuiet, NumberInv
      <3> QED BY <3>2
    <2>3. \A i \in DOMAIN toSrv' : toSrv'[i].pipe = "ctrl"
      BY <1>1, <1>5, ServedOf DEF StdQuiet
    <2>4. \A i \in DOMAIN toCli' : toCli'[i].pipe = "ctrl"
      <3>1. \A j \in DOMAIN rs : rs[j].pipe = "ctrl"
        BY <2>1, <2>2 DEF Served, Settles, Due
      <3> QED BY <1>1, <1>5, <3>1, ServedReply DEF StdQuiet
    <2>5. \A p \in Std : srvFnum'[p] = 0
      <3>1. \A p \in Std : ~Took("open", p)
        BY <2>1 DEF Std
      <3> QED BY <1>1, <1>5, <3>1 DEF StdQuiet, Served, Settles
    <2> QED BY <1>1, <1>5, <2>3, <2>4, <2>5 DEF StdQuiet
  <1>6. NoneTells => NoneTells'
    BY <1>3, <1>4 DEF NoneTells
  <1>7. state' # "RUNNING" \/ Loc' \in BeforeStdio => StdQuiet' /\ NoneTells'
    BY <1>1, <1>2, <1>5, <1>6 DEF TellInv
  <1>8. Tells(s2c'["ctrl"]) => StdQuiet' /\ \A i \in DOMAIN toCli' : ~Teller(i)'
    BY <1>3, <1>4, <1>5 DEF TellInv
  <1>9. ASSUME NEW i \in DOMAIN toCli', NEW j \in DOMAIN toCli', Teller(i)'
        PROVE  StdQuiet' /\ (Teller(j)' => i = j)
    <2>1. CASE i \in DOMAIN toCli /\ Teller(i)
      <3>1. StdQuiet /\ ~Tells(s2c["ctrl"])
        BY <2>1 DEF TellInv
      <3>2. Teller(j)' => j \in DOMAIN toCli /\ Teller(j)
        BY <1>4, <3>1
      <3> QED BY <1>5, <2>1, <3>1, <3>2 DEF TellInv
    <2>2. CASE /\ Tells(s2c["ctrl"]) /\ s2c'["ctrl"] = <<>>
               /\ \A k \in DOMAIN toCli' : k \in DOMAIN toCli \/ k = i \/ ~Teller(k)'
      <3>1. StdQuiet /\ \A k \in DOMAIN toCli : ~Teller(k)
        BY <2>2 DEF TellInv
      <3>2. Teller(j)' => j = i
        <4>1. Teller(j)' => j \notin DOMAIN toCli
          BY <1>4, <3>1
        <4> QED BY <2>2, <4>1
      <3> QED BY <1>5, <3>1, <3>2
    <2> QED BY <1>4, <1>9, <2>1, <2>2
  <1> QED BY <1>7, <1>8, <1>9 DEF TellInv

LEMMA ServedStd ==
  ASSUME SessTypeOK, RoundInv, StdInv, NEW rs, Served(rs)
  PROVE  StdInv'
  <1>1. /\ ClientTypeOK /\ ServerTypeOK /\ toSrv \in Seq(Wired(account)) /\ Std \subseteq Pipe
        /\ UNCHANGED <<fd, pending, stdinEv>>
    BY DEF SessTypeOK, ClientTypeOK, Served, Settles, Std, Pipe
  <1>2. ASSUME NEW p \in Std, ~Took("open", p)
        PROVE  /\ srvFnum'[p] = srvFnum[p] /\ (p \in srvOpen' => p \in srvOpen)
               /\ inst'[p] = "conn" => inst[p] = "conn"
    BY <1>1, <1>2 DEF Served, Settles
  <1>3. ASSUME NEW p \in Std, fd[p] # 0
        PROVE  ~Took("open", p)
    BY <1>1, <1>3, TookHead DEF StdInv, NoneUnderway
  <1>4. ASSUME NEW p \in Std
        PROVE  /\ srvFnum'[p] <= 1
               /\ ~NoneOf(toSrv', "open", p) => srvFnum'[p] = 0
               /\ ~NoneUnderway("open", p)' => fd'[p] = 0
    <2>1. /\ srvFnum[p] <= 1 /\ srvFnum[p] \in Nat /\ p \in Pipe
          /\ ~NoneOf(toSrv, "open", p) => srvFnum[p] = 0
      BY <1>1 DEF StdInv, ServerTypeOK
    <2>2. ~NoneUnderway("open", p)' => fd'[p] = 0
      BY <1>1, ServedOne DEF StdInv
    <2>3. CASE Took("open", p)
      <3>1. srvFnum[p] = 0 /\ NoneOf(toSrv', "open", p)
        BY <1>1, <2>1, <2>3, TookHead DEF RoundInv, OneUnderway
      <3>2. srvFnum'[p] \in {srvFnum[p], srvFnum[p] + 1}
        BY <2>1 DEF Served, Settles
      <3> QED BY <2>2, <3>1, <3>2
    <2>4. CASE ~Took("open", p)
      <3>1. NoneOf(toSrv, "open", p) => NoneOf(toSrv', "open", p)
        BY <1>1, ServedOf
      <3> QED BY <1>2, <2>1, <2>2, <2>4, <3>1
    <2> QED BY <2>3, <2>4
  <1>5. ASSUME NEW p \in Std, NEW i \in DOMAIN toSrv', Is(toSrv'[i], "write", p)
        PROVE  fd'[p] # 0 /\ toSrv'[i].fnum = srvFnum'[p]
    <2>1. PICK k \in DOMAIN toSrv : toSrv'[i] = toSrv[k]
      BY <1>1, ServedOf
    <2>2. fd[p] # 0 /\ toSrv[k].fnum = srvFnum[p]
      BY <1>5, <2>1 DEF StdInv
    <2> QED BY <1>1, <1>2, <1>3, <2>1, <2>2
  <1>6. ASSUME NEW p \in Std, NEW i \in DOMAIN toCli', Is(toCli'[i], "write", p)
        PROVE  /\ fd'[p] # 0
               /\ toCli'[i].status # "ok" => /\ p \notin srvOpen' \/ inst'[p] # "conn"
                                             /\ NoneGoodAfter(i, "write", p)'
    <2>1. CASE i \in DOMAIN toCli /\ toCli'[i] = toCli[i]
      <3>1. /\ fd[p] # 0
            /\ toCli[i].status # "ok" => /\ p \notin srvOpen \/ inst[p] # "conn"
                                         /\ NoneGoodAfter(i, "write", p)
        BY <1>6, <2>1 DEF StdInv
      <3>2. toCli[i].status # "ok" => NoneGoodAfter(i, "write", p)'
        BY <1>1, <2>1, <3>1, ServedGood
      <3> QED BY <1>1, <1>2, <1>3, <2>1, <3>1, <3>2
    <2>2. ASSUME i \notin DOMAIN toCli, NEW j \in DOMAIN rs, toCli'[i] = rs[j], i = Len(toCli) + j
          PROVE  /\ fd'[p] # 0
                 /\ toCli'[i].status # "ok" => /\ p \notin srvOpen' \/ inst'[p] # "conn"
                                               /\ NoneGoodAfter(i, "write", p)'
      <3>1. /\ Took("write", p) /\ rs[j].pipe = p /\ rs[j].op = "write"
            /\ rs[j].status # "ok" /\ Query.fnum = srvFnum[p] => p \notin srvOpen' \/ inst'[p] # "conn"
        BY <1>6, <2>2 DEF Served, Settles, Due, Is
      <3>2. Query = toSrv[1] /\ 1 \in DOMAIN toSrv /\ Is(toSrv[1], "write", p)
        BY <1>1, <3>1, TookHead
      <3>3. fd[p] # 0 /\ Query.fnum = srvFnum[p]
        BY <3>2 DEF StdInv
      <3>4. ASSUME rs[j].status # "ok"
            PROVE  NoneGoodAfter(i, "write", p)'
        <4> SUFFICES ASSUME NEW k \in DOMAIN toCli', k > i, Good(k, "write", p)'
                     PROVE  FALSE
          BY DEF NoneGoodAfter
        <4>1. k \notin DOMAIN toCli
          BY <1>1, <2>2, ServedAfter
        <4>2. PICK m \in DOMAIN rs : toCli'[k] = rs[m]
          BY <1>1, <4>1, ServedReply
        <4>3. DOMAIN rs = {1}
          BY <4>2 DEF Served, Settles, Good, Is
        <4>4. m = j
          BY <4>3
        <4> QED BY <3>4, <4>2, <4>4 DEF Good
      <3> QED BY <1>1, <2>2, <3>1, <3>3, <3>4
    <2> QED BY <1>1, <2>1, <2>2, ServedReply
  <1>7. /\ stdinEv' # "none" => fd'["in"] # 0
        /\ \A p \in Std, op \in {"read", "write"} : ~NoneOf(pending', op, p) => fd'[p] # 0
    BY <1>1 DEF StdInv
  <1> QED BY <1>4, <1>5, <1>6, <1>7 DEF StdInv, NoneUnderway, NoneOf

LEMMA ServedFreed ==
  ASSUME SessTypeOK, NumberInv, FreedInv, NEW rs, Served(rs)
  PROVE  FreedInv'
  <1>1. /\ ClientTypeOK /\ ServerTypeOK /\ toSrv \in Seq(Wired(account)) /\ UNCHANGED <<io_read, io_write, net>>
    BY DEF SessTypeOK, ClientTypeOK, Served, Settles
  <1>3. ASSUME NEW p \in Pipe, NEW op \in {"read", "write"}, NoneGood(op, p), net = "up" => NoneAlive(op, p)
        PROVE  NoneGood(op, p)' /\ (net' = "up" => NoneAlive(op, p)')
    <2>1. NoneGood(op, p)'
      <3> SUFFICES ASSUME NEW i \in DOMAIN toCli', Good(i, op, p)'
                   PROVE  FALSE
        BY DEF NoneGood
      <3>1. CASE i \in DOMAIN toCli /\ toCli'[i] = toCli[i]
        BY <1>3, <3>1 DEF NoneGood, Good
      <3>2. ASSUME net = "up", NEW j \in DOMAIN rs, toCli'[i] = rs[j]
            PROVE  FALSE
        <4>1. /\ op = "write" => Took("write", p) /\ Alive(1, "write", p)
              /\ op = "read" => p \in parked
          BY <3>2 DEF Served, Settles, Due, Good, Is
        <4>2. op = "write" => 1 \in DOMAIN toSrv
          BY <1>1, <4>1, TookHead
        <4> QED BY <1>3, <3>2, <4>1, <4>2 DEF NoneAlive
      <3> QED BY <1>1, <3>1, <3>2, ServedReply
    <2>2. ASSUME net = "up"
          PROVE  NoneAlive(op, p)'
      <3>1. op = "read" => p \notin parked'
        BY <1>1, <1>3, <2>2, TookHead DEF NoneAlive, Served, Settles
      <3>2. ASSUME NEW i \in DOMAIN toSrv', Alive(i, op, p)'
            PROVE  FALSE
        <4>1. PICK k \in DOMAIN toSrv : toSrv'[i] = toSrv[k]
          BY <1>1, ServedOf
        <4>2. Is(toSrv[k], op, p) /\ toSrv[k].fnum = srvFnum'[p]
          BY <3>2, <4>1 DEF Alive
        <4>3. CASE srvFnum'[p] = srvFnum[p] + 1
          <5>1. toSrv[k].fnum <= srvFnum[p] /\ srvFnum[p] \in Nat
            BY <1>1, <4>2 DEF NumberInv, Is, ServerTypeOK
          <5> QED BY <4>2, <4>3, <5>1
        <4>4. CASE /\ srvFnum'[p] = srvFnum[p] /\ (p \in srvOpen' => p \in srvOpen)
                   /\ inst'[p] = "conn" => inst[p] = "conn"
          BY <1>3, <2>2, <3>2, <4>1, <4>4 DEF NoneAlive, Alive
        <4> QED BY <4>3, <4>4 DEF Served, Settles
      <3> QED BY <3>1, <3>2 DEF NoneAlive
    <2> QED BY <1>1, <2>1, <2>2
  <1> QED BY <1>1, <1>3 DEF FreedInv

LEMMA ServedStored ==
  ASSUME SessTypeOK, SessTypeOK', Staying, Stored, NEW rs, Served(rs)
  PROVE  Stored'
  <1>1. NumberInv' /\ RoundInv' /\ CloseInv'
    BY ServedNumber, ServedRound, ServedClose DEF Stored
  <1>2. TellInv' /\ StdInv' /\ FreedInv'
    BY ServedTell, ServedStd, ServedFreed DEF Stored
  <1> QED BY <1>1, <1>2 DEF Stored

\* The steps of the server are such steps.

LEMMA OneServed ==
  ASSUME ClientTypeOK, Settles, NEW r \in Replied, Answers(<<r>>), Due(r),
         \A p \in Pipe : Took("open", p) => Is(r, "open", p)
  PROVE  Served(<<r>>)
  <1>1. <<r>> \in Seq(Replied) /\ DOMAIN <<r>> = {1} /\ <<r>>[1] = r
    OBVIOUS
  <1> DEFINE rs == <<r>>
  <1>2. rs \in Seq(Replied) /\ DOMAIN rs = {1} /\ rs[1] = r /\ Answers(rs)
    BY <1>1
  <1> HIDE DEF rs
  <1>3. Served(rs)
    BY <1>2 DEF Served, OnceOf, NoneOf
  <1> QED BY <1>3 DEF rs

LEMMA NoneServed ==
  ASSUME ClientTypeOK, Settles, toCli' = toCli, \A p \in Pipe : ~Took("open", p)
  PROVE  Served(<<>>)
  <1>1. <<>> \in Seq(Replied) /\ DOMAIN <<>> = {} /\ toCli \o <<>> = toCli
    BY DEF ClientTypeOK
  <1> DEFINE rs == <<>>
  <1>2. rs \in Seq(Replied) /\ DOMAIN rs = {} /\ Answers(rs)
    BY <1>1 DEF Answers
  <1> HIDE DEF rs
  <1>3. Served(rs)
    BY <1>2 DEF Served, OnceOf
  <1> QED BY <1>3 DEF rs

\* A read that is cancelled, or not, and a close.
LEMMA CloseServed ==
  ASSUME ClientTypeOK, Settles, NEW x \in Replied, NEW y \in Replied,
         NEW s \in Seq(Replied), \A i \in DOMAIN s : s[i] = x /\ Due(x),
         NEW t \in Seq(Replied), Len(t) = 1, t[1] = y, Answers(s \o t),
         Due(y), x.op = "read", x.status # "ok", y.op = "close",
         \A p \in Pipe : ~Took("open", p)
  PROVE  Served(s \o t)
  <1> DEFINE rs == s \o t
  <1>1. /\ rs \in Seq(Replied) /\ Len(s) \in Nat /\ Answers(rs)
        /\ DOMAIN rs = 1..(Len(s) + Len(t)) /\ DOMAIN s = 1..Len(s)
        /\ \A i \in 1..(Len(s) + Len(t)) :
              rs[i] = IF i <= Len(s) THEN s[i] ELSE t[i - Len(s)]
    <2>1. s \in Seq(Replied) /\ t \in Seq(Replied) /\ Answers(rs)
      OBVIOUS
    <2>2. rs \in Seq(Replied)
      BY <2>1
    <2> QED BY ONLY <2>1, <2>2, ConcatElements
  <1> HIDE DEF rs
  <1>2. ASSUME NEW k \in DOMAIN rs
        PROVE  (k <= Len(s) /\ Due(x) /\ rs[k] = x) \/ (k = Len(s) + 1 /\ rs[k] = y)
    <2>1. CASE k <= Len(s)
      <3>1. k \in DOMAIN s /\ rs[k] = s[k]
        BY <1>1, <2>1
      <3> QED BY <2>1, <3>1
    <2>2. CASE ~(k <= Len(s))
      <3>1. k = Len(s) + 1 /\ k - Len(s) = 1
        BY <1>1, <2>2
      <3> QED BY <1>1, <2>2, <3>1
    <2> QED BY <2>1, <2>2
  <1>3. \A op \in {"open", "close"}, p \in Pipe : OnceOf(rs, op, p)
    <2>1. \A k \in DOMAIN rs : rs[k].op \in {"open", "close"} => k = Len(s) + 1
      BY <1>2
    <2> QED BY <2>1 DEF OnceOf, Is
  <1>4. ASSUME NEW j \in DOMAIN rs
        PROVE  Due(rs[j]) /\ ~(rs[j].status = "ok" /\ rs[j].op \in {"read", "write"})
    BY <1>2
  <1>5. Served(rs)
    BY <1>1, <1>3, <1>4 DEF Served
  <1> QED BY <1>5 DEF rs

\* A request that is refused.
LEMMA RefuseServed ==
  ASSUME ClientTypeOK, ServerTypeOK, Settles, NEW op \in ReqOp, Serve(op), NEW status, Refuse(status),
         \/ status = "notfound" /\ op = "open"
         \/ status = "broken" /\ op = "write" /\ inst[Query.pipe] # "conn"
         \/ status = "invalid" /\ ~Valid /\ op # "open"
  PROVE  \E rs : Served(rs)
  <1> DEFINE r == Answer(Query.op, Query.pipe, Query.fnum, status, <<>>)
             p == Query.pipe
  <1>1. toSrv # <<>> /\ toSrv' = Tail(toSrv) /\ Query.op = op
    BY DEF Serve
  <1>2. p \in Pipe /\ Query.fnum \in Nat
    BY <1>1, QueryType
  <1>3. /\ r \in Replied /\ r.op = op /\ r.pipe = p /\ r.status = status /\ r.data = <<>>
        /\ Answers(<<r>>)
    BY <1>1, <1>2 DEF Refuse, Result, Answer, Replied
  <1>4. \A o, q : Took(o, q) <=> o = op /\ q = p
    BY <1>1 DEF Took, Is
  <1>5. srvFnum' = srvFnum /\ srvOpen' = srvOpen /\ inst' = inst
    BY DEF Refuse, pipeVars, srvVars
  <1>6. ~Tells(<<>>)
    BY DEF Tells
  <1> HIDE DEF r, p
  <1>7. Due(r)
    <2>1. p = Query.pipe
      BY DEF p
    <2> QED BY <1>3, <1>4, <1>5, <1>6, <2>1 DEF Due, Valid
  <1>8. \A q \in Pipe : Took("open", q) => Is(r, "open", q)
    BY <1>3, <1>4 DEF Is
  <1> QED BY <1>3, <1>7, <1>8, OneServed

LEMMA SettlesPipes ==
  ASSUME SessTypeOK, ServerNext,
         \A p \in Pipe :
            /\ \/ /\ srvFnum'[p] = srvFnum[p] /\ (p \in srvOpen' => p \in srvOpen)
                  /\ inst'[p] = "conn" => inst[p] = "conn"
               \/ Took("open", p) /\ srvFnum'[p] = srvFnum[p] + 1
            /\ p \in parked' => p \in parked \/ (Took("read", p) /\ Alive(1, "read", p))
  PROVE  Settles
  <1>1. UNCHANGED <<state, mode, fd, io_read, io_write, pending, stdinEv, net, pc, cont>>
    BY DEF ServerNext, threadVars, stateVars, ioVars, userVars
  <1>2. s2c'["ctrl"] \in {s2c["ctrl"], <<>>} /\ (toSrv' = toSrv \/ (toSrv # <<>> /\ toSrv' = Tail(toSrv)))
    BY ServerWrites
  <1> QED BY <1>1, <1>2 DEF Settles

LEMMA ServerServes ==
  ASSUME SessTypeOK, ServerNext
  PROVE  \E rs : Served(rs)
  <1>0. /\ ClientTypeOK /\ ServerTypeOK /\ toSrv \in Seq(Wired(account)) /\ parked \subseteq Pipe
        /\ parked \subseteq srvOpen /\ srvFnum \in [Pipe -> Nat] /\ inst \in [Pipe -> InstState]
        /\ s2c \in [Pipe -> Seq(Message)] /\ "ctrl" \in Pipe
    BY DEF SessTypeOK, ClientTypeOK, ServerTypeOK, ConnTypeOK, PipeTypeOK, Pipe
  <1>1. ~Tells(<<>>)
    BY DEF Tells
  <1>2. ASSUME UNCHANGED <<srvFnum, srvOpen>>, parked' \subseteq parked,
               \A p \in Pipe : inst'[p] = "conn" => inst[p] = "conn"
        PROVE  Settles
    BY <1>2, SettlesPipes
  <1>3. UNCHANGED <<pipeVars, srvVars>> => Settles
    BY <1>2 DEF pipeVars, srvVars
  <1>4. ASSUME NEW op, Serve(op)
        PROVE  /\ toSrv # <<>> /\ toSrv' = Tail(toSrv) /\ Query.op = op /\ Query.pipe \in Pipe /\ Query.fnum \in Nat
               /\ \A o, q : Took(o, q) <=> o = op /\ q = Query.pipe
               /\ Query = toSrv[1]
    <2>1. toSrv # <<>> /\ toSrv' = Tail(toSrv) /\ Query.op = op
      BY <1>4 DEF Serve
    <2>2. Query.pipe \in Pipe /\ Query.fnum \in Nat
      BY <1>0, <2>1, QueryType
    <2>3. Query = toSrv[1]
      BY <1>0, <2>1 DEF Query
    <2> QED BY <2>1, <2>2, <2>3 DEF Took, Is
  <1>5. CASE ServeOpen
    <2>1. Serve("open") /\ "open" \in ReqOp
      BY <1>5 DEF ServeOpen, ReqOp
    <2>2. CASE Refuse("notfound")
      BY <1>0, <1>3, <2>1, <2>2, RefuseServed DEF Refuse
    <2>3. ASSUME ClientOpen(Query.pipe), srvOpen' = srvOpen \union {Query.pipe},
                 srvFnum' = [srvFnum EXCEPT ![Query.pipe] = @ + 1], UNCHANGED parked,
                 Answers(<<Answer("open", Query.pipe, srvFnum[Query.pipe] + 1, "ok", <<>>)>>)
          PROVE  \E rs : Served(rs)
      <3> DEFINE p == Query.pipe
                 r == Answer("open", p, srvFnum[p] + 1, "ok", <<>>)
      <3>1. p \in Pipe /\ \A o, q : Took(o, q) <=> o = "open" /\ q = p
        BY <1>4, <2>1
      <3>2. srvFnum[p] + 1 \in Nat /\ srvFnum'[p] = srvFnum[p] + 1 /\ srvFnum[p] + 1 > 0
            /\ \A q \in Pipe : q # p => srvFnum'[q] = srvFnum[q]
        BY <1>0, <2>3, <3>1
      <3>3. \A q \in Pipe : q # p => inst'[q] = inst[q]
        BY <1>0, <2>3, <3>1 DEF ClientOpen
      <3>4. /\ r \in Replied /\ r.op = "open" /\ r.pipe = p
            /\ r.fnum = srvFnum[p] + 1 /\ r.status = "ok" /\ r.data = <<>>
        BY <3>1, <3>2, AnswerType DEF Answer, ReqOp
      <3>5. Answers(<<r>>) /\ srvOpen' = srvOpen \union {p} /\ parked' = parked
        BY <2>3
      <3> HIDE DEF p, r
      <3>6. Settles
        BY <3>1, <3>2, <3>3, <3>5, SettlesPipes
      <3>7. Due(r)
        BY <3>1, <3>2, <3>4 DEF Due, OnCtrl
      <3>8. \A q \in Pipe : Took("open", q) => Is(r, "open", q)
        BY <3>1, <3>4 DEF Is
      <3> QED BY <1>0, <3>4, <3>5, <3>6, <3>7, <3>8, OneServed
    <2> QED BY <1>5, <2>2, <2>3 DEF ServeOpen
  <1>6. CASE ServeWrite
    <2>1. Serve("write") /\ "write" \in ReqOp
      BY <1>6 DEF ServeWrite, ReqOp
    <2>2. CASE inst[Query.pipe] # "conn" /\ Refuse("broken")
      BY <1>0, <1>3, <2>1, <2>2, RefuseServed DEF Refuse
    <2>3. CASE ~Valid /\ Refuse("invalid")
      BY <1>0, <1>3, <2>1, <2>3, RefuseServed DEF Refuse
    <2>4. CASE Valid /\ ClientWrite(Query.pipe, Query.items) /\ Result("ok", <<>>) /\ UNCHANGED srvVars
      <3> DEFINE p == Query.pipe
                 r == Answer(Query.op, p, Query.fnum, "ok", <<>>)
      <3>1. p \in Pipe /\ \A o, q : Took(o, q) <=> o = "write" /\ q = p
        BY <1>4, <2>1
      <3>2. r \in Replied /\ r.op = "write" /\ r.pipe = p /\ r.status = "ok" /\ Answers(<<r>>)
        BY <1>4, <2>1, <2>4, AnswerType DEF Answer, ReqOp, Result
      <3>3. Alive(1, "write", p)
        BY <1>4, <2>1, <2>4 DEF Alive, Is, Valid, ClientWrite
      <3>4. UNCHANGED <<srvFnum, srvOpen, parked, inst>>
        BY <2>4 DEF srvVars, ClientWrite
      <3> HIDE DEF p, r
      <3>5. Settles
        BY <1>2, <3>4
      <3>6. Due(r)
        BY <3>1, <3>2, <3>3 DEF Due, OnCtrl
      <3>7. \A q \in Pipe : Took("open", q) => Is(r, "open", q)
        BY <3>1
      <3> QED BY <1>0, <3>2, <3>5, <3>6, <3>7, OneServed
    <2> QED BY <1>6, <2>2, <2>3, <2>4 DEF ServeWrite
  <1>7. CASE ServeRead
    <2>1. Serve("read") /\ "read" \in ReqOp
      BY <1>7 DEF ServeRead, ReqOp
    <2>2. CASE ~Valid /\ Refuse("invalid")
      BY <1>0, <1>3, <2>1, <2>2, RefuseServed DEF Refuse
    <2>3. CASE /\ Valid /\ parked' = parked \union {Query.pipe}
               /\ UNCHANGED <<pipeVars, srvOpen, srvFnum, toCli>>
      <3>1. /\ Query.pipe \in Pipe /\ Query = toSrv[1]
            /\ \A o, q : Took(o, q) <=> o = "read" /\ q = Query.pipe
        BY <1>4, <2>1
      <3>2. Alive(1, "read", Query.pipe)
        BY <1>4, <2>1, <2>3 DEF Alive, Is, Valid
      <3>3. inst' = inst
        BY <2>3 DEF pipeVars
      <3>4. Settles
        BY <2>3, <3>1, <3>2, <3>3, SettlesPipes
      <3> QED BY <1>0, <2>3, <3>1, <3>4, NoneServed
    <2> QED BY <1>7, <2>2, <2>3 DEF ServeRead
  <1>8. CASE AnswerRead
    <2>1. PICK p \in parked :
             /\ \/ ClientRead(p) /\ Answers(<<Answer("read", p, srvFnum[p], "ok", s2c[p])>>)
                \/ Answers(<<Answer("read", p, srvFnum[p], "broken", <<>>)>>) /\ UNCHANGED pipeVars
             /\ parked' = parked \ {p}
      BY <1>8 DEF AnswerRead
    <2>2. /\ p \in Pipe /\ p \in srvOpen /\ srvFnum[p] \in Nat /\ "read" \in ReqOp
          /\ UNCHANGED <<srvOpen, srvFnum, toSrv, inst>> /\ parked' \subseteq parked
      BY <1>0, <1>8, <2>1 DEF ReqOp, AnswerRead, ClientRead, pipeVars
    <2>3. \A o, q : ~Took(o, q)
      <3> SUFFICES toSrv # <<>> => toSrv # Tail(toSrv)
        BY <2>2 DEF Took
      <3>1. toSrv # <<>> => Len(Tail(toSrv)) = Len(toSrv) - 1 /\ Len(toSrv) \in Nat
        BY <1>0
      <3> QED BY <3>1
    <2>4. Settles
      BY <1>2, <2>2
    <2>5. CASE Answers(<<Answer("read", p, srvFnum[p], "broken", <<>>)>>)
      <3> DEFINE r == Answer("read", p, srvFnum[p], "broken", <<>>)
      <3>1. r \in Replied /\ r.op = "read" /\ r.pipe = p /\ r.status = "broken" /\ r.data = <<>> /\ Answers(<<r>>)
        BY <2>2, <2>5, AnswerType DEF Answer
      <3> HIDE DEF r
      <3>2. Due(r)
        BY <1>1, <2>2, <3>1 DEF Due
      <3> QED BY <1>0, <2>3, <2>4, <3>1, <3>2, OneServed
    <2>6. CASE ClientRead(p) /\ Answers(<<Answer("read", p, srvFnum[p], "ok", s2c[p])>>)
      <3> DEFINE r == Answer("read", p, srvFnum[p], "ok", s2c[p])
      <3>1. s2c[p] \in Seq(Message) /\ s2c[p] # <<>>
        BY <1>0, <2>2, <2>6 DEF ClientRead
      <3>2. r \in Replied /\ r.op = "read" /\ r.pipe = p /\ r.status = "ok" /\ r.data = s2c[p] /\ Answers(<<r>>)
        BY <2>2, <2>6, <3>1, AnswerType DEF Answer
      <3>3. s2c'[p] = <<>>
        BY <1>0, <2>2, <2>6 DEF ClientRead
      <3> HIDE DEF r
      <3>4. Due(r)
        BY <2>1, <2>2, <3>2, <3>3 DEF Due, OnCtrl
      <3> QED BY <1>0, <2>3, <2>4, <3>2, <3>4, OneServed
    <2> QED BY <2>1, <2>5, <2>6
  <1>9. CASE ServeClose
    <2>1. Serve("close") /\ "close" \in ReqOp
      BY <1>9 DEF ServeClose, ReqOp
    <2>2. CASE ~Valid /\ Refuse("invalid")
      BY <1>0, <1>3, <2>1, <2>2, RefuseServed DEF Refuse
    <2> DEFINE p == Query.pipe
               cancelled == Answer("read", Query.pipe, Query.fnum, "cancelled", <<>>)
               closed == Answer("close", Query.pipe, Query.fnum, "ok", <<>>)
               b == Query.pipe \in parked
               s == IF b THEN <<cancelled>> ELSE <<>>
               t == <<closed>>
    <2>3. CASE /\ Answers(s \o t)
               /\ parked' = parked \ {Query.pipe}
               /\ srvOpen' = srvOpen \ {Query.pipe}
               /\ ClientClose(Query.pipe) \/ UNCHANGED pipeVars
               /\ UNCHANGED srvFnum
      <3>1. p \in Pipe /\ \A o, q : Took(o, q) <=> o = "close" /\ q = p
        BY <1>4, <2>1
      <3>2. /\ cancelled \in Replied /\ cancelled.op = "read" /\ cancelled.pipe = p
            /\ cancelled.status = "cancelled" /\ cancelled.data = <<>>
            /\ closed \in Replied /\ closed.op = "close" /\ closed.pipe = p /\ closed.status = "ok"
        BY <1>4, <2>1, AnswerType DEF ReqOp, Answer
      <3>3. Answers(s \o t) /\ b \in BOOLEAN /\ (b => p \in srvOpen)
        BY <1>0, <2>3
      <3>4. /\ srvFnum' = srvFnum /\ srvOpen' = srvOpen \ {p} /\ parked' \subseteq parked
            /\ \A q \in Pipe : inst'[q] = "conn" => inst[q] = "conn"
        BY <1>0, <2>3, <3>1 DEF ClientClose, pipeVars
      <3> HIDE DEF p, cancelled, closed, b
      <3>5. Settles
        BY <3>4, SettlesPipes
      <3>6. b => Due(cancelled)
        BY <1>1, <3>1, <3>2, <3>3 DEF Due
      <3>7. Due(closed)
        BY <3>1, <3>2, <3>4 DEF Due, OnCtrl
      <3>8. t \in Seq(Replied) /\ Len(t) = 1 /\ t[1] = closed
        BY <3>2
      <3>9. s \in Seq(Replied) /\ \A i \in DOMAIN s : s[i] = cancelled /\ Due(cancelled)
        <4>1. CASE b
          <5>1. <<cancelled>> \in Seq(Replied) /\ DOMAIN <<cancelled>> = {1} /\ <<cancelled>>[1] = cancelled
            BY <3>2
          <5>2. s = <<cancelled>>
            BY <4>1
          <5> QED BY <3>6, <4>1, <5>1, <5>2
        <4>2. CASE ~b
          <5>1. s = <<>> /\ <<>> \in Seq(Replied) /\ DOMAIN <<>> = {}
            BY <4>2
          <5> QED BY <5>1
        <4> QED BY <4>1, <4>2
      <3> HIDE DEF s, t
      <3>10. Served(s \o t)
        <4>1. Answers(s \o t)
          BY <3>3
        <4>2. \A q \in Pipe : ~Took("open", q)
          BY <3>1
        <4>3. cancelled.status # "ok"
          BY <3>2
        <4> QED BY <1>0, <3>2, <3>5, <3>7, <3>8, <3>9, <4>1, <4>2, <4>3, CloseServed
      <3> QED BY <3>10
    <2> QED BY <1>9, <2>2, <2>3 DEF ServeClose
  <1>10. CASE Hangup
    <2>1. /\ toSrv = <<>> /\ toSrv' = toSrv /\ toCli' = toCli /\ srvFnum' = srvFnum /\ srvOpen' = {} /\ parked' = {}
          /\ ClientVanish(srvOpen)
      BY <1>10 DEF Hangup
    <2>2. \A q \in Pipe : inst'[q] = "conn" => inst[q] = "conn"
      BY <2>1 DEF ClientVanish
    <2>3. Settles
      BY <2>1, <2>2, SettlesPipes
    <2>4. \A q \in Pipe : ~Took("open", q)
      BY <2>1 DEF Took
    <2> QED BY <1>0, <2>1, <2>3, <2>4, NoneServed
  <1> QED BY <1>5, <1>6, <1>7, <1>8, <1>9, <1>10 DEF ServerNext

-----------------------------------------------------------------------------
\* The steps of the service, and the loss of the connection.

\* What was on the wire may be lost, and no pipe gets a client.
Fades ==
    /\ \/ UNCHANGED <<toSrv, toCli, net>>
       \/ net = "up" /\ net' = "down" /\ toSrv' \in {toSrv, <<>>} /\ toCli' \in {toCli, <<>>}
    /\ \A p \in Pipe : inst'[p] = "conn" => inst[p] = "conn"
    /\ UNCHANGED <<state, mode, fd, io_read, io_write, pending, stdinEv, srvVars>>

LEMMA FadesStored ==
  ASSUME Stored, Fades
  PROVE  /\ NumberInv' /\ RoundInv' /\ CloseInv' /\ StdInv' /\ FreedInv'
         /\ StdQuiet => StdQuiet'
         /\ \A i \in DOMAIN toCli' : i \in DOMAIN toCli /\ toCli'[i] = toCli[i]
  <1>1. /\ NumberInv /\ RoundInv /\ CloseInv /\ StdInv /\ FreedInv
        /\ UNCHANGED <<state, mode, fd, io_read, io_write, pending, stdinEv, srvOpen, srvFnum, parked>>
        /\ \A p \in Pipe : inst'[p] = "conn" => inst[p] = "conn"
        /\ toSrv' \in {toSrv, <<>>} /\ toCli' \in {toCli, <<>>}
        /\ UNCHANGED <<toSrv, toCli, net>> \/ (net = "up" /\ net' = "down")
    BY DEF Stored, Fades, srvVars
  <1>2. /\ \A i \in DOMAIN toSrv' : i \in DOMAIN toSrv /\ toSrv'[i] = toSrv[i]
        /\ \A i \in DOMAIN toCli' : i \in DOMAIN toCli /\ toCli'[i] = toCli[i]
    BY <1>1
  <1>3. \A op, p : /\ NoneOf(toSrv, op, p) => NoneOf(toSrv', op, p)
                   /\ OnceOf(toSrv, op, p) => OnceOf(toSrv', op, p)
                   /\ NoneOf(toCli, op, p) => NoneOf(toCli', op, p)
                   /\ OnceOf(toCli, op, p) => OnceOf(toCli', op, p)
    BY <1>2 DEF NoneOf, OnceOf
  <1>4. \A op, p : /\ OneUnderway(op, p) => OneUnderway(op, p)'
                   /\ NoneUnderway(op, p) => NoneUnderway(op, p)'
    BY <1>3 DEF OneUnderway, NoneUnderway, OnceOf, NoneOf
  <1>5. NumberInv'
    BY <1>1, <1>2 DEF NumberInv, NoneOf
  <1>6. RoundInv'
    <2>1. \A p \in Pipe : OneUnderway("open", p)' /\ (Known("open", p)' \/ NoneUnderway("open", p)')
      BY <1>1, <1>4 DEF RoundInv, Known, NoneOf
    <2>2. OneUnderway("close", "ctrl")' /\ OnceOf(pending', "close", "ctrl")
      BY <1>1, <1>4 DEF RoundInv
    <2>3. state' # "OPENING" \/ mode' # "loop" => NoneUnderway("open", "ctrl")'
      BY <1>1, <1>4 DEF RoundInv
    <2>4. ~(state' = "CLOSING_FOR_REINSTALL" /\ mode' = "loop") =>
             /\ NoneOf(pending', "close", "ctrl") /\ NoneOf(toCli', "close", "ctrl")
             /\ net' # "dead" => NoneOf(toSrv', "close", "ctrl")
      BY <1>1, <1>3 DEF RoundInv
    <2>5. net' = "dead" => toCli' = <<>>
      BY <1>1 DEF RoundInv
    <2> QED BY <2>1, <2>2, <2>3, <2>4, <2>5 DEF RoundInv, OneUnderway, NoneUnderway, Known, NoneOf, OnceOf
  <1>7. \A op, p : \A i \in DOMAIN toCli' : NoneGoodAfter(i, op, p) => NoneGoodAfter(i, op, p)'
    BY <1>2 DEF NoneGoodAfter, Good
  <1>8. CloseInv'
    <2>1. \A p \in Pipe, i \in DOMAIN toSrv' : Is(toSrv'[i], "close", p) =>
             NoneUnderway("open", p)' /\ toSrv'[i].fnum = srvFnum'[p]
      BY <1>1, <1>2, <1>4 DEF CloseInv
    <2>2. ASSUME NEW p \in Pipe, NEW i \in DOMAIN toCli', Is(toCli'[i], "close", p)
          PROVE  /\ NoneUnderway("open", p)' /\ p \notin srvOpen'
                 /\ \A op \in {"read", "write"} : NoneGoodAfter(i, op, p)'
      <3>1. /\ NoneUnderway("open", p) /\ p \notin srvOpen
            /\ \A op \in {"read", "write"} : NoneGoodAfter(i, op, p)
        <4>1. CloseInv /\ i \in DOMAIN toCli /\ Is(toCli[i], "close", p)
          BY <1>1, <1>2, <2>2
        <4> QED BY <4>1 DEF CloseInv
      <3> QED BY <1>1, <1>4, <1>7, <2>2, <3>1
    <2> QED BY <2>1, <2>2 DEF CloseInv
  <1>9. StdInv'
    <2>1. ASSUME NEW p \in Std
          PROVE  /\ srvFnum'[p] <= 1
                 /\ ~NoneOf(toSrv', "open", p) => srvFnum'[p] = 0
                 /\ ~NoneUnderway("open", p)' => fd'[p] = 0
                 /\ \A op \in {"read", "write"} : ~NoneOf(pending', op, p) => fd'[p] # 0
                 /\ \A i \in DOMAIN toSrv' : Is(toSrv'[i], "write", p) =>
                       fd'[p] # 0 /\ toSrv'[i].fnum = srvFnum'[p]
      BY <1>1, <1>2, <1>3, <1>4 DEF StdInv
    <2>2. ASSUME NEW p \in Std, NEW i \in DOMAIN toCli', Is(toCli'[i], "write", p)
          PROVE  /\ fd'[p] # 0
                 /\ toCli'[i].status # "ok" => /\ p \notin srvOpen' \/ inst'[p] # "conn"
                                               /\ NoneGoodAfter(i, "write", p)'
      <3>1. /\ fd[p] # 0
            /\ toCli[i].status # "ok" => /\ p \notin srvOpen \/ inst[p] # "conn"
                                         /\ NoneGoodAfter(i, "write", p)
        <4>1. StdInv /\ i \in DOMAIN toCli /\ Is(toCli[i], "write", p)
          BY <1>1, <1>2, <2>2
        <4> QED BY <4>1 DEF StdInv
      <3>2. p \in Pipe
        BY DEF Std, Pipe
      <3> QED BY <1>1, <1>2, <1>7, <2>2, <3>1, <3>2
    <2>3. stdinEv' # "none" => fd'["in"] # 0
      BY <1>1 DEF StdInv
    <2> QED BY <2>1, <2>2, <2>3 DEF StdInv, NoneUnderway, NoneOf
  <1>10. FreedInv'
    <2>1. \A op, p : NoneGood(op, p) => NoneGood(op, p)'
      BY <1>2 DEF NoneGood, Good
    <2>2. ASSUME NEW op, NEW p \in Pipe, NoneAlive(op, p), net' = "up"
          PROVE  NoneAlive(op, p)' /\ net = "up"
      BY <1>1, <1>2, <2>2 DEF NoneAlive, Alive
    <2>3. \A p \in Pipe :
             /\ io_read[p] = 0  => NoneGood("read", p)  /\ (net = "up" => NoneAlive("read", p))
             /\ io_write[p] = 0 => NoneGood("write", p) /\ (net = "up" => NoneAlive("write", p))
      BY <1>1 DEF FreedInv
    <2>4. net' = "up" => net = "up"
      BY <1>1
    <2> QED BY <1>1, <2>1, <2>2, <2>3, <2>4 DEF FreedInv
  <1>11. StdQuiet => StdQuiet'
    BY <1>1, <1>2 DEF StdQuiet
  <1> QED BY <1>2, <1>5, <1>6, <1>8, <1>9, <1>10, <1>11

\* The thread tells of the standard pipes once, in its cmd_run, and gives no
\* pipe a client.
LEMMA ThreadTells ==
  ASSUME PipeTypeOK, ThreadTypeOK, ThreadNext
  PROVE  /\ Tells(s2c'["ctrl"]) => Tells(s2c["ctrl"]) \/ pc = "stdio"
         /\ \A p \in Pipe : inst'[p] = "conn" => inst[p] = "conn"
  <1>1. s2c \in [Pipe -> Seq(Message)] /\ inst \in [Pipe -> InstState] /\ "ctrl" \in Pipe /\ "in" \in Pipe
        /\ "out" \in Pipe /\ "err" \in Pipe /\ ver \in Nat /\ ec \in Nat
    BY ConnectionAssumption DEF PipeTypeOK, ThreadTypeOK, Pipe, ConnectionAssumption
  <1> DEFINE Quiet == /\ Tells(s2c'["ctrl"]) => Tells(s2c["ctrl"])
                      /\ \A p \in Pipe : inst'[p] = "conn" => inst[p] = "conn"
  <1>2. ASSUME inst' = inst, s2c'["ctrl"] \in {s2c["ctrl"], <<>>} PROVE Quiet
    BY <1>2 DEF Tells
  <1>3. ASSUME NEW m \in Message, m.type # "std_io_err", inst' = inst,
               s2c' = IF inst["ctrl"] = "conn" THEN [s2c EXCEPT !["ctrl"] = Append(@, m)] ELSE s2c
        PROVE  Quiet
    <2>1. s2c["ctrl"] \in Seq(Message)
      BY <1>1
    <2>2. s2c'["ctrl"] = s2c["ctrl"] \/ s2c'["ctrl"] = Append(s2c["ctrl"], m)
      BY <1>1, <1>3
    <2>3. Tells(Append(s2c["ctrl"], m)) => Tells(s2c["ctrl"])
      <3>1. \A k \in DOMAIN Append(s2c["ctrl"], m) :
               \/ k \in DOMAIN s2c["ctrl"] /\ Append(s2c["ctrl"], m)[k] = s2c["ctrl"][k]
               \/ Append(s2c["ctrl"], m)[k] = m
        BY <2>1
      <3> QED BY <1>3, <3>1 DEF Tells
    <2> QED BY <1>3, <2>2, <2>3
  <1>4. /\ Error \in Message /\ Error.type # "std_io_err"
        /\ NoMemory \in Message /\ NoMemory.type # "std_io_err"
        /\ Msg("return_code", ec) \in Message /\ Msg("return_code", ec).type # "std_io_err"
        /\ Msg("version", ver) \in Message /\ Msg("version", ver).type # "std_io_err"
    BY <1>1 DEF Error, NoMemory, Msg, Message
  <1>5. ASSUME NEW m \in {Error, NoMemory, Msg("return_code", ec)}, NEW l, hprintf(m, l)
        PROVE  Quiet
    BY <1>3, <1>4, <1>5 DEF hprintf, WriteFile
  <1>6. ASSUME NEW call, NEW l, Fails(call, l)
        PROVE  Quiet
    BY <1>5, <1>6 DEF Fails
  <1>7. ASSUME NEW p \in Pipe, CreateNamedPipe(p) \/ Disconnect(p)
        PROVE  Quiet
    <2>1. s2c'["ctrl"] \in {s2c["ctrl"], <<>>}
      BY <1>1, <1>7 DEF CreateNamedPipe, Disconnect
    <2>2. \A q \in Pipe : inst'[q] = "conn" => inst[q] = "conn"
      BY <1>1, <1>7 DEF CreateNamedPipe, Disconnect
    <2> QED BY <2>1, <2>2 DEF Tells
  <1>8. ASSUME NEW m \in {Error, Msg("version", ver)}, NEW l, ReadAndReply(m, l)
        PROVE  Quiet
    BY <1>3, <1>4, <1>8 DEF ReadAndReply
  <1>9. \A p : ReadFile(p) => Quiet
    BY <1>2 DEF ReadFile
  <1>10. UNCHANGED pipeVars => Quiet
    BY <1>2 DEF pipeVars
  <1>26. SendStdIoErr => pc = "stdio" /\ inst' = inst
    BY DEF SendStdIoErr, hprintf, WriteFile
  <1> SUFFICES ASSUME ~SendStdIoErr PROVE Quiet
    BY <1>26
  <1> HIDE DEF Quiet
  <1>11. CASE HprintfReturn \/ Accept \/ AcceptFails \/ AcceptUnserved
    BY <1>1, <1>5, <1>7, <1>10, <1>11 DEF HprintfReturn, Accept, AcceptFails, AcceptUnserved
  <1>12. CASE HgetsFails
    BY <1>9, <1>10, <1>12 DEF HgetsFails
  <1>13. CASE Unknown
    BY <1>8, <1>13 DEF Unknown
  <1>14. CASE cmd_get
    BY <1>8, <1>9, <1>14 DEF cmd_get
  <1>15. CASE cmd_set
    BY <1>8, <1>9, <1>15 DEF cmd_set
  <1>16. CASE cmd_run
    BY <1>9, <1>16 DEF cmd_run
  <1>17. CASE TokenLogon \/ TokenOpenProcess \/ TokenDuplicate \/ TokenCloseTmp \/ TokenRevert
    BY <1>6, <1>10, <1>17 DEF TokenLogon, TokenOpenProcess, TokenDuplicate, TokenCloseTmp, TokenRevert
  <1>18. CASE TokenImpersonate
    BY <1>5, <1>6, <1>10, <1>18 DEF TokenImpersonate
  <1>19. CASE MakePipes
    BY <1>1, <1>6, <1>7, <1>19 DEF MakePipes, MakePipe
  <1>20. CASE SendReturnCode
    BY <1>5, <1>20 DEF SendReturnCode
  <1>21. CASE ConnectPipes
    BY <1>5, <1>6, <1>10, <1>21 DEF ConnectPipes, ConnectPipe
  <1>22. CASE Spawn
    BY <1>6, <1>10, <1>22 DEF Spawn
  <1>23. CASE Watch
    BY <1>9, <1>10, <1>23 DEF Watch
  <1>24. CASE WaitControl \/ WaitProcess \/ FlushOut \/ FlushErr \/ CloseToken
    BY <1>10, <1>24 DEF WaitControl, WaitProcess, FlushOut, FlushErr, CloseToken
  <1>25. CASE Release \/ Finish
    BY <1>1, <1>7, <1>25 DEF Release, DisconnectPipe, ClosePipe, Finish
  <1> QED
    BY <1>11, <1>12, <1>13, <1>14, <1>15, <1>16, <1>17, <1>18, <1>19, <1>20, <1>21, <1>22, <1>23,
       <1>24, <1>25 DEF ThreadNext

\* Once past that message a thread does not come back to it.
LEMMA ThreadTold ==
  ASSUME cont # "flush", ThreadNext
  PROVE  /\ Loc' \in BeforeStdio => Loc \in BeforeStdio /\ pc # "stdio"
         /\ pc = "stdio" => Loc \in BeforeStdio
  <1> USE DEF Loc, BeforeStdio
  <1>1. CASE HprintfReturn \/ Accept \/ AcceptFails \/ AcceptUnserved
    BY <1>1 DEF HprintfReturn, Accept, AcceptFails, AcceptUnserved, hprintf, WriteFile, Goto
  <1>2. CASE HgetsFails \/ Unknown \/ cmd_get \/ cmd_set \/ cmd_run
    BY <1>2 DEF HgetsFails, Unknown, cmd_get, cmd_set, cmd_run, NextLine
  <1>3. CASE TokenLogon \/ TokenOpenProcess \/ TokenImpersonate \/ TokenDuplicate \/ TokenCloseTmp \/ TokenRevert
    BY <1>3 DEF TokenLogon, TokenOpenProcess, TokenImpersonate, TokenDuplicate, TokenCloseTmp, TokenRevert
  <1>4. CASE MakePipes
    BY <1>4 DEF MakePipes, MakePipe, Fails, hprintf
  <1>5. CASE SendStdIoErr \/ ConnectPipes
    BY <1>5 DEF SendStdIoErr, ConnectPipes, ConnectPipe, Fails, hprintf, Goto
  <1>6. CASE Spawn
    BY <1>6 DEF Spawn, Fails, hprintf
  <1>7. CASE Watch \/ WaitControl \/ WaitProcess \/ FlushOut \/ FlushErr \/ SendReturnCode
    BY <1>7 DEF Watch, WaitControl, WaitProcess, FlushOut, FlushErr, SendReturnCode, hprintf, Goto
  <1>8. CASE Release \/ CloseToken \/ Finish
    BY <1>8 DEF Release, DisconnectPipe, ClosePipe, CloseToken, Finish, Goto
  <1> QED BY <1>1, <1>2, <1>3, <1>4, <1>5, <1>6, <1>7, <1>8 DEF ThreadNext

\* No more is told.
LEMMA FadesTell ==
  ASSUME Stored, Fades, Loc' \in BeforeStdio => Loc \in BeforeStdio,
         Tells(s2c'["ctrl"]) => Tells(s2c["ctrl"])
  PROVE  TellInv'
  <1>1. /\ StdQuiet => StdQuiet'
        /\ \A i \in DOMAIN toCli' : i \in DOMAIN toCli /\ toCli'[i] = toCli[i]
        /\ state' = state /\ TellInv
    BY FadesStored DEF Fades, Stored
  <1>2. \A i \in DOMAIN toCli' : Teller(i)' => i \in DOMAIN toCli /\ Teller(i)
    BY <1>1 DEF Teller
  <1>3. NoneTells => NoneTells'
    BY <1>2 DEF NoneTells
  <1>4. state' # "RUNNING" \/ Loc' \in BeforeStdio => StdQuiet' /\ NoneTells'
    BY <1>1, <1>3 DEF TellInv
  <1>5. Tells(s2c'["ctrl"]) => StdQuiet' /\ \A i \in DOMAIN toCli' : ~Teller(i)'
    BY <1>1, <1>2 DEF TellInv
  <1>6. \A i, j \in DOMAIN toCli' : Teller(i)' => StdQuiet' /\ (Teller(j)' => i = j)
    BY <1>1, <1>2 DEF TellInv
  <1> QED BY <1>4, <1>5, <1>6 DEF TellInv

LEMMA RemoteStored ==
  ASSUME SessTypeOK, ServiceInv, OnceInv, Stored,
         ThreadStep \/ ProcWriteStep \/ ProcReadStep \/ ProcExitStep \/ ServerLoopReady
  PROVE  Stored'
  <1>1. /\ UNCHANGED <<clientVars, srvVars>> /\ PipeTypeOK /\ ThreadTypeOK /\ cont # "flush" /\ TellInv
    BY DEF ThreadStep, ProcWriteStep, ProcReadStep, ProcExitStep, ServerLoopReady, Stored,
           SessTypeOK, ConnTypeOK, ServiceInv, ConnInv
  <1>2. UNCHANGED <<toSrv, toCli, net, state, mode, fd, io_read, io_write, pending, stdinEv, srvVars>>
    BY <1>1 DEF clientVars, stateVars, ioVars, reqVars, userVars
  <1>3. ASSUME \A p \in Pipe : inst'[p] = "conn" => inst[p] = "conn", TellInv'
        PROVE  Stored'
    <2>1. Fades
      BY <1>2, <1>3 DEF Fades
    <2> QED BY <1>3, <2>1, FadesStored DEF Stored
  <1>4. CASE ThreadStep
    <2>1. ThreadNext
      BY <1>4 DEF ThreadStep
    <2>2. /\ Tells(s2c'["ctrl"]) => Tells(s2c["ctrl"]) \/ pc = "stdio"
          /\ \A p \in Pipe : inst'[p] = "conn" => inst[p] = "conn"
      BY <1>1, <2>1, ThreadTells
    <2>3. /\ Loc' \in BeforeStdio => Loc \in BeforeStdio /\ pc # "stdio"
          /\ pc = "stdio" => Loc \in BeforeStdio
      BY <1>1, <2>1, ThreadTold
    <2>4. Fades
      BY <1>2, <2>2 DEF Fades
    <2>5. TellInv'
      <3>1. CASE pc # "stdio"
        BY <2>2, <2>3, <2>4, <3>1, FadesTell
      <3>2. CASE pc = "stdio"
        <4>1. StdQuiet /\ NoneTells /\ state' = state
          BY <1>1, <1>2, <2>3, <3>2 DEF TellInv
        <4>2. state = "RUNNING"
          <5>1. state # "RUNNING" => Loc \in Early
            BY DEF OnceInv, LaunchInv, Early
          <5> QED BY <3>2, <5>1 DEF Loc, Early
        <4>3. StdQuiet'
          BY <2>4, <4>1, FadesStored
        <4>4. \A i \in DOMAIN toCli' : ~Teller(i)'
          BY <1>2, <4>1 DEF NoneTells, Teller
        <4> QED BY <2>3, <3>2, <4>1, <4>2, <4>3, <4>4 DEF TellInv
      <3> QED BY <3>1, <3>2
    <2> QED BY <1>3, <2>2, <2>5
  <1>5. CASE ProcWriteStep \/ ProcReadStep \/ ProcExitStep \/ ServerLoopReady
    <2>1. UNCHANGED <<pc, cont>>
      BY <1>5 DEF ProcWriteStep, ProcReadStep, ProcExitStep, ServerLoopReady, ProcWrite, ProcRead,
                  ProcExit, threadVars
    <2>2. s2c'["ctrl"] = s2c["ctrl"] /\ \A p \in Pipe : inst'[p] = "conn" => inst[p] = "conn"
      BY <1>1, <1>5 DEF ProcWriteStep, ProcReadStep, ProcExitStep, ServerLoopReady, ProcWrite, ProcRead,
                        ProcExit, WriteFile, ReadFile, pipeVars, PipeTypeOK, Pipe, NewPipes
    <2>3. Fades /\ Loc' = Loc
      BY <1>2, <2>1, <2>2 DEF Fades, Loc
    <2>4. TellInv'
      BY <2>2, <2>3, FadesTell
    <2> QED BY <1>3, <2>2, <2>4
  <1> QED BY <1>4, <1>5

\* The connection is lost, or nothing happens.
LEMMA LossStored ==
  ASSUME Stored, NetFail \/ UNCHANGED sessVars
  PROVE  Stored'
  <1>1. /\ UNCHANGED <<connVars, srvVars, stateVars, ioVars, pending, stdinEv>>
        /\ \/ UNCHANGED <<toSrv, toCli, net>>
           \/ net = "up" /\ net' = "down" /\ toSrv' \in {toSrv, <<>>} /\ toCli' \in {toCli, <<>>}
    BY DEF NetFail, sessVars, clientVars, reqVars, userVars
  <1>2. UNCHANGED <<inst, s2c, pc, cont>>
    BY <1>1 DEF connVars, pipeVars, threadVars
  <1>3. Fades /\ Loc' = Loc
    BY <1>1, <1>2 DEF Fades, stateVars, ioVars, Loc
  <1>4. TellInv'
    BY <1>2, <1>3, FadesTell
  <1> QED BY <1>3, <1>4, FadesStored DEF Stored

LEMMA InitStored == SessInit => Stored
  <1> SUFFICES ASSUME SessInit PROVE Stored
    OBVIOUS
  <1>1. /\ state = "OPENING" /\ parked = {} /\ srvOpen = {} /\ mode = "loop" /\ pc = "idle" /\ stdinEv = "none"
        /\ net = "up"
        /\ \A p \in Pipe : fd[p] = 0 /\ io_read[p] = 0 /\ io_write[p] = 0 /\ srvFnum[p] = 0 /\ s2c[p] = <<>>
        /\ toSrv = <<async_open("ctrl")>> /\ toCli = <<>>
        /\ pending = <<[op |-> "open", pipe |-> "ctrl", fnum |-> 0, timed |-> TRUE]>>
    BY DEF SessInit, ClientInit, ThreadInit, Pipe, PipeName
  <1>2. /\ DOMAIN toCli = {} /\ DOMAIN toSrv = {1} /\ DOMAIN pending = {1}
        /\ toSrv[1].op = "open" /\ toSrv[1].pipe = "ctrl" /\ toSrv[1].fnum = 0
        /\ pending[1].op = "open" /\ pending[1].pipe = "ctrl"
    BY <1>1 DEF async_open, Request
  <1>3. NumberInv
    BY <1>1, <1>2 DEF NumberInv, Pipe
  <1>4. RoundInv
    <2>1. \A p \in Pipe : OneUnderway("open", p) /\ (Known("open", p) \/ NoneUnderway("open", p))
      BY <1>2 DEF OneUnderway, NoneUnderway, Known, NoneOf, OnceOf, Is
    <2>2. OneUnderway("close", "ctrl") /\ NoneOf(pending, "close", "ctrl") /\ NoneOf(toSrv, "close", "ctrl")
          /\ NoneOf(toCli, "close", "ctrl") /\ OnceOf(pending, "close", "ctrl")
      BY <1>2 DEF OneUnderway, NoneOf, OnceOf, Is
    <2> QED BY <1>1, <2>1, <2>2 DEF RoundInv
  <1>5. CloseInv
    BY <1>2 DEF CloseInv, Is
  <1>6. TellInv
    <2>1. "ctrl" \in Pipe /\ Std \subseteq Pipe /\ ~Tells(<<>>)
      BY DEF Pipe, Std, Tells
    <2>2. StdQuiet
      <3>1. \A q \in {toSrv, toCli, pending} : \A i \in DOMAIN q : q[i].pipe = "ctrl"
        BY <1>2
      <3> QED BY <1>1, <2>1, <3>1 DEF StdQuiet
    <2>3. NoneTells
      BY <1>1, <1>2, <2>1 DEF NoneTells
    <2> QED BY <1>2, <2>2, <2>3 DEF TellInv, NoneTells
  <1>7. StdInv
    BY <1>1, <1>2 DEF StdInv, NoneUnderway, NoneOf, Is, Std, Pipe
  <1>8. FreedInv
    BY <1>1, <1>2 DEF FreedInv, NoneGood, NoneAlive, Alive
  <1> QED BY <1>3, <1>4, <1>5, <1>6, <1>7, <1>8 DEF Stored

LEMMA StoreStep ==
  ASSUME SessTypeOK, SessTypeOK', ServiceInv, OnceInv, TimedInv, StoreInv, [SessNext]_sessVars
  PROVE  StoreInv'
  <1> SUFFICES ASSUME Staying'
               PROVE  Stored'
    BY DEF StoreInv
  <1>1. Staying
    <2>1. mode \in {"loop", "install", "reinstall", "exiting"} \union Gone
      BY DEF SessTypeOK, ClientTypeOK
    <2>2. mode' \in {"loop", "install", "reinstall"}
      BY DEF Staying
    <2>3. mode' \notin Gone \union {"exiting"}
      BY <2>2 DEF Gone
    <2>4. CASE SessNext
      BY <2>1, <2>3, <2>4, LeavingStep DEF Staying
    <2>5. CASE UNCHANGED sessVars
      BY <2>2, <2>5 DEF sessVars, clientVars, stateVars, Staying
    <2> QED BY <2>4, <2>5
  <1>2. Stored
    BY <1>1 DEF StoreInv
  <1>3. CASE ServerNext
    BY <1>1, <1>2, <1>3, ServerServes, ServedStored
  <1>4. CASE NetFail \/ UNCHANGED sessVars
    BY <1>2, <1>4, LossStored
  <1>5. CASE ThreadStep \/ ProcWriteStep \/ ProcReadStep \/ ProcExitStep \/ ServerLoopReady
    BY <1>2, <1>5, RemoteStored
  <1>6. CASE \/ CompletionStep \/ TimeoutStep \/ DeadStep \/ StdinStep \/ TimerStep \/ SignalStep
             \/ InstallStep \/ ExitStep
    BY <1>1, <1>2, <1>6, ClientMoves, MoveStored
  <1> QED BY <1>3, <1>4, <1>5, <1>6 DEF SessNext

\* A completion is never stored through a structure that was freed, although
\* requests of one pipe overlap freely: where io_read or io_write is 0, no reply
\* to a read or a write is a success, and no request the server has can be
\* one any more.  A structure is made when the first read or write is sent; it
\* is freed by the answer to a close, which comes after all others of its file,
\* by a write that failed, after which no write of that pipe can succeed, or
\* when everything was lost with the connection; and a pipe is opened again
\* only under a new file number.
THEOREM NoNullDereferenceCorrect == SessSpec => []NoNullDereference
  <1>1. /\ StoreInv /\ SessTypeOK /\ SessTypeOK' /\ ServiceInv /\ OnceInv /\ TimedInv /\ [SessNext]_sessVars
        => StoreInv'
    BY StoreStep
  <1>2. OnceInv /\ SessTypeOK /\ SessTypeOK' /\ ServiceInv /\ [SessNext]_sessVars => OnceInv'
    BY OnceStep
  <1>3. TimedInv /\ SessTypeOK /\ [SessNext]_sessVars => TimedInv'
    BY TimedStep
  <1>4. SessInit => StoreInv
    BY InitStored DEF StoreInv
  <1>5. SessSpec => []StoreInv
    BY <1>1, <1>2, <1>3, <1>4, InitOnce, InitTimed, SessInv, PTL DEF SessSpec
  <1>6. SessTypeOK /\ StoreInv => NoNullDereference
    <2> SUFFICES ASSUME SessTypeOK, StoreInv, Receiving, toCli # <<>>, Stores(Reply)
                 PROVE  Target(Reply) # 0
      BY DEF NoNullDereference
    <2>1. FreedInv
      BY DEF Receiving, StoreInv, Staying, Stored
    <2>2. 1 \in DOMAIN toCli /\ Reply = toCli[1] /\ Reply \in Replied
      <3>1. toCli \in Seq(Replied)
        BY DEF SessTypeOK, ClientTypeOK
      <3> QED BY <3>1 DEF Reply
    <2>3. Reply.pipe \in Pipe /\ Reply.op \in {"read", "write"} /\ Good(1, Reply.op, Reply.pipe)
      BY <2>2 DEF Replied, Stores, Good, Is
    <2>4. ~NoneGood(Reply.op, Reply.pipe)
      BY <2>2, <2>3 DEF NoneGood
    <2> QED BY <2>1, <2>3, <2>4 DEF FreedInv, Target
  <1> QED BY <1>5, <1>6, SessInv, PTL
=============================================================================
