--------------------------- MODULE SessionProofs ----------------------------
(***************************************************************************)
(* Proofs about Session, for every set of accounts, versions, faults and   *)
(* failing calls: the types of a whole run, that the service does nothing  *)
(* it does not do for the unrestricted client of Connection, whom the      *)
(* process runs for, what still has a timeout when the command runs, and   *)
(* how often the command is started.                                       *)
(***************************************************************************)
EXTENDS Session, ConnectionProofs, WellFoundedInduction

\* Before its control pipe exists a service has not begun to serve anybody.
FreshInv ==
    svc # "up" =>
        /\ inst = NewPipes(FALSE)
        /\ c2s = [p \in Pipe |-> <<>>] /\ s2c = [p \in Pipe |-> <<>>]
        /\ pc = "idle" /\ handles = {} /\ token = "none" /\ proc = "none"

ServiceInv == ConnInv /\ OwnInv /\ FreshInv

\* What a client that asks for account a sends before it starts the command,
\* seen by a thread that has stored settings s.
Orderly(q, a, s) ==
    \A i \in DOMAIN q :
        /\ q[i].verb = "set" => q[i].arg = a
        /\ q[i].verb = "run" => \/ a = "client"
                                \/ a \in s
                                \/ i > 1 /\ q[i - 1].verb = "set"

\* What the thread has stored, and what it will still read before it starts
\* the command, is what the options of this client say.
AccountInv ==
    /\ settings \subseteq (IF account = "client" THEN {} ELSE {account})
    /\ Loc \in {"idle", "hgets"} => Orderly(c2s["ctrl"], account, settings)
    /\ Loc \notin {"idle", "hgets", "finish", "unserved", "done"} => AccountAsked = account
    /\ proc # "none" => AccountAsked = account

----------------------------------------------------------------------------
\* The oldest and the newest of some requests.

LEMMA Least ==
  ASSUME NEW S, S \subseteq Nat, S # {}
  PROVE  \E i \in S : \A j \in S : i <= j
  <1>1. PICK i \in S : \A j \in S : <<j, i>> \notin OpToRel(<, Nat)
    BY NatLessThanWellFounded, WFMin, Zenon
  <1>2. \A j \in S : ~(j < i)
    BY <1>1 DEF OpToRel
  <1> QED BY <1>2

LEMMA Greatest ==
  ASSUME NEW S, NEW n \in Nat, S \subseteq 1..n, S # {}
  PROVE  \E i \in S : \A j \in S : j <= i
  <1> DEFINE D == {n - i : i \in S}
  <1>1. \A i \in S : n - i \in Nat
    OBVIOUS
  <1>2. \A d \in D : \E i \in S : d = n - i
    OBVIOUS
  <1>3. \A j \in S : n - j \in D
    OBVIOUS
  <1>6. D \subseteq Nat /\ D # {}
    BY <1>1, <1>2, <1>3
  <1> HIDE DEF D
  <1>4. PICK d \in D : \A e \in D : d <= e
    BY <1>6, Least
  <1>5. PICK i \in S : d = n - i
    BY <1>2
  <1> QED BY <1>3, <1>4, <1>5

LEMMA RemoveAtType ==
  ASSUME NEW S, NEW s \in Seq(S), NEW i \in DOMAIN s
  PROVE  RemoveAt(s, i) \in Seq(S)
  <1>1. SubSeq(s, 1, i - 1) \in Seq(S)
    BY SubSeqProperties
  <1>2. SubSeq(s, i + 1, Len(s)) \in Seq(S)
    BY SubSeqProperties
  <1> QED BY <1>1, <1>2 DEF RemoveAt

\* The request a reply belongs to is pending.
LEMMA MatchedPending ==
  ASSUME pending \in Seq(Waiting), NEW r, Matching(r) # {}
  PROVE  /\ Matched(r) \in DOMAIN pending
         /\ Matched(r) \in Matching(r)
         /\ \A i \in Matching(r) : Matched(r) <= i
  <1>1. Matching(r) \subseteq DOMAIN pending /\ DOMAIN pending \subseteq Nat
    BY DEF Matching
  <1>2. \E i \in Matching(r) : \A j \in Matching(r) : i <= j
    BY <1>1, Least
  <1> QED BY <1>1, <1>2 DEF Matched

LEMMA RestType ==
  ASSUME pending \in Seq(Waiting), NEW r, Matching(r) # {}
  PROVE  Rest(r) \in Seq(Waiting)
  BY MatchedPending, RemoveAtType DEF Rest

LEMMA UndestroyedType ==
  ASSUME NEW p, NEW rest \in Seq(Waiting)
  PROVE  Undestroyed(p, rest) \in Seq(Waiting)
  <1> DEFINE rreq == {i \in DOMAIN rest : Destroyed(p, rest[i])}
  <1>1. rreq \subseteq 1..Len(rest) /\ Len(rest) \in Nat
    OBVIOUS
  <1>2. ASSUME rreq # {}
        PROVE  (CHOOSE i \in rreq : \A j \in rreq : j <= i) \in DOMAIN rest
    BY <1>1, <1>2, Greatest
  <1> QED BY <1>2, RemoveAtType DEF Undestroyed

\* The requests that are sent.
LEMMA RequestType ==
  ASSUME NEW a, NEW p \in Pipe, NEW f \in Nat
  PROVE  /\ Request("open", p, f, <<>>) \in Wired(a)
         /\ Request("read", p, f, <<>>) \in Wired(a)
         /\ Request("close", p, f, <<>>) \in Wired(a)
         /\ \A items \in {GetVersion, Abort, RunCommandOf(a)} :
               Request("write", "ctrl", f, items) \in Wired(a)
         /\ Request("write", "in", f, Input) \in Wired(a)
  BY DEF Request, Wired, ReqOp, Pipe

LEMMA CachedType ==
  ASSUME NEW io \in [Pipe -> Nat], NEW p \in Pipe, NEW f \in Nat
  PROVE  /\ Cached(io, p, f) \in Nat
         /\ [io EXCEPT ![p] = Cached(io, p, f)] \in [Pipe -> Nat]
  BY DEF Cached

\* What the requests rs add to the pending ones.
Added(rs) == [i \in DOMAIN rs |-> [op |-> rs[i].op, pipe |-> rs[i].pipe,
                                  fnum |-> rs[i].fnum, timed |-> reqTimeout]]

LEMMA AddedType ==
  ASSUME NEW a, NEW rs \in Seq(Wired(a)), reqTimeout \in BOOLEAN
  PROVE  Added(rs) \in Seq(Waiting) /\ Len(Added(rs)) = Len(rs)
  <1>1. \A i \in 1..Len(rs) : rs[i] \in Wired(a)
    OBVIOUS
  <1>2. \A i \in 1..Len(rs) : Added(rs)[i] \in Waiting
    BY <1>1 DEF Wired, Waiting, Added
  <1>3. DOMAIN rs = 1..Len(rs) /\ Len(rs) \in Nat /\ Added(rs) = [i \in 1..Len(rs) |-> Added(rs)[i]]
    BY DEF Added
  <1> QED BY <1>2, <1>3

LEMMA SendOnType ==
  ASSUME NEW link, NEW a, NEW rest \in Seq(Waiting), NEW rs \in Seq(Wired(a)),
         toSrv \in Seq(Wired(a)), reqTimeout \in BOOLEAN, SendOn(link, rest, rs)
  PROVE  /\ pending' \in Seq(Waiting)
         /\ toSrv' \in Seq(Wired(a))
         /\ reqTimeout' \in BOOLEAN
  <1>1. Added(rs) \in Seq(Waiting)
    BY AddedType
  <1>2. pending' \in Seq(Waiting)
    BY <1>1 DEF SendOn, Added
  <1> QED BY <1>2 DEF SendOn

----------------------------------------------------------------------------
\* The callbacks of the client keep its types.

LEMMA ReplyHead ==
  ASSUME toCli \in Seq(Replied), toCli # <<>>
  PROVE  /\ Tail(toCli) \in Seq(Replied)
         /\ Reply \in Replied
         /\ Reply.pipe \in Pipe /\ Reply.fnum \in Nat
         /\ Reply.op = "read" /\ Reply.status = "ok" =>
                Reply.data \in Seq(Message) /\ Reply.data # <<>> /\ Head(Reply.data) \in Message
  <1>1. Tail(toCli) \in Seq(Replied) /\ Reply \in Replied
    BY DEF Reply
  <1> QED BY <1>1 DEF Replied

\* What every completion of a request can count on.
LEMMA ReceiveType ==
  ASSUME ClientTypeOK, NEW op, NEW ok, Receive(op, ok)
  PROVE  /\ toCli' \in Seq(Replied)
         /\ Reply \in Replied
         /\ Reply.pipe \in Pipe /\ Reply.fnum \in Nat
         /\ Reply.op = "read" /\ Reply.status = "ok" =>
                Reply.data \in Seq(Message) /\ Reply.data # <<>> /\ Head(Reply.data) \in Message
         /\ Rest(Reply) \in Seq(Waiting)
  BY ReplyHead, RestType DEF ClientTypeOK, Receive

\* The requests on one pipe, with the file numbers the client has stored.
LEMMA OwnRequestType ==
  ASSUME ClientTypeOK, NEW p \in Pipe, NEW f \in Nat
  PROVE  /\ async_open(p) \in Wired(account)
         /\ async_read(p, f) \in Wired(account)
         /\ async_close(p) \in Wired(account)
         /\ \A items \in {GetVersion, Abort, RunCommandOf(account)} :
               async_write("ctrl", f, items) \in Wired(account)
         /\ async_write("in", f, Input) \in Wired(account)
         /\ fd[p] \in Nat
         /\ ReadIssued(p, f) => io_read' \in [Pipe -> Nat]
         /\ WriteIssued(p, f) => io_write' \in [Pipe -> Nat]
  <1> "ctrl" \in Pipe /\ "in" \in Pipe
    BY DEF Pipe
  <1>1. /\ io_read \in [Pipe -> Nat] /\ io_write \in [Pipe -> Nat] /\ fd \in [Pipe -> Nat]
    BY DEF ClientTypeOK
  <1>2. \A q \in Pipe : Cached(io_read, q, f) \in Nat /\ Cached(io_write, q, f) \in Nat
    BY <1>1, CachedType
  <1> QED
    BY <1>1, <1>2, CachedType, RequestType, ZenonT(60)
    DEF async_open, async_read, async_close, async_write, ReadIssued, WriteIssued

\* A send on the connection of the client.
LEMMA ClientSendType ==
  ASSUME ClientTypeOK, NEW link, NEW rest \in Seq(Waiting), NEW rs \in Seq(Wired(account)),
         SendOn(link, rest, rs)
  PROVE  /\ pending' \in Seq(Waiting)
         /\ toSrv' \in Seq(Wired(account))
         /\ reqTimeout' \in BOOLEAN
  <1>1. toSrv \in Seq(Wired(account)) /\ reqTimeout \in BOOLEAN
    BY DEF ClientTypeOK
  <1> QED BY <1>1, SendOnType

LEMMA DropReplyType ==
  ASSUME ClientTypeOK, DropReply
  PROVE  ClientTypeOK'
  <1>1. toCli' \in Seq(Replied)
    BY ReplyHead DEF ClientTypeOK, DropReply
  <1> QED
    BY <1>1 DEF ClientTypeOK, DropReply, stateVars, ioVars, reqVars, sigVars, userVars

LEMMA CtrlOpenedType ==
  ASSUME ClientTypeOK, CtrlOpened
  PROVE  ClientTypeOK'
  <1>1. /\ toCli' \in Seq(Replied) /\ Reply.fnum \in Nat
        /\ Rest(Reply) \in Seq(Waiting)
    BY ReceiveType DEF CtrlOpened
  <1> DEFINE rs == <<async_write("ctrl", Reply.fnum, GetVersion), async_read("ctrl", Reply.fnum)>>
  <1>2. rs \in Seq(Wired(account))
    BY <1>1, OwnRequestType DEF Pipe
  <1>3. /\ pending' \in Seq(Waiting)
        /\ toSrv' \in Seq(Wired(account))
        /\ reqTimeout' \in BOOLEAN
    BY <1>1, <1>2, ClientSendType DEF CtrlOpened, Send
  <1>4. io_read' \in [Pipe -> Nat] /\ io_write' \in [Pipe -> Nat]
    BY <1>1, OwnRequestType DEF CtrlOpened, Pipe
  <1>5. fd' \in [Pipe -> Nat]
    BY <1>1 DEF CtrlOpened, ClientTypeOK
  <1> QED BY <1>1, <1>3, <1>4, <1>5, SMTT(30) DEF ClientTypeOK, CtrlOpened, userVars

LEMMA StdOpenedType ==
  ASSUME ClientTypeOK, StdOpened
  PROVE  ClientTypeOK'
  <1>1. /\ toCli' \in Seq(Replied) /\ Reply.fnum \in Nat /\ Reply.pipe \in Pipe
        /\ Rest(Reply) \in Seq(Waiting)
    BY ReceiveType DEF StdOpened
  <1> DEFINE rs == <<async_read(Reply.pipe, Reply.fnum)>>
  <1>2. rs \in Seq(Wired(account))
    BY <1>1, OwnRequestType
  <1>3. /\ pending' \in Seq(Waiting)
        /\ toSrv' \in Seq(Wired(account))
        /\ reqTimeout' \in BOOLEAN
    BY <1>1, <1>2, ClientSendType DEF StdOpened, Send
  <1>4. io_read' \in [Pipe -> Nat]
    BY <1>1, OwnRequestType DEF StdOpened
  <1>5. fd' \in [Pipe -> Nat] /\ stdinEv' \in {"none", "epoll", "select"}
    BY <1>1 DEF StdOpened, ClientTypeOK
  <1> QED
    BY <1>1, <1>3, <1>4, <1>5, SMTT(30) DEF ClientTypeOK, StdOpened, stateVars, sigVars

\* What a message on the control pipe leaves to be read next.
LEMMA CtrlReadType ==
  ASSUME ClientTypeOK, NEW type, CtrlRead(type)
  PROVE  /\ toCli' \in Seq(Replied)
         /\ Rest(Reply) \in Seq(Waiting)
         /\ NextRead \in Wired(account)
         /\ io_read' \in [Pipe -> Nat]
         /\ Head(Reply.data) \in Message
         /\ UNCHANGED <<account, activated, mode, fd, sigVars, net>>
  <1>1. "ctrl" \in Pipe /\ fd["ctrl"] \in Nat
    BY DEF Pipe, ClientTypeOK
  <1>2. Reply.op = "read" /\ Reply.status = "ok"
    BY DEF CtrlRead, Receive
  <1> QED BY <1>1, <1>2, ReceiveType, OwnRequestType DEF CtrlRead, NextRead

LEMMA OnStdIoErrType ==
  ASSUME ClientTypeOK, OnStdIoErr
  PROVE  ClientTypeOK'
  <1> DEFINE rs == <<async_open("in"), async_open("out"), async_open("err"), NextRead>>
  <1>1. /\ toCli' \in Seq(Replied) /\ Rest(Reply) \in Seq(Waiting)
        /\ NextRead \in Wired(account) /\ io_read' \in [Pipe -> Nat]
        /\ UNCHANGED <<account, activated, mode, fd, sigVars, net>>
    BY CtrlReadType DEF OnStdIoErr
  <1>2. \A p \in Pipe : async_open(p) \in Wired(account)
    BY OwnRequestType
  <1>3. rs \in Seq(Wired(account))
    BY <1>1, <1>2 DEF Pipe
  <1>4. /\ pending' \in Seq(Waiting)
        /\ toSrv' \in Seq(Wired(account))
        /\ reqTimeout' \in BOOLEAN
    BY <1>1, <1>3, ClientSendType DEF OnStdIoErr, Send
  <1> QED BY <1>1, <1>4 DEF ClientTypeOK, OnStdIoErr, sigVars, userVars

LEMMA OnReturnCodeType ==
  ASSUME ClientTypeOK, OnReturnCode
  PROVE  ClientTypeOK'
  <1> DEFINE rs == <<NextRead>>
  <1>1. /\ toCli' \in Seq(Replied) /\ Rest(Reply) \in Seq(Waiting)
        /\ NextRead \in Wired(account) /\ io_read' \in [Pipe -> Nat]
        /\ Head(Reply.data) \in Message
        /\ UNCHANGED <<account, activated, mode, fd, sigVars, net>>
    BY CtrlReadType DEF OnReturnCode
  <1>2. rs \in Seq(Wired(account))
    BY <1>1
  <1>3. /\ pending' \in Seq(Waiting)
        /\ toSrv' \in Seq(Wired(account))
        /\ reqTimeout' \in BOOLEAN
    BY <1>1, <1>2, ClientSendType DEF OnReturnCode, Send
  <1>4. return_code' \in Nat
    BY <1>1 DEF OnReturnCode, Message
  <1> QED BY <1>1, <1>3, <1>4 DEF ClientTypeOK, OnReturnCode, sigVars

LEMMA CloseForReinstallType ==
  ASSUME ClientTypeOK, NEW type, CtrlRead(type), CloseForReinstall
  PROVE  ClientTypeOK'
  <1> DEFINE rs == <<async_close("ctrl"), NextRead>>
  <1>1. /\ toCli' \in Seq(Replied) /\ Rest(Reply) \in Seq(Waiting)
        /\ NextRead \in Wired(account) /\ io_read' \in [Pipe -> Nat]
        /\ UNCHANGED <<account, activated, mode, fd, sigVars, net>>
    BY CtrlReadType
  <1>2. async_close("ctrl") \in Wired(account)
    BY OwnRequestType DEF Pipe
  <1>3. rs \in Seq(Wired(account))
    BY <1>1, <1>2
  <1>4. /\ pending' \in Seq(Waiting)
        /\ toSrv' \in Seq(Wired(account))
        /\ reqTimeout' \in BOOLEAN
    BY <1>1, <1>3, ClientSendType DEF CloseForReinstall, Send
  <1> QED BY <1>1, <1>4 DEF ClientTypeOK, CloseForReinstall, sigVars, userVars

LEMMA OnVersionType ==
  ASSUME ClientTypeOK, OnVersion
  PROVE  ClientTypeOK'
  <1> DEFINE rs == <<async_write("ctrl", fd["ctrl"], RunCommand), NextRead>>
  <1>1. /\ toCli' \in Seq(Replied) /\ Rest(Reply) \in Seq(Waiting)
        /\ NextRead \in Wired(account) /\ io_read' \in [Pipe -> Nat]
        /\ UNCHANGED <<account, activated, mode, fd, sigVars, net>>
    BY CtrlReadType DEF OnVersion
  <1>2. "ctrl" \in Pipe /\ fd["ctrl"] \in Nat
    BY DEF Pipe, ClientTypeOK
  <1>3. async_write("ctrl", fd["ctrl"], RunCommand) \in Wired(account)
    BY <1>2, OwnRequestType DEF RunCommand
  <1>4. rs \in Seq(Wired(account))
    BY <1>1, <1>3
  <1>5. /\ pending' \in Seq(Waiting)
        /\ toSrv' \in Seq(Wired(account))
        /\ reqTimeout' \in BOOLEAN
    BY <1>1, <1>4, ClientSendType DEF OnVersion, Send
  <1>6. io_write' \in [Pipe -> Nat]
    BY <1>2, OwnRequestType DEF OnVersion
  <1> QED BY <1>1, <1>5, <1>6 DEF ClientTypeOK, OnVersion, sigVars, userVars

LEMMA OnServiceErrorType ==
  ASSUME ClientTypeOK, OnServiceError
  PROVE  ClientTypeOK'
  <1>1. CASE state = "GETTING_VERSION"
    BY <1>1, CloseForReinstallType DEF OnServiceError
  <1>2. CASE state # "GETTING_VERSION"
    <2> DEFINE rs == <<NextRead>>
    <2>1. /\ toCli' \in Seq(Replied) /\ Rest(Reply) \in Seq(Waiting)
          /\ NextRead \in Wired(account) /\ io_read' \in [Pipe -> Nat]
          /\ UNCHANGED <<account, activated, mode, fd, sigVars, net>>
      BY CtrlReadType DEF OnServiceError
    <2>2. rs \in Seq(Wired(account))
      BY <2>1
    <2>3. /\ pending' \in Seq(Waiting)
          /\ toSrv' \in Seq(Wired(account))
          /\ reqTimeout' \in BOOLEAN
      BY <1>2, <2>1, <2>2, ClientSendType DEF OnServiceError, Send
    <2> QED BY <1>2, <2>1, <2>3 DEF ClientTypeOK, OnServiceError, sigVars, userVars
  <1> QED BY <1>1, <1>2

LEMMA OnUnknownType ==
  ASSUME ClientTypeOK, OnUnknown
  PROVE  ClientTypeOK'
  <1> DEFINE rs == <<NextRead>>
  <1>1. /\ toCli' \in Seq(Replied) /\ Rest(Reply) \in Seq(Waiting)
        /\ NextRead \in Wired(account) /\ io_read' \in [Pipe -> Nat]
        /\ UNCHANGED <<account, activated, mode, fd, sigVars, net>>
    BY CtrlReadType DEF OnUnknown
  <1>2. rs \in Seq(Wired(account))
    BY <1>1
  <1>3. /\ pending' \in Seq(Waiting)
        /\ toSrv' \in Seq(Wired(account))
        /\ reqTimeout' \in BOOLEAN
    BY <1>1, <1>2, ClientSendType DEF OnUnknown, Send
  <1> QED BY <1>1, <1>3 DEF ClientTypeOK, OnUnknown, sigVars, userVars

LEMMA OutputReadType ==
  ASSUME ClientTypeOK, OutputRead
  PROVE  ClientTypeOK'
  <1> DEFINE rs == <<async_read(Reply.pipe, fd[Reply.pipe])>>
  <1>1. /\ toCli' \in Seq(Replied) /\ Rest(Reply) \in Seq(Waiting)
        /\ Reply.pipe \in Pipe /\ Reply.data \in Seq(Message)
    BY ReceiveType DEF OutputRead, Receive
  <1>2. fd[Reply.pipe] \in Nat
    BY <1>1 DEF ClientTypeOK
  <1>3. rs \in Seq(Wired(account)) /\ io_read' \in [Pipe -> Nat]
    BY <1>1, <1>2, OwnRequestType DEF OutputRead
  <1>4. /\ pending' \in Seq(Waiting)
        /\ toSrv' \in Seq(Wired(account))
        /\ reqTimeout' \in BOOLEAN
    BY <1>1, <1>3, ClientSendType DEF OutputRead, Send
  <1>5. shown' \in [{"out", "err"} -> Nat]
    <2>1. Len(Reply.data) \in Nat /\ shown \in [{"out", "err"} -> Nat]
      BY <1>1 DEF ClientTypeOK
    <2>2. \A q \in {"out", "err"} : shown[q] + Len(Reply.data) \in Nat
      BY <2>1
    <2> QED BY <2>1, <2>2 DEF OutputRead
  <1> QED BY <1>1, <1>3, <1>4, <1>5, SMTT(30) DEF ClientTypeOK, OutputRead, stateVars, sigVars

LEMMA WrittenType ==
  ASSUME ClientTypeOK, Written
  PROVE  ClientTypeOK'
  <1>1. toCli' \in Seq(Replied) /\ Rest(Reply) \in Seq(Waiting)
    BY ReceiveType DEF Written
  <1> QED
    BY <1>1 DEF ClientTypeOK, Written, stateVars, ioVars, sigVars, userVars

\* Whatever is left of the pending requests, and whatever the link is now.
LEMMA CloseDoneType ==
  ASSUME ClientTypeOK, NEW p \in Pipe, NEW rest \in Seq(Waiting), CloseDone(p, rest),
         net' \in {"up", "down", "dead"}, toCli' \in Seq(Replied)
  PROVE  ClientTypeOK'
  <1>1. io_read' \in [Pipe -> Nat] /\ io_write' \in [Pipe -> Nat]
    BY DEF ClientTypeOK, CloseDone
  <1> QED BY <1>1 DEF ClientTypeOK, CloseDone, sigVars, userVars

LEMMA ClosedType ==
  ASSUME ClientTypeOK, Closed
  PROVE  ClientTypeOK'
  <1>1. toCli' \in Seq(Replied) /\ Rest(Reply) \in Seq(Waiting) /\ Reply.pipe \in Pipe
    BY ReceiveType DEF Closed
  <1>2. net' \in {"up", "down", "dead"}
    BY DEF Closed, ClientTypeOK
  <1> QED BY <1>1, <1>2, CloseDoneType DEF Closed

LEMMA FailType ==
  ASSUME ClientTypeOK, NEW link, NEW op, NEW p \in Pipe, NEW status,
         NEW rest \in Seq(Waiting), Fail(link, op, p, status, rest),
         net' \in {"up", "down", "dead"}, toCli' \in Seq(Replied)
  PROVE  ClientTypeOK'
  <1>1. io_write' \in [Pipe -> Nat]
    BY DEF ClientTypeOK, Fail
  <1>2. /\ pending' \in Seq(Waiting) /\ toSrv' \in Seq(Wired(account))
        /\ reqTimeout' \in BOOLEAN
        /\ return_code' \in Nat /\ mode' \in {"loop", "install", "reinstall", "exiting"} \union Gone
    <2>1. CASE p = "ctrl"
      BY <2>1 DEF Fail, OnCtrlError, exit_program, ClientTypeOK
    <2>2. CASE p # "ctrl"
      <3>1. OnStdError(link, p, rest)
        BY <2>2 DEF Fail
      <3>2. Undestroyed(p, rest) \in Seq(Waiting) /\ async_close(p) \in Wired(account)
        BY UndestroyedType, OwnRequestType
      <3>3. <<async_close(p)>> \in Seq(Wired(account))
        BY <3>2
      <3>4. /\ pending' \in Seq(Waiting) /\ toSrv' \in Seq(Wired(account))
            /\ reqTimeout' \in BOOLEAN
        BY <3>1, <3>2, <3>3, ClientSendType DEF OnStdError
      <3> QED BY <3>1, <3>4 DEF OnStdError, ClientTypeOK
    <2> QED BY <2>1, <2>2
  <1> QED BY <1>1, <1>2 DEF ClientTypeOK, Fail, sigVars, userVars

LEMMA ErrorReplyType ==
  ASSUME ClientTypeOK, ErrorReply
  PROVE  ClientTypeOK'
  <1>1. toCli' \in Seq(Replied) /\ Rest(Reply) \in Seq(Waiting) /\ Reply.pipe \in Pipe
    BY ReceiveType DEF ErrorReply
  <1>2. net' \in {"up", "down", "dead"}
    BY DEF ErrorReply, ClientTypeOK
  <1> QED BY <1>1, <1>2, FailType DEF ErrorReply

LEMMA RequestTimeoutType ==
  ASSUME ClientTypeOK, RequestTimeout
  PROVE  ClientTypeOK'
  <1>1. PICK i \in DOMAIN pending :
            Fail(net, pending[i].op, pending[i].pipe, "timeout", RemoveAt(pending, i))
    BY DEF RequestTimeout
  <1>2. pending \in Seq(Waiting)
    BY DEF ClientTypeOK
  <1>3. pending[i] \in Waiting /\ RemoveAt(pending, i) \in Seq(Waiting)
    BY <1>2, RemoveAtType
  <1>4. pending[i].pipe \in Pipe
    BY <1>3 DEF Waiting
  <1>5. net' \in {"up", "down", "dead"} /\ toCli' \in Seq(Replied)
    BY DEF RequestTimeout, ClientTypeOK
  <1> QED BY <1>1, <1>3, <1>4, <1>5, FailType

LEMMA TransportDeadType ==
  ASSUME ClientTypeOK, TransportDead
  PROVE  ClientTypeOK'
  <1>1. net' \in {"up", "down", "dead"} /\ toCli' \in Seq(Replied)
    BY DEF TransportDead, ClientTypeOK
  <1>2. CASE pending = <<>>
    BY <1>1, <1>2 DEF TransportDead, ClientTypeOK, stateVars, ioVars, reqVars, sigVars, userVars
  <1>3. CASE pending # <<>>
    <2>1. pending \in Seq(Waiting)
      BY DEF ClientTypeOK
    <2>2. Last(pending) \in Waiting /\ Front(pending) \in Seq(Waiting)
      BY <1>3, <2>1 DEF Last, Front
    <2>3. Last(pending).pipe \in Pipe
      BY <2>2 DEF Waiting
    <2> QED
      BY <1>1, <1>3, <2>2, <2>3, CloseDoneType, FailType DEF TransportDead
  <1> QED BY <1>2, <1>3

LEMMA StdinReadType ==
  ASSUME ClientTypeOK, typed < MaxIn, StdinRead
  PROVE  ClientTypeOK'
  <1> DEFINE rs == <<async_write("in", fd["in"], Input)>>
  <1>1. "in" \in Pipe /\ fd["in"] \in Nat /\ pending \in Seq(Waiting)
    BY DEF Pipe, ClientTypeOK
  <1>2. rs \in Seq(Wired(account)) /\ io_write' \in [Pipe -> Nat]
    BY <1>1, OwnRequestType DEF StdinRead
  <1>3. /\ pending' \in Seq(Waiting) /\ toSrv' \in Seq(Wired(account))
        /\ reqTimeout' \in BOOLEAN
    BY <1>1, <1>2, ClientSendType DEF StdinRead, Send
  <1>4. typed' \in 0..MaxIn
    BY SessionAssumption DEF StdinRead, ClientTypeOK, SessionAssumption
  <1> QED BY <1>2, <1>3, <1>4 DEF ClientTypeOK, StdinRead, stateVars, sigVars

LEMMA TimerType ==
  ASSUME ClientTypeOK, Timer
  PROVE  ClientTypeOK'
  <1> DEFINE rs == <<async_write("ctrl", fd["ctrl"], Abort)>>
  <1>1. "ctrl" \in Pipe /\ fd["ctrl"] \in Nat /\ pending \in Seq(Waiting)
    BY DEF Pipe, ClientTypeOK
  <1>2. rs \in Seq(Wired(account)) /\ io_write' \in [Pipe -> Nat]
    BY <1>1, OwnRequestType DEF Timer
  <1>3. /\ pending' \in Seq(Waiting) /\ toSrv' \in Seq(Wired(account))
        /\ reqTimeout' \in BOOLEAN
    BY <1>1, <1>2, ClientSendType DEF Timer, Send
  <1>4. timers' \in Nat /\ abortSent' \in BOOLEAN
    BY DEF Timer, ClientTypeOK
  <1> QED BY <1>2, <1>3, <1>4 DEF ClientTypeOK, Timer, stateVars, userVars

LEMMA SignalType ==
  ASSUME ClientTypeOK, NEW s, Signal(s)
  PROVE  ClientTypeOK'
  <1>1. abort_requested' \in BOOLEAN /\ caught' \subseteq {"SIGINT", "SIGTERM"}
    BY DEF Signal, ClientTypeOK
  <1> QED BY <1>1 DEF ClientTypeOK, Signal, Gone, ioVars, reqVars, userVars

LEMMA OpenCtrlType ==
  ASSUME ClientTypeOK
  PROVE  async_open("ctrl") \in Wired(account) /\ pending \in Seq(Waiting)
  <1>1. "ctrl" \in Pipe /\ 0 \in Nat
    BY DEF Pipe
  <1>2. async_open("ctrl") \in Wired(account)
    BY <1>1, OwnRequestType
  <1> QED BY <1>2 DEF ClientTypeOK

LEMMA InstalledType ==
  ASSUME ClientTypeOK, NEW ok \in BOOLEAN, Installed(ok)
  PROVE  ClientTypeOK'
  <1> DEFINE rs == <<async_open("ctrl")>>
  <1>0. async_open("ctrl") \in Wired(account) /\ pending \in Seq(Waiting)
    BY OpenCtrlType
  <1>1. rs \in Seq(Wired(account)) /\ pending \in Seq(Waiting)
    BY <1>0
  <1>2. /\ pending' \in Seq(Waiting) /\ toSrv' \in Seq(Wired(account))
        /\ reqTimeout' \in BOOLEAN
    <2>1. CASE ok
      BY <1>1, <2>1, ClientSendType DEF Installed, Send
    <2>2. CASE ~ok
      BY <2>2 DEF Installed, reqVars, ClientTypeOK
    <2> QED BY <2>1, <2>2
  <1>3. /\ activated' \in BOOLEAN /\ return_code' \in Nat
        /\ mode' \in {"loop", "install", "reinstall", "exiting"} \union Gone
    <2>1. CASE ok
      BY <2>1 DEF ClientTypeOK, Installed, exit_program
    <2>2. CASE ~ok
      BY <2>2 DEF ClientTypeOK, Installed, exit_program, reqVars
    <2> QED BY <2>1, <2>2
  <1> QED BY <1>2, <1>3 DEF ClientTypeOK, Installed, ioVars, sigVars, userVars

LEMMA ReinstalledType ==
  ASSUME ClientTypeOK, Reinstalled
  PROVE  ClientTypeOK'
  <1> DEFINE rs == <<async_open("ctrl")>>
  <1>0. async_open("ctrl") \in Wired(account) /\ pending \in Seq(Waiting)
    BY OpenCtrlType
  <1>1. rs \in Seq(Wired(account)) /\ pending \in Seq(Waiting)
    BY <1>0
  <1>2. /\ pending' \in Seq(Waiting) /\ toSrv' \in Seq(Wired(account))
        /\ reqTimeout' \in BOOLEAN
    BY <1>1, ClientSendType DEF Reinstalled, Send
  <1> QED BY <1>2 DEF ClientTypeOK, Reinstalled, ioVars, sigVars, userVars

LEMMA ExitType ==
  ASSUME ClientTypeOK, Exit
  PROVE  ClientTypeOK'
  BY DEF ClientTypeOK, Exit, Gone, ioVars, reqVars, sigVars, userVars

LEMMA CompletionType ==
  ASSUME ClientTypeOK, Completion
  PROVE  ClientTypeOK'
  BY DropReplyType, CtrlOpenedType, StdOpenedType, OnStdIoErrType, OnReturnCodeType,
     OnVersionType, CloseForReinstallType, OnServiceErrorType, OnUnknownType,
     OutputReadType, WrittenType, ClosedType, ErrorReplyType
  DEF Completion, OnBadVersion

----------------------------------------------------------------------------
\* The SMB server keeps its types and the types of what is on the wire, and
\* does to the service what a client of Connection may do.

\* What the client does to the control pipe is to send one of its commands.
Told ==
    \/ c2s'["ctrl"] = c2s["ctrl"]
    \/ \E items \in {GetVersion, Abort, RunCommandOf(account)} :
          c2s'["ctrl"] = c2s["ctrl"] \o items

\* The SMB server closes every pipe of a client that is gone.
Vanish == ClientVanish(srvOpen) /\ UNCHANGED threadVars

\* What holds of the service side of a step.
ServiceStep ==
    \/ svc' = svc /\ ThreadNext
    \/ svc' = svc /\ ProcNext
    \/ svc' = svc /\ AnyClient /\ Told
    \/ svc' = svc /\ Vanish
    \/ svc' = svc /\ UNCHANGED connVars
    \/ \E s \in {"down", "starting", "up"}, v \in Versions : Restart(s, v)
    \/ ServerLoopReady

LEMMA QueryType ==
  ASSUME ClientTypeOK, toSrv # <<>>
  PROVE  /\ Tail(toSrv) \in Seq(Wired(account))
         /\ Query \in Wired(account)
         /\ Query.pipe \in Pipe /\ Query.fnum \in Nat
  <1>1. Tail(toSrv) \in Seq(Wired(account)) /\ Query \in Wired(account)
    BY DEF Query, ClientTypeOK
  <1> QED BY <1>1 DEF Wired

LEMMA AnswersType ==
  ASSUME ClientTypeOK, NEW rs \in Seq(Replied), Answers(rs)
  PROVE  toCli' \in Seq(Replied)
  BY DEF Answers, ClientTypeOK

LEMMA AnswerType ==
  ASSUME NEW op \in ReqOp, NEW p \in Pipe, NEW f \in Nat
  PROVE  /\ \A status \in {"notfound", "invalid", "broken", "cancelled"} :
               status # "notfound" \/ op = "open" => Answer(op, p, f, status, <<>>) \in Replied
         /\ op # "read" => Answer(op, p, f, "ok", <<>>) \in Replied
         /\ \A data \in Seq(Message) :
               data # <<>> => Answer(op, p, f, "ok", data) \in Replied
  BY DEF Answer, Replied

\* A step of the server changes of the client only what is on the wire.
LEMMA WireType ==
  ASSUME ClientTypeOK, toSrv' \in Seq(Wired(account)), toCli' \in Seq(Replied),
         UNCHANGED <<stateVars, ioVars, pending, reqTimeout, sigVars, userVars, net>>
  PROVE  ClientTypeOK'
  BY DEF ClientTypeOK, stateVars, ioVars, sigVars, userVars

LEMMA RefuseType ==
  ASSUME ClientTypeOK, ServerTypeOK, toSrv # <<>>,
         NEW status \in {"notfound", "invalid", "broken", "cancelled"}, Refuse(status),
         status = "notfound" => Query.op = "open"
  PROVE  /\ toCli' \in Seq(Replied)
         /\ UNCHANGED <<pipeVars, srvVars>>
  <1>1. Query.op \in ReqOp /\ Query.pipe \in Pipe /\ Query.fnum \in Nat
    BY QueryType DEF Wired
  <1>2. Answer(Query.op, Query.pipe, Query.fnum, status, <<>>) \in Replied
    BY <1>1, AnswerType
  <1>3. <<Answer(Query.op, Query.pipe, Query.fnum, status, <<>>)>> \in Seq(Replied)
    BY <1>2
  <1> QED BY <1>3, AnswersType DEF Refuse, Result

LEMMA ServeOpenType ==
  ASSUME ClientTypeOK, ServerTypeOK, ServeOpen, UNCHANGED <<threadVars, wrote, launches, reinstalls, svc>>
  PROVE  /\ toCli' \in Seq(Replied) /\ toSrv' \in Seq(Wired(account))
         /\ ServerTypeOK' /\ ServiceStep
  <1>1. /\ toSrv # <<>> /\ toSrv' \in Seq(Wired(account))
        /\ Query.pipe \in Pipe /\ Query.fnum \in Nat
    BY QueryType DEF ServeOpen, Serve
  <1>2. CASE Refuse("notfound")
    <2>1. toCli' \in Seq(Replied) /\ UNCHANGED <<pipeVars, srvVars>>
      BY <1>1, <1>2, RefuseType DEF ServeOpen, Serve
    <2> QED BY <1>1, <2>1 DEF ServerTypeOK, ServiceStep, connVars, srvVars
  <1>3. CASE /\ ClientOpen(Query.pipe)
             /\ srvOpen' = srvOpen \union {Query.pipe}
             /\ srvFnum' = [srvFnum EXCEPT ![Query.pipe] = @ + 1]
             /\ Answers(<<Answer("open", Query.pipe, srvFnum[Query.pipe] + 1, "ok", <<>>)>>)
             /\ UNCHANGED parked
    <2>1. ServerTypeOK'
      BY <1>1, <1>3 DEF ServerTypeOK
    <2>2. ServiceStep
      BY <1>1, <1>3 DEF ServiceStep, AnyClient, ClientOpen, Told
    <2>3. srvFnum[Query.pipe] + 1 \in Nat /\ "open" \in ReqOp
      BY <1>1 DEF ServerTypeOK, ReqOp
    <2>4. Answer("open", Query.pipe, srvFnum[Query.pipe] + 1, "ok", <<>>) \in Replied
      BY <1>1, <2>3, AnswerType
    <2>5. <<Answer("open", Query.pipe, srvFnum[Query.pipe] + 1, "ok", <<>>)>> \in Seq(Replied)
      BY <2>4
    <2>6. toCli' \in Seq(Replied)
      BY <1>3, <2>5, AnswersType
    <2> QED BY <1>1, <2>1, <2>2, <2>6
  <1> QED BY <1>2, <1>3 DEF ServeOpen

LEMMA ControlWritten ==
  ASSUME PipeTypeOK, NEW p \in Pipe, NEW items, ClientWrite(p, items)
  PROVE  c2s'["ctrl"] = IF p = "ctrl" THEN c2s["ctrl"] \o items ELSE c2s["ctrl"]
  BY DEF PipeTypeOK, ClientWrite, Pipe

LEMMA ServeWriteType ==
  ASSUME PipeTypeOK, ClientTypeOK, ServerTypeOK, ServeWrite, UNCHANGED <<threadVars, wrote, launches, reinstalls, svc>>
  PROVE  /\ toCli' \in Seq(Replied) /\ toSrv' \in Seq(Wired(account))
         /\ ServerTypeOK' /\ ServiceStep
  <1>1. /\ toSrv # <<>> /\ toSrv' \in Seq(Wired(account))
        /\ Query.pipe \in Pipe /\ Query.fnum \in Nat /\ Query \in Wired(account)
        /\ Query.op = "write"
    BY QueryType DEF ServeWrite, Serve
  <1>2. CASE Refuse("broken") \/ Refuse("invalid")
    <2>1. toCli' \in Seq(Replied) /\ UNCHANGED <<pipeVars, srvVars>>
      BY <1>1, <1>2, RefuseType
    <2> QED BY <1>1, <2>1 DEF ServerTypeOK, ServiceStep, connVars, srvVars
  <1>3. CASE ClientWrite(Query.pipe, Query.items) /\ Result("ok", <<>>) /\ UNCHANGED srvVars
    <2>1. ServerTypeOK'
      BY <1>3 DEF ServerTypeOK, srvVars
    <2>2. account \in Asked
      BY DEF ClientTypeOK
    <2>3. {GetVersion, Abort, RunCommandOf(account)} \subseteq Writes
      BY <2>2, SessionAssumption DEF SessionAssumption
    <2>4. Input = <<Chunk>>
      BY DEF Input, Chunk, CommandLine
    <2>5. \/ Query.pipe = "ctrl" /\ Query.items \in Writes
          \/ Query.pipe = "in" /\ Query.items = <<Chunk>>
      BY <1>1, <2>3, <2>4 DEF Wired
    <2>6. AnyClient
      BY <1>3, <2>5 DEF AnyClient
    <2>11. Told
      BY <1>1, <1>3, ControlWritten DEF Wired, Told, ClientWrite
    <2>7. ServiceStep
      BY <2>6, <2>11 DEF ServiceStep
    <2>8. Answer(Query.op, Query.pipe, Query.fnum, "ok", <<>>) \in Replied
      BY <1>1, AnswerType DEF ReqOp
    <2>9. <<Answer(Query.op, Query.pipe, Query.fnum, "ok", <<>>)>> \in Seq(Replied)
      BY <2>8
    <2>10. toCli' \in Seq(Replied)
      BY <1>3, <2>9, AnswersType DEF Result
    <2> QED BY <1>1, <2>1, <2>7, <2>10
  <1> QED BY <1>2, <1>3 DEF ServeWrite

LEMMA ServeReadType ==
  ASSUME ClientTypeOK, ServerTypeOK, ServeRead, UNCHANGED <<threadVars, wrote, launches, reinstalls, svc>>
  PROVE  /\ toCli' \in Seq(Replied) /\ toSrv' \in Seq(Wired(account))
         /\ ServerTypeOK' /\ ServiceStep
  <1>1. /\ toSrv # <<>> /\ toSrv' \in Seq(Wired(account))
    BY QueryType DEF ServeRead, Serve
  <1>2. CASE Refuse("invalid")
    <2>1. toCli' \in Seq(Replied) /\ UNCHANGED <<pipeVars, srvVars>>
      BY <1>1, <1>2, RefuseType
    <2> QED BY <1>1, <2>1 DEF ServerTypeOK, ServiceStep, connVars, srvVars
  <1>3. CASE /\ Valid /\ parked' = parked \union {Query.pipe}
             /\ UNCHANGED <<pipeVars, srvOpen, srvFnum, toCli>>
    BY <1>1, <1>3 DEF ServerTypeOK, ServiceStep, connVars, Valid, ClientTypeOK
  <1> QED BY <1>2, <1>3 DEF ServeRead

LEMMA AnswerReadType ==
  ASSUME ConnTypeOK, ClientTypeOK, ServerTypeOK, AnswerRead,
         UNCHANGED <<threadVars, wrote, launches, reinstalls, svc>>
  PROVE  /\ toCli' \in Seq(Replied) /\ toSrv' \in Seq(Wired(account))
         /\ ServerTypeOK' /\ ServiceStep
  <1>1. toSrv' \in Seq(Wired(account))
    BY DEF AnswerRead, ClientTypeOK
  <1>2. PICK p \in parked :
           /\ \/ /\ ClientRead(p)
                 /\ Answers(<<Answer("read", p, srvFnum[p], "ok", s2c[p])>>)
              \/ /\ inst[p] # "conn"
                 /\ Answers(<<Answer("read", p, srvFnum[p], "broken", <<>>)>>)
                 /\ UNCHANGED pipeVars
           /\ parked' = parked \ {p}
    BY DEF AnswerRead
  <1>3. p \in Pipe /\ srvFnum[p] \in Nat /\ "read" \in ReqOp
    BY DEF ServerTypeOK, ReqOp
  <1>4. ServerTypeOK'
    BY <1>2 DEF ServerTypeOK, AnswerRead
  <1>5. CASE ClientRead(p) /\ Answers(<<Answer("read", p, srvFnum[p], "ok", s2c[p])>>)
    <2>1. s2c[p] \in Seq(Message) /\ s2c[p] # <<>>
      BY <1>3, <1>5 DEF ClientRead, ConnTypeOK, PipeTypeOK
    <2>2. Answer("read", p, srvFnum[p], "ok", s2c[p]) \in Replied
      BY <1>3, <2>1, AnswerType
    <2>3. <<Answer("read", p, srvFnum[p], "ok", s2c[p])>> \in Seq(Replied)
      BY <2>2
    <2>4. toCli' \in Seq(Replied)
      BY <1>5, <2>3, AnswersType
    <2> QED BY <1>1, <1>3, <1>4, <1>5, <2>4 DEF ServiceStep, AnyClient, ClientRead, Told
  <1>6. CASE Answers(<<Answer("read", p, srvFnum[p], "broken", <<>>)>>) /\ UNCHANGED pipeVars
    <2>2. Answer("read", p, srvFnum[p], "broken", <<>>) \in Replied
      BY <1>3, AnswerType
    <2>3. <<Answer("read", p, srvFnum[p], "broken", <<>>)>> \in Seq(Replied)
      BY <2>2
    <2>4. toCli' \in Seq(Replied)
      BY <1>6, <2>3, AnswersType
    <2> QED BY <1>1, <1>4, <1>6, <2>4 DEF ServiceStep, connVars
  <1> QED BY <1>2, <1>5, <1>6

LEMMA ServeCloseType ==
  ASSUME ClientTypeOK, ServerTypeOK, ServeClose, UNCHANGED <<threadVars, wrote, launches, reinstalls, svc>>
  PROVE  /\ toCli' \in Seq(Replied) /\ toSrv' \in Seq(Wired(account))
         /\ ServerTypeOK' /\ ServiceStep
  <1>1. /\ toSrv # <<>> /\ toSrv' \in Seq(Wired(account))
        /\ Query.pipe \in Pipe /\ Query.fnum \in Nat
    BY QueryType DEF ServeClose, Serve
  <1>2. CASE Refuse("invalid")
    <2>1. toCli' \in Seq(Replied) /\ UNCHANGED <<pipeVars, srvVars>>
      BY <1>1, <1>2, RefuseType
    <2> QED BY <1>1, <2>1 DEF ServerTypeOK, ServiceStep, connVars, srvVars
  <1>3. CASE Valid
    <2> DEFINE cancelled == Answer("read", Query.pipe, Query.fnum, "cancelled", <<>>)
               closed == Answer("close", Query.pipe, Query.fnum, "ok", <<>>)
    <2>1. cancelled \in Replied /\ closed \in Replied
      BY <1>1, AnswerType DEF ReqOp
    <2> HIDE DEF cancelled, closed
    <2>2. (IF Query.pipe \in parked THEN <<cancelled>> ELSE <<>>) \o <<closed>> \in Seq(Replied)
      BY <2>1
    <2>3. ~Refuse("invalid") => toCli' \in Seq(Replied)
      BY <1>3, <2>2, AnswersType DEF ServeClose, cancelled, closed
    <2>4. ServerTypeOK'
      BY <1>3 DEF ServerTypeOK, ServeClose
    <2>5. ServiceStep
      BY <1>1, <1>3 DEF ServeClose, ServiceStep, AnyClient, ClientClose, Told, connVars
    <2> QED BY <1>1, <1>2, <2>3, <2>4, <2>5
  <1> QED BY <1>2, <1>3 DEF ServeClose

LEMMA HangupType ==
  ASSUME ClientTypeOK, ServerTypeOK, Hangup, UNCHANGED <<threadVars, wrote, launches, reinstalls, svc>>
  PROVE  /\ toCli' \in Seq(Replied) /\ toSrv' \in Seq(Wired(account))
         /\ ServerTypeOK' /\ ServiceStep
  BY DEF Hangup, ClientTypeOK, ServerTypeOK, ServiceStep, Vanish

LEMMA ServerNextType ==
  ASSUME SessTypeOK, ServerNext
  PROVE  ClientTypeOK' /\ ServerTypeOK' /\ ServiceStep
  <1>1. UNCHANGED <<threadVars, wrote, launches, reinstalls, svc>>
    BY DEF ServerNext, histVars
  <1>2. /\ toCli' \in Seq(Replied) /\ toSrv' \in Seq(Wired(account))
        /\ ServerTypeOK' /\ ServiceStep
    BY <1>1, ServeOpenType, ServeWriteType, ServeReadType, AnswerReadType, ServeCloseType,
       HangupType DEF ServerNext, SessTypeOK, ConnTypeOK
  <1> QED BY <1>2, WireType DEF ServerNext, SessTypeOK

----------------------------------------------------------------------------
\* A step of the whole run: the types of the client and of the server, and
\* what it is for the service.

LEMMA NetFailType ==
  ASSUME ClientTypeOK, NetFail
  PROVE  ClientTypeOK'
  <1>1. <<>> \in Seq(Wired(account)) /\ <<>> \in Seq(Replied)
    OBVIOUS
  <1>2. toSrv' \in Seq(Wired(account)) /\ toCli' \in Seq(Replied)
    BY <1>1, Zenon DEF NetFail, ClientTypeOK
  <1> QED BY <1>2 DEF NetFail, ClientTypeOK, stateVars, ioVars, sigVars, userVars

LEMMA SameClient ==
  ASSUME ClientTypeOK, UNCHANGED clientVars
  PROVE  ClientTypeOK'
  BY DEF ClientTypeOK, clientVars, stateVars, ioVars, reqVars, sigVars, userVars

LEMMA SameServer ==
  ASSUME ServerTypeOK, UNCHANGED <<svc, srvVars, histVars>>
  PROVE  ServerTypeOK'
  BY DEF ServerTypeOK, srvVars, histVars

\* The steps of the client alone.
LEMMA ClientStepType ==
  ASSUME SessTypeOK,
         \/ CompletionStep \/ TimeoutStep \/ DeadStep \/ StdinStep
         \/ TimerStep \/ SignalStep \/ ExitStep
  PROVE  ClientTypeOK' /\ ServerTypeOK' /\ ServiceStep
  <1>1. UNCHANGED Remote
    BY DEF CompletionStep, TimeoutStep, DeadStep, StdinStep, TimerStep, SignalStep, ExitStep
  <1>2. ServerTypeOK' /\ ServiceStep
    BY <1>1, SameServer DEF Remote, ServiceStep, SessTypeOK
  <1>3. ClientTypeOK'
    BY CompletionType, RequestTimeoutType, TransportDeadType, StdinReadType, TimerType,
       SignalType, ExitType
    DEF CompletionStep, TimeoutStep, DeadStep, StdinStep, TimerStep, SignalStep, ExitStep,
        SessTypeOK
  <1> QED BY <1>2, <1>3

\* The steps of the thread and of the process.
LEMMA RemoteStepType ==
  ASSUME SessTypeOK, ThreadStep \/ ProcWriteStep \/ ProcReadStep \/ ProcExitStep
  PROVE  ClientTypeOK' /\ ServerTypeOK' /\ ServiceStep
  <1>1. ClientTypeOK'
    BY SameClient DEF SessTypeOK, ThreadStep, ProcWriteStep, ProcReadStep, ProcExitStep
  <1>2. ASSUME ThreadStep PROVE ServerTypeOK' /\ ServiceStep
    BY <1>2 DEF ThreadStep, ServerTypeOK, ServiceStep, SessTypeOK, srvVars
  <1>3. ASSUME ProcWriteStep PROVE ServerTypeOK' /\ ServiceStep
    <2>1. PICK p \in {"out", "err"} :
             wrote[p] < MaxOut /\ ProcWrite(p) /\ wrote' = [wrote EXCEPT ![p] = @ + 1]
      BY <1>3 DEF ProcWriteStep
    <2>2. wrote' \in [{"out", "err"} -> 0..MaxOut]
      BY <2>1, SessionAssumption DEF SessTypeOK, ServerTypeOK, SessionAssumption
    <2> QED BY <1>3, <2>1, <2>2 DEF ProcWriteStep, ServerTypeOK, SessTypeOK, ServiceStep, ProcNext, srvVars
  <1>4. ASSUME ProcReadStep PROVE ServerTypeOK' /\ ServiceStep
    BY <1>4, SameServer DEF ProcReadStep, SessTypeOK, ServiceStep, ProcNext
  <1>5. ASSUME ProcExitStep PROVE ServerTypeOK' /\ ServiceStep
    BY <1>5, SameServer DEF ProcExitStep, SessTypeOK, ServiceStep, ProcNext
  <1> QED BY <1>1, <1>2, <1>3, <1>4, <1>5

\* The installations, and the service that gets its pipe.
LEMMA InstallStepType ==
  ASSUME SessTypeOK, InstallStep \/ ServerLoopReady
  PROVE  ClientTypeOK' /\ ServerTypeOK' /\ ServiceStep
  <1>1. ClientTypeOK /\ ServerTypeOK /\ ver \in Versions /\ VERSION \in Versions
    BY SessionAssumption DEF SessTypeOK, ConnTypeOK, ThreadTypeOK, SessionAssumption
  <1>2. Starting \subseteq {"down", "starting", "up"}
    BY DEF Starting
  <1>3. ASSUME InstallOk PROVE ClientTypeOK' /\ ServerTypeOK' /\ ServiceStep
    <2>1. ClientTypeOK'
      BY <1>1, <1>3, InstalledType DEF InstallOk
    <2>2. CASE svc # "down" /\ UNCHANGED <<connVars, svc>>
      BY <1>1, <1>3, <2>1, <2>2, SameServer DEF InstallOk, ServiceStep
    <2>3. ASSUME NEW s \in Starting, NEW v \in Versions, Restart(s, v)
          PROVE  ServerTypeOK' /\ ServiceStep
      BY <1>1, <1>2, <1>3, <2>3 DEF InstallOk, ServiceStep, ServerTypeOK, Restart, srvVars, histVars
    <2> QED BY <1>3, <2>1, <2>2, <2>3 DEF InstallOk
  <1>4. ASSUME InstallFails PROVE ClientTypeOK' /\ ServerTypeOK' /\ ServiceStep
    BY <1>1, <1>4, InstalledType, SameServer DEF InstallFails, ServiceStep
  <1>5. ASSUME ReinstallOk PROVE ClientTypeOK' /\ ServerTypeOK' /\ ServiceStep
    <2>1. ClientTypeOK'
      BY <1>1, <1>5, ReinstalledType DEF ReinstallOk
    <2>2. PICK s \in Starting : Restart(s, VERSION)
      BY <1>5 DEF ReinstallOk
    <2> QED
      BY <1>1, <1>2, <1>5, <2>1, <2>2
      DEF ReinstallOk, ServiceStep, ServerTypeOK, Restart, srvVars, histVars
  <1>6. ASSUME ReinstallFails PROVE ClientTypeOK' /\ ServerTypeOK' /\ ServiceStep
    <2>1. ClientTypeOK'
      BY <1>1, <1>6, ReinstalledType DEF ReinstallFails
    <2>2. PICK s \in {"up", "down"} : Restart(s, ver)
      BY <1>6 DEF ReinstallFails
    <2>3. reinstalls' \in 0..MaxReinstall
      BY <1>1, <1>6, SessionAssumption DEF ReinstallFails, ServerTypeOK, SessionAssumption
    <2> QED
      BY <1>1, <1>6, <2>1, <2>2, <2>3
      DEF ReinstallFails, ServiceStep, ServerTypeOK, Restart, srvVars
  <1>7. ASSUME ServerLoopReady PROVE ClientTypeOK' /\ ServerTypeOK' /\ ServiceStep
    <2>1. ClientTypeOK'
      BY <1>1, <1>7, SameClient DEF ServerLoopReady
    <2> QED
      BY <1>1, <1>7, <2>1 DEF ServerLoopReady, ServiceStep, ServerTypeOK, srvVars, histVars
  <1> QED BY <1>3, <1>4, <1>5, <1>6, <1>7 DEF InstallStep

LEMMA SessNextType ==
  ASSUME SessTypeOK, [SessNext]_sessVars
  PROVE  ClientTypeOK' /\ ServerTypeOK' /\ ServiceStep
  <1>1. CASE NetFail
    <2>1. UNCHANGED connVars /\ UNCHANGED <<svc, srvVars, histVars>>
      BY <1>1 DEF NetFail
    <2> QED BY <1>1, <2>1, NetFailType, SameServer DEF SessTypeOK, ServiceStep
  <1>2. CASE UNCHANGED sessVars
    <2>1. UNCHANGED connVars /\ UNCHANGED clientVars /\ UNCHANGED <<svc, srvVars, histVars>>
      BY <1>2 DEF sessVars
    <2> QED BY <2>1, SameClient, SameServer DEF SessTypeOK, ServiceStep
  <1> QED
    BY <1>1, <1>2, ServerNextType, ClientStepType, RemoteStepType, InstallStepType DEF SessNext

----------------------------------------------------------------------------
\* The service keeps what it promises to any client.

\* A new process is what a service is before it has served anybody.
LEMMA RestartInv ==
  ASSUME PipeTypeOK, ConnInv, NEW s, NEW v \in Versions, Restart(s, v)
  PROVE  ConnTypeOK' /\ ServiceInv'
  <1>1. PipeTypeOK'
    <2>1. inst' \in [Pipe -> InstState]
      BY DEF Restart, NewPipes, InstState
    <2>2. [p \in Pipe |-> <<>>] \in [Pipe -> Seq(Line \union {Chunk})]
      OBVIOUS
    <2>3. [p \in Pipe |-> <<>>] \in [Pipe -> Seq(Message)]
      OBVIOUS
    <2> QED BY <2>1, <2>2, <2>3 DEF Restart, PipeTypeOK
  <1>2. ThreadTypeOK'
    BY DEF Restart, ThreadTypeOK, PC, Accounts
  <1>3. ConnInv'
    BY DEF Restart, NewPipes, ConnInv, Loc, ReleaseLabels, BeforeSpawn, Pipe
  <1>4. OwnInv'
    BY DEF Restart, OwnInv, Loc, BeforeSpawn
  <1>5. FreshInv'
    BY DEF Restart, FreshInv, NewPipes
  <1> QED BY <1>1, <1>2, <1>3, <1>4, <1>5 DEF ConnTypeOK, ServiceInv

\* The control pipe of a service nobody has used so far.
LEMMA ReadyInv ==
  ASSUME ConnTypeOK, ServiceInv, ServerLoopReady
  PROVE  ConnTypeOK' /\ ServiceInv'
  <1>1. UNCHANGED <<c2s, s2c, discarded, threadVars>> /\ svc' = "up" /\ inst' = NewPipes(TRUE)
    BY DEF ServerLoopReady
  <1>2. inst' \in [Pipe -> InstState]
    BY <1>1 DEF NewPipes, InstState
  <1>3. ConnTypeOK'
    BY <1>1, <1>2 DEF ConnTypeOK, PipeTypeOK, ThreadTypeOK, threadVars
  <1>4. s2c = [p \in Pipe |-> <<>>]
    BY DEF ServerLoopReady, ServiceInv, FreshInv
  <1>5. ConnInv'
    BY <1>1, <1>4 DEF ServiceInv, ConnInv, Loc, threadVars, Pipe
  <1>6. OwnInv'
    BY <1>1 DEF ServiceInv, OwnInv, Loc, AccountAsked, threadVars
  <1>7. FreshInv'
    BY <1>1 DEF FreshInv
  <1> QED BY <1>3, <1>5, <1>6, <1>7 DEF ServiceInv

\* The SMB server closes what a client that is gone had open.
LEMMA VanishInv ==
  ASSUME ConnTypeOK, ConnInv, OwnInv, Vanish
  PROVE  ConnTypeOK' /\ ConnInv' /\ OwnInv'
  <1>1. UNCHANGED threadVars /\ ClientVanish(srvOpen)
    BY DEF Vanish
  <1>2. inst' \in [Pipe -> InstState] /\ s2c' \in [Pipe -> Seq(Message)]
    BY <1>1 DEF ClientVanish, ConnTypeOK, PipeTypeOK, InstState
  <1>3. ConnTypeOK'
    BY <1>1, <1>2 DEF ClientVanish, ConnTypeOK, PipeTypeOK, ThreadTypeOK, threadVars
  <1>4. \A p \in Pipe : s2c'[p] = <<>> \/ (s2c'[p] = s2c[p] /\ inst'[p] = inst[p])
    BY <1>1 DEF ClientVanish
  <1>5. ConnInv'
    BY <1>1, <1>4
    DEF ClientVanish, ConnInv, Loc, ReleaseLabels, BeforeSpawn, threadVars, Pipe
  <1>6. OwnInv'
    BY <1>1 DEF OwnInv, Loc, AccountAsked, threadVars
  <1> QED BY <1>3, <1>5, <1>6

\* Nobody does anything to a service before it has a control pipe.
LEMMA FreshStep ==
  ASSUME FreshInv, svc' = svc, svc # "up",
         ThreadNext \/ ProcNext \/ AnyClient \/ Vanish \/ UNCHANGED connVars
  PROVE  FreshInv'
  <1>1. /\ inst = NewPipes(FALSE) /\ c2s = [p \in Pipe |-> <<>>] /\ s2c = [p \in Pipe |-> <<>>]
        /\ pc = "idle" /\ handles = {} /\ token = "none" /\ proc = "none"
    BY DEF FreshInv
  <1>2. \A p \in Pipe : inst[p] = "none" /\ c2s[p] = <<>> /\ s2c[p] = <<>>
    BY <1>1 DEF NewPipes
  <1>3. CASE ThreadNext
    <2>1. Accept \/ AcceptFails \/ AcceptUnserved
      BY <1>1, <1>3
      DEF ThreadNext, HprintfReturn, HgetsFails, Unknown, cmd_get, cmd_set, cmd_run, NextLine,
          TokenLogon, TokenOpenProcess, TokenImpersonate, TokenDuplicate, TokenCloseTmp,
          TokenRevert, MakePipes, MakePipe, SendStdIoErr, ConnectPipes, ConnectPipe, Spawn,
          Watch, WaitControl, WaitProcess, FlushOut, FlushErr, SendReturnCode, Release,
          DisconnectPipe, ClosePipe, CloseToken, Finish
    <2> QED BY <1>2, <2>1 DEF Accept, AcceptFails, AcceptUnserved, Pipe
  <1>4. CASE ProcNext
    BY <1>1, <1>4 DEF ProcNext, ProcWrite, ProcRead, ProcExit
  <1>5. CASE AnyClient
    BY <1>2, <1>5 DEF AnyClient, ClientOpen, ClientRead, ClientClose, ClientWrite, Pipe
  <1>6. CASE Vanish
    <2>1. inst' = inst /\ s2c' = s2c
      BY <1>1, <1>2, <1>6 DEF Vanish, ClientVanish, NewPipes
    <2> QED BY <1>6, <2>1 DEF Vanish, ClientVanish, FreshInv, threadVars
  <1>7. CASE UNCHANGED connVars
    BY <1>7 DEF FreshInv, connVars, pipeVars, threadVars
  <1> QED BY <1>3, <1>4, <1>5, <1>6, <1>7

LEMMA ServiceStepInv ==
  ASSUME ConnTypeOK, ServiceInv, ServiceStep
  PROVE  ConnTypeOK' /\ ServiceInv'
  <1>0. ConnInv /\ OwnInv /\ FreshInv /\ PipeTypeOK /\ ThreadTypeOK
    BY DEF ServiceInv, ConnTypeOK
  <1>1. CASE \E s \in {"down", "starting", "up"}, v \in Versions : Restart(s, v)
    BY <1>0, <1>1, RestartInv
  <1>2. CASE ServerLoopReady
    BY <1>2, ReadyInv
  <1>3. CASE /\ svc' = svc
             /\ ThreadNext \/ ProcNext \/ AnyClient \/ Vanish \/ UNCHANGED connVars
    <2>1. FreshInv'
      <3>1. CASE svc # "up"
        BY <1>0, <1>3, <3>1, FreshStep
      <3>2. CASE svc = "up"
        BY <1>3, <3>2 DEF FreshInv
      <3> QED BY <3>1, <3>2
    <2>2. ConnTypeOK' /\ ConnInv' /\ OwnInv'
      <3>1. CASE ThreadNext
        BY <1>0, <3>1, ThreadType, ThreadInv, ThreadOwn
      <3>2. CASE ProcNext
        BY <1>0, <3>2, ProcType, ProcInv, OthersOwn
      <3>3. CASE AnyClient
        BY <1>0, <3>3, ClientType, ClientInv, OthersOwn
      <3>4. CASE Vanish
        BY <1>0, <3>4, VanishInv
      <3>5. CASE UNCHANGED connVars
        BY <1>0, <3>5
        DEF ConnTypeOK, PipeTypeOK, ThreadTypeOK, ConnInv, OwnInv, Loc, ReleaseLabels, BeforeSpawn,
            AccountAsked, connVars, pipeVars, threadVars
      <3> QED BY <1>3, <3>1, <3>2, <3>3, <3>4, <3>5
    <2> QED BY <2>1, <2>2 DEF ServiceInv
  <1> QED BY <1>1, <1>2, <1>3 DEF ServiceStep

----------------------------------------------------------------------------
\* A run begins well typed, with a service that has not begun to serve.

LEMMA InitSess == SessInit => SessTypeOK /\ ServiceInv
  <1> SUFFICES ASSUME SessInit PROVE SessTypeOK /\ ServiceInv
    OBVIOUS
  <1>1. PipeTypeOK
    <2>1. inst \in [Pipe -> InstState]
      BY DEF SessInit, NewPipes, InstState
    <2>2. [p \in Pipe |-> <<>>] \in [Pipe -> Seq(Line \union {Chunk})]
      OBVIOUS
    <2>3. [p \in Pipe |-> <<>>] \in [Pipe -> Seq(Message)]
      OBVIOUS
    <2> QED BY <2>1, <2>2, <2>3 DEF SessInit, ThreadInit, PipeTypeOK
  <1>2. ThreadTypeOK
    BY DEF SessInit, ThreadInit, ThreadTypeOK, PC, Accounts
  <1>3. ServerTypeOK
    BY SessionAssumption DEF SessInit, ServerTypeOK, Starting, SessionAssumption
  <1>4. ClientTypeOK
    <2>1. async_open("ctrl") \in Wired(account)
      BY RequestType DEF async_open, Pipe
    <2>2. <<async_open("ctrl")>> \in Seq(Wired(account)) /\ <<>> \in Seq(Replied)
      BY <2>1
    <2>3. [op |-> "open", pipe |-> "ctrl", fnum |-> 0, timed |-> TRUE] \in Waiting
      BY DEF Waiting, ReqOp, Pipe
    <2>4. <<[op |-> "open", pipe |-> "ctrl", fnum |-> 0, timed |-> TRUE]>> \in Seq(Waiting)
      BY <2>3
    <2>5. typed \in 0..MaxIn
      BY SessionAssumption DEF SessInit, ClientInit, SessionAssumption
    <2>6. /\ fd \in [Pipe -> Nat] /\ io_read \in [Pipe -> Nat] /\ io_write \in [Pipe -> Nat]
          /\ shown \in [{"out", "err"} -> Nat]
      BY DEF SessInit, ClientInit, PipeName, Pipe
    <2> QED
      BY <2>2, <2>4, <2>5, <2>6 DEF SessInit, ClientInit, ClientTypeOK, InitialCode
  <1>5. ConnInv
    BY DEF SessInit, ThreadInit, NewPipes, ConnInv, Loc, ReleaseLabels, BeforeSpawn, Pipe
  <1>6. OwnInv
    BY DEF SessInit, ThreadInit, OwnInv, Loc, BeforeSpawn
  <1>7. FreshInv
    BY DEF SessInit, ThreadInit, FreshInv, NewPipes
  <1> QED BY <1>1, <1>2, <1>3, <1>4, <1>5, <1>6, <1>7 DEF SessTypeOK, ConnTypeOK, ServiceInv

LEMMA SessStep ==
  ASSUME SessTypeOK, ServiceInv, [SessNext]_sessVars
  PROVE  SessTypeOK' /\ ServiceInv'
  <1>1. ClientTypeOK' /\ ServerTypeOK' /\ ServiceStep
    BY SessNextType
  <1>2. ConnTypeOK' /\ ServiceInv'
    BY <1>1, ServiceStepInv DEF SessTypeOK
  <1> QED BY <1>1, <1>2 DEF SessTypeOK

LEMMA SessInv == SessSpec => [](SessTypeOK /\ ServiceInv)
  <1>1. (SessTypeOK /\ ServiceInv) /\ [SessNext]_sessVars => (SessTypeOK /\ ServiceInv)'
    BY SessStep
  <1> QED BY InitSess, <1>1, PTL DEF SessSpec

\* Every request, reply and message of a run is of one of the kinds that the
\* callbacks and the threads know: in particular a read that succeeds returns
\* something, so that on_ctrl_pipe_read always has a first message.
THEOREM SessTypeCorrect == SessSpec => []SessTypeOK
  BY SessInv, PTL

\* What Connection promises to any client holds of the client there is: its
\* invariants survive the disconnection of everything and the replacement of
\* the service under the feet of the client.
THEOREM ServiceInvCorrect == SessSpec => [](ConnInv /\ OwnInv)
  <1>1. ServiceInv => ConnInv /\ OwnInv
    BY DEF ServiceInv
  <1> QED BY SessInv, <1>1, PTL

----------------------------------------------------------------------------
\* Whom the process runs for.

LEMMA OrderlyTail ==
  ASSUME NEW S, NEW q \in Seq(S), q # <<>>, NEW a, NEW s, NEW t, Orderly(q, a, s),
         s \subseteq t, Head(q).verb = "set" => a \in t
  PROVE  Orderly(Tail(q), a, t)
  <1> SUFFICES ASSUME NEW i \in DOMAIN Tail(q)
               PROVE  /\ Tail(q)[i].verb = "set" => Tail(q)[i].arg = a
                      /\ Tail(q)[i].verb = "run" =>
                            \/ a = "client" \/ a \in t
                            \/ i > 1 /\ Tail(q)[i - 1].verb = "set"
    BY DEF Orderly
  <1>1. /\ i \in 1..(Len(q) - 1) /\ i + 1 \in DOMAIN q
        /\ Tail(q)[i] = q[i + 1]
        /\ i > 1 => Tail(q)[i - 1] = q[i]
        /\ Head(q) = q[1]
    OBVIOUS
  <1>2. /\ q[i + 1].verb = "set" => q[i + 1].arg = a
        /\ q[i + 1].verb = "run" => a = "client" \/ a \in s \/ q[(i + 1) - 1].verb = "set"
    BY <1>1 DEF Orderly
  <1>3. (i + 1) - 1 = i /\ (i > 1 \/ i = 1)
    BY <1>1
  <1> QED BY <1>1, <1>2, <1>3

\* A thread that has read everything but "run" runs for the right account.
LEMMA OrderlyHead ==
  ASSUME NEW S, NEW q \in Seq(S), q # <<>>, NEW a, NEW s, Orderly(q, a, s)
  PROVE  /\ Head(q).verb = "set" => Head(q).arg = a
         /\ Head(q).verb = "run" => a = "client" \/ a \in s
  <1>1. 1 \in DOMAIN q /\ Head(q) = q[1] /\ ~(1 > 1)
    OBVIOUS
  <1> QED BY <1>1 DEF Orderly

LEMMA OrderlyMore ==
  ASSUME NEW S, NEW q \in Seq(S), NEW a \in {"runas", "system", "client"}, NEW s,
         Orderly(q, a, s), NEW items \in {GetVersion, Abort, RunCommandOf(a)}
  PROVE  Orderly(q \o items, a, s)
  <1>1. /\ \A j \in 1..Len(items) : items[j].verb = "set" => items[j].arg = a
        /\ \A j \in 1..Len(items) : items[j].verb = "run" =>
              \/ a = "client"
              \/ j = 2 /\ items[1].verb = "set"
        /\ Len(items) \in 1..2
        /\ items \in Seq({items[j] : j \in 1..Len(items)})
    BY DEF GetVersion, Abort, RunCommandOf, CommandLine
  <1>2. /\ DOMAIN (q \o items) = 1..(Len(q) + Len(items)) /\ Len(q) \in Nat
        /\ \A i \in 1..Len(q) : (q \o items)[i] = q[i]
        /\ \A j \in 1..Len(items) : (q \o items)[Len(q) + j] = items[j]
    BY <1>1
  <1> SUFFICES ASSUME NEW i \in DOMAIN (q \o items)
               PROVE  /\ (q \o items)[i].verb = "set" => (q \o items)[i].arg = a
                      /\ (q \o items)[i].verb = "run" =>
                            \/ a = "client" \/ a \in s
                            \/ i > 1 /\ (q \o items)[i - 1].verb = "set"
    BY DEF Orderly
  <1>3. CASE i \in 1..Len(q)
    <2>1. /\ q[i].verb = "set" => q[i].arg = a
          /\ q[i].verb = "run" => a = "client" \/ a \in s \/ (i > 1 /\ q[i - 1].verb = "set")
      BY <1>3 DEF Orderly
    <2>2. i > 1 => i - 1 \in 1..Len(q)
      BY <1>2, <1>3
    <2> QED BY <1>2, <1>3, <2>1, <2>2
  <1>4. CASE i \notin 1..Len(q)
    <2>1. PICK j \in 1..Len(items) : i = Len(q) + j
      <3>1. i - Len(q) \in 1..Len(items) /\ i = Len(q) + (i - Len(q))
        BY <1>1, <1>2, <1>4
      <3> QED BY <3>1
    <2>2. (q \o items)[i] = items[j]
      BY <1>2, <2>1
    <2>3. j = 2 => i > 1 /\ i - 1 = Len(q) + 1 /\ 1 \in 1..Len(items)
      BY <1>1, <1>2, <2>1
    <2>4. j = 2 => (q \o items)[i - 1] = items[1]
      BY <1>2, <2>3
    <2> QED BY <1>1, <2>2, <2>3, <2>4
  <1> QED BY <1>3, <1>4

\* Every step of the thread keeps to the account.
LEMMA ThreadAccount ==
  ASSUME PipeTypeOK, ThreadTypeOK, ConnInv, OwnInv, AccountInv,
         account \in {"runas", "system", "client"}, account' = account, ThreadNext
  PROVE  AccountInv'
  <1> DEFINE q == c2s["ctrl"]
  <1>1. /\ cont # "flush"
        /\ Loc \in BeforeSpawn => proc = "none"
        /\ c2s \in [Pipe -> Seq(Line \union {Chunk})] /\ "ctrl" \in Pipe
        /\ q \in Seq(Line \union {Chunk})
    BY DEF ConnInv, PipeTypeOK, Pipe
  <1>2. ASSUME Loc \in {"idle", "hgets"}, q # <<>>
        PROVE  /\ Orderly(q, account, settings)
               /\ Head(q).verb = "set" => Head(q).arg = account
               /\ Head(q).verb = "run" => account = "client" \/ account \in settings
               /\ \A t : settings \subseteq t /\ (Head(q).verb = "set" => account \in t) =>
                       Orderly(Tail(q), account, t)
    <2>1. Orderly(q, account, settings)
      BY <1>2 DEF AccountInv
    <2> QED BY <1>1, <1>2, <2>1, OrderlyHead, OrderlyTail
  <1>3. settings \subseteq (IF account = "client" THEN {} ELSE {account})
    BY DEF AccountInv
  <1>4. account = "client" \/ account \in settings => AccountAsked = account
    BY <1>3 DEF AccountAsked
  <1>7. Loc \in {"idle", "hgets"} => proc = "none"
    BY <1>1 DEF BeforeSpawn
  <1>11. CASE HprintfReturn
    BY <1>1, <1>11 DEF HprintfReturn, Goto, pipeVars, AccountInv, Loc, AccountAsked
  <1>12. CASE Accept
    BY <1>1, <1>12 DEF Accept, pipeVars, AccountInv, Loc, AccountAsked
  <1>13. CASE AcceptFails
    BY <1>1, <1>13 DEF AcceptFails, Goto, AccountInv, Loc, AccountAsked
  <1>14. CASE HgetsFails
    BY <1>7, <1>14 DEF HgetsFails, NextLine, Goto, AccountInv, Loc, AccountAsked
  <1>15. CASE Unknown
    <2>1. /\ pc = "hgets" /\ q # <<>> /\ Head(q).verb # "set"
          /\ c2s'["ctrl"] = Tail(q) /\ pc' = "flush" /\ cont' = "hgets"
          /\ settings' = settings /\ proc' = proc
      BY <1>1, <1>15 DEF Unknown, NextLine, ReadAndReply, context
    <2> QED BY <1>2, <2>1 DEF Loc, AccountInv, AccountAsked
  <1>16. CASE cmd_get
    <2>1. /\ pc = "hgets" /\ q # <<>> /\ Head(q).verb # "set"
          /\ settings' = settings /\ proc' = proc
          /\ \/ pc' = "flush" /\ cont' = "hgets" /\ c2s'["ctrl"] = Tail(q)
             \/ pc' = "finish"
             \/ pc' = "flush" /\ cont' = "finish"
      BY <1>1, <1>16 DEF cmd_get, NextLine, ReadAndReply, ReadFile, Goto, context
    <2> QED BY <1>2, <2>1 DEF Loc, AccountInv, AccountAsked
  <1>17. CASE cmd_set
    <2>1. /\ pc = "hgets" /\ q # <<>> /\ Head(q).verb = "set"
          /\ proc' = proc
          /\ \/ /\ Arg \in {"system", "nosystem", "implevel", "runas"}
                /\ c2s'["ctrl"] = Tail(q) /\ pc' = "hgets"
                /\ settings' = IF Arg = "nosystem" THEN settings \ {"system"}
                                                   ELSE settings \union {Arg}
             \/ pc' = "finish" /\ settings' = settings
             \/ pc' = "flush" /\ cont' = "finish" /\ settings' = settings
      BY <1>1, <1>17 DEF cmd_set, NextLine, ReadAndReply, ReadFile, Goto, context
    <2>2. Loc = "hgets" /\ Head(q).arg = account /\ Arg = Head(q).arg /\ proc = "none"
      BY <1>1, <1>2, <2>1 DEF Loc, Arg, BeforeSpawn
    <2>3. CASE Arg \in {"system", "nosystem", "implevel", "runas"} /\ pc' = "hgets"
      <3>1. account # "client" /\ account # "nosystem" /\ pc' # "finish" /\ pc' # "flush"
        BY <2>2, <2>3
      <3>2. settings' = settings \union {account} /\ c2s'["ctrl"] = Tail(q)
        BY <2>1, <2>2, <3>1
      <3>3. Orderly(Tail(q), account, settings \union {account})
        BY <1>2, <2>1, <2>2
      <3> QED BY <1>3, <2>1, <2>2, <2>3, <3>1, <3>2, <3>3 DEF Loc, AccountInv
    <2>4. CASE pc' # "hgets"
      BY <1>3, <2>1, <2>2, <2>4 DEF Loc, AccountInv
    <2> QED BY <2>1, <2>3, <2>4
  <1>18. CASE cmd_run
    <2>1. /\ pc = "hgets" /\ q # <<>> /\ Head(q).verb = "run"
          /\ settings' = settings /\ proc' = proc /\ pc' \in {"finish", "token"}
      BY <1>18 DEF cmd_run, NextLine, Goto
    <2>2. Loc = "hgets" /\ AccountAsked = account
      BY <1>2, <1>4, <2>1 DEF Loc
    <2> QED BY <2>1, <2>2 DEF Loc, AccountInv, AccountAsked
  <1>19. CASE TokenLogon
    BY <1>1, <1>19 DEF TokenLogon, Fails, hprintf, context, AccountInv, Loc, AccountAsked
  <1>20. CASE TokenOpenProcess
    BY <1>1, <1>20 DEF TokenOpenProcess, Fails, hprintf, context, AccountInv, Loc, AccountAsked
  <1>21. CASE TokenImpersonate
    BY <1>1, <1>21 DEF TokenImpersonate, Fails, hprintf, context, AccountInv, Loc, AccountAsked
  <1>22. CASE TokenDuplicate
    BY <1>1, <1>22 DEF TokenDuplicate, Fails, hprintf, context, AccountInv, Loc, AccountAsked
  <1>23. CASE TokenCloseTmp
    BY <1>1, <1>23 DEF TokenCloseTmp, AccountInv, Loc, AccountAsked
  <1>24. CASE TokenRevert
    BY <1>1, <1>24 DEF TokenRevert, Fails, hprintf, context, AccountInv, Loc, AccountAsked
  <1>25. CASE MakePipes
    BY <1>1, <1>25 DEF MakePipes, MakePipe, Fails, hprintf, context, AccountInv, Loc, AccountAsked
  <1>26. CASE SendStdIoErr
    BY <1>1, <1>26 DEF SendStdIoErr, hprintf, context, AccountInv, Loc, AccountAsked
  <1>27. CASE ConnectPipes
    BY <1>1, <1>27 DEF ConnectPipes, ConnectPipe, Goto, Fails, hprintf, context, AccountInv, Loc, AccountAsked
  <1>28. CASE Spawn
    BY <1>1, <1>28 DEF Spawn, Fails, hprintf, context, AccountInv, Loc, AccountAsked
  <1>29. CASE Watch
    BY <1>1, <1>29 DEF Watch, AccountInv, Loc, AccountAsked
  <1>30. CASE WaitControl
    BY <1>1, <1>30 DEF WaitControl, AccountInv, Loc, AccountAsked
  <1>31. CASE WaitProcess
    BY <1>1, <1>31 DEF WaitProcess, AccountInv, Loc, AccountAsked
  <1>32. CASE FlushOut
    BY <1>1, <1>32 DEF FlushOut, Goto, AccountInv, Loc, AccountAsked
  <1>33. CASE FlushErr
    BY <1>1, <1>33 DEF FlushErr, Goto, AccountInv, Loc, AccountAsked
  <1>34. CASE SendReturnCode
    BY <1>1, <1>34 DEF SendReturnCode, hprintf, context, AccountInv, Loc, AccountAsked
  <1>35. CASE Release
    BY <1>1, <1>35 DEF Release, DisconnectPipe, ClosePipe, Goto, AccountInv, Loc, AccountAsked
  <1>36. CASE CloseToken
    BY <1>1, <1>36 DEF CloseToken, AccountInv, Loc, AccountAsked
  <1>37. CASE Finish
    BY <1>1, <1>37 DEF Finish, ClosePipe, AccountInv, Loc, AccountAsked
  <1>38. CASE AcceptUnserved
    BY <1>1, <1>38 DEF AcceptUnserved, hprintf, AccountInv, Loc, AccountAsked
  <1> QED
    BY <1>11, <1>12, <1>13, <1>14, <1>15, <1>16, <1>17, <1>18, <1>19, <1>20, <1>21,
       <1>22, <1>23, <1>24, <1>25, <1>26, <1>27, <1>28, <1>29, <1>30, <1>31, <1>32,
       <1>33, <1>34, <1>35, <1>36, <1>37, <1>38 DEF ThreadNext

\* The account that was asked for never changes.
LEMMA SameAccount ==
  ASSUME [SessNext]_sessVars
  PROVE  account' = account
  <1> USE DEF stateVars
  <1>1. CASE ServerNext \/ NetFail
    BY <1>1 DEF ServerNext, NetFail
  <1>2. CASE ThreadStep \/ ProcWriteStep \/ ProcReadStep \/ ProcExitStep \/ ServerLoopReady
    BY <1>2 DEF ThreadStep, ProcWriteStep, ProcReadStep, ProcExitStep, ServerLoopReady, clientVars
  <1>3. CASE CompletionStep
    BY <1>3
    DEF CompletionStep, Completion, DropReply, CtrlOpened, StdOpened, OnStdIoErr, OnReturnCode,
        OnVersion, OnBadVersion, OnServiceError, OnUnknown, OutputRead, Written, Closed, CloseDone,
        ErrorReply, Fail, CtrlRead
  <1>4. CASE TimeoutStep \/ DeadStep
    BY <1>4 DEF TimeoutStep, DeadStep, RequestTimeout, TransportDead, CloseDone, Fail
  <1>5. CASE StdinStep \/ TimerStep \/ SignalStep \/ ExitStep
    BY <1>5 DEF StdinStep, TimerStep, SignalStep, ExitStep, StdinRead, Timer, Signal, Exit
  <1>6. CASE InstallStep
    BY <1>6
    DEF InstallStep, InstallOk, InstallFails, ReinstallOk, ReinstallFails, Installed, Reinstalled
  <1>7. CASE UNCHANGED sessVars
    BY <1>7 DEF sessVars, clientVars
  <1> QED BY <1>1, <1>2, <1>3, <1>4, <1>5, <1>6, <1>7 DEF SessNext

\* So does every other step: nobody but the thread stores settings, and the
\* client only adds commands of its own account to the control pipe.
LEMMA StepAccount ==
  ASSUME SessTypeOK, ServiceInv, AccountInv, [SessNext]_sessVars
  PROVE  AccountInv'
  <1>1. account' = account /\ account \in {"runas", "system", "client"} /\ ServiceStep
    BY SameAccount, SessNextType, ClientAssumption DEF SessTypeOK, ClientTypeOK, ClientAssumption
  <1>2. /\ PipeTypeOK /\ ThreadTypeOK /\ ConnInv /\ OwnInv
        /\ "ctrl" \in Pipe /\ c2s \in [Pipe -> Seq(Line \union {Chunk})]
        /\ c2s["ctrl"] \in Seq(Line \union {Chunk})
    BY DEF SessTypeOK, ConnTypeOK, PipeTypeOK, ServiceInv, Pipe
  <1>3. ASSUME UNCHANGED <<settings, pc, cont>>, proc' = proc \/ proc # "none",
               Loc \in {"idle", "hgets"} => Orderly(c2s'["ctrl"], account, settings)
        PROVE  AccountInv'
    BY <1>1, <1>3 DEF AccountInv, Loc, AccountAsked
  <1>4. Loc \in {"idle", "hgets"} => Orderly(c2s["ctrl"], account, settings)
    BY DEF AccountInv
  <1>5. CASE ThreadNext
    BY <1>1, <1>2, <1>5, ThreadAccount
  <1>6. CASE ProcNext
    <2>1. UNCHANGED <<settings, pc, cont>> /\ (proc' = proc \/ proc # "none")
      BY <1>6 DEF ProcNext, ProcWrite, ProcRead, ProcExit, threadVars
    <2>2. c2s'["ctrl"] = c2s["ctrl"]
      BY <1>2, <1>6 DEF ProcNext, ProcWrite, ProcRead, ProcExit, WriteFile, ReadFile, pipeVars
    <2> QED BY <1>3, <1>4, <2>1, <2>2
  <1>7. CASE AnyClient /\ Told
    <2>1. UNCHANGED <<settings, pc, cont, proc>>
      BY <1>7 DEF AnyClient, threadVars
    <2>2. Loc \in {"idle", "hgets"} => Orderly(c2s'["ctrl"], account, settings)
      BY <1>1, <1>2, <1>4, <1>7, OrderlyMore DEF Told
    <2> QED BY <1>3, <2>1, <2>2
  <1>8. CASE Vanish \/ UNCHANGED connVars \/ ServerLoopReady
    <2>1. UNCHANGED <<settings, pc, cont, proc, c2s>>
      BY <1>8 DEF Vanish, ClientVanish, ServerLoopReady, connVars, pipeVars, threadVars
    <2> QED BY <1>3, <1>4, <2>1
  <1>9. CASE \E s \in {"down", "starting", "up"}, v \in Versions : Restart(s, v)
    <2>1. /\ settings' = {} /\ pc' = "idle" /\ proc' = "none"
          /\ c2s' = [p \in Pipe |-> <<>>]
      BY <1>9 DEF Restart
    <2>2. c2s'["ctrl"] = <<>>
      BY <1>2, <2>1
    <2> QED BY <2>1, <2>2 DEF AccountInv, Loc, Orderly
  <1> QED BY <1>1, <1>5, <1>6, <1>7, <1>8, <1>9 DEF ServiceStep

LEMMA InitAccount == SessInit => AccountInv
  <1> SUFFICES ASSUME SessInit PROVE AccountInv
    OBVIOUS
  <1>1. c2s["ctrl"] = <<>>
    BY DEF SessInit, ThreadInit, Pipe
  <1> QED BY <1>1 DEF SessInit, ThreadInit, AccountInv, Loc, Orderly

\* The command runs under the account that --runas and --system ask for, across
\* reinstallations, late errors and whichever Windows calls fail: a service
\* thread that starts it has first read the "set" line of this very client.
THEOREM RunsAsAskedCorrect == SessSpec => []RunsAsAsked
  <1>1. AccountInv /\ SessTypeOK /\ ServiceInv /\ [SessNext]_sessVars => AccountInv'
    BY StepAccount
  <1>2. SessSpec => []AccountInv
    BY <1>1, InitAccount, SessInv, PTL DEF SessSpec
  <1>3. AccountInv /\ ServiceInv => RunsAsAsked
    BY DEF AccountInv, ServiceInv, OwnInv, RunsAsAsked
  <1> QED BY <1>2, <1>3, SessInv, PTL

-----------------------------------------------------------------------------
\* Which requests are subject to the timeout.

\* The first request of a run, alone, until the control pipe is open.
FirstOpen ==
    /\ state = "OPENING" /\ stdinEv = "none" /\ timers = 0 /\ parked = {}
    /\ io_read["ctrl"] = 0 /\ io_write["ctrl"] = 0
    /\ \A i \in DOMAIN pending : pending[i].op = "open" /\ pending[i].pipe = "ctrl"
    /\ \A i \in DOMAIN toSrv : toSrv[i].op = "open"
    /\ \/ mode = "loop" /\ Len(toSrv) + Len(toCli) <= Len(pending) /\ Len(pending) <= 1
       \/ mode = "install" /\ toSrv = <<>> /\ toCli = <<>> /\ pending = <<>>
       \/ mode \in Gone \union {"exiting"}

\* A write or a read of the control pipe: a request, or a reply to one.
OnCtrl(r, op) == r.op = op /\ r.pipe = "ctrl"
WriteAnswered == \E j \in DOMAIN toCli : OnCtrl(toCli[j], "write") /\ toCli[j].fnum = fd["ctrl"]

\* The server carries out requests in order: the version is not read before
\* the write that asks for it was answered.
RepliesInOrder ==
    \A i \in DOMAIN toCli :
        OnCtrl(toCli[i], "read") =>
            \E j \in DOMAIN toCli : j < i /\ OnCtrl(toCli[j], "write") /\ toCli[j].fnum = fd["ctrl"]
RequestsInOrder ==
    \A i \in DOMAIN toSrv :
        OnCtrl(toSrv[i], "read") =>
            \/ WriteAnswered
            \/ \E j \in DOMAIN toSrv : j < i /\ OnCtrl(toSrv[j], "write") /\ toSrv[j].fnum = fd["ctrl"]
WriteFirst ==
    /\ RepliesInOrder
    /\ net = "up" => ("ctrl" \in parked => WriteAnswered) /\ RequestsInOrder

\* The client waits for the version, f being the open file and q what is
\* pending: only the write that asks and the read after it have a timeout.
Asking(q, f) ==
    /\ \A i \in DOMAIN q : q[i].pipe = "ctrl" /\ q[i].op \in {"write", "read"} /\ q[i].fnum = f
    /\ \A i, j \in DOMAIN q : i < j /\ q[j].timed => q[i].timed
    /\ \A i, j \in DOMAIN q :
          /\ q[i].op = q[j].op
          /\ q[i].op = "write" => q[i].timed /\ q[j].timed
          => i = j
TimedWrite == \E i \in DOMAIN pending : pending[i].timed /\ pending[i].op = "write"
AsksVersion ==
    /\ mode = "loop" /\ stdinEv = "none" /\ io_write["ctrl"] \in {0, fd["ctrl"]}
    /\ Asking(pending, fd["ctrl"])
    /\ TimedWrite => WriteFirst

Timed == \E i \in DOMAIN pending : pending[i].timed
TimedInv ==
    /\ reqTimeout => FirstOpen
    /\ ~reqTimeout /\ Timed =>
          /\ state = "GETTING_VERSION"
          /\ AsksVersion \/ mode \in Gone \union {"exiting"}

\* What is left of some requests, and what the new ones are.
LEMMA ConcatElements ==
  ASSUME NEW S, NEW s \in Seq(S), NEW t \in Seq(S)
  PROVE  /\ Len(s \o t) = Len(s) + Len(t) /\ Len(s) \in Nat /\ Len(t) \in Nat
         /\ DOMAIN (s \o t) = 1..(Len(s) + Len(t)) /\ DOMAIN s = 1..Len(s) /\ DOMAIN t = 1..Len(t)
         /\ \A i \in 1..(Len(s) + Len(t)) :
               (s \o t)[i] = IF i <= Len(s) THEN s[i] ELSE t[i - Len(s)]
  <1>1. /\ s \o t \in Seq(S) /\ Len(s \o t) = Len(s) + Len(t)
        /\ \A i \in 1..(Len(s) + Len(t)) :
               (s \o t)[i] = IF i <= Len(s) THEN s[i] ELSE t[i - Len(s)]
    BY ConcatProperties
  <1> QED BY <1>1, LenProperties

LEMMA RemoveAtElements ==
  ASSUME NEW S, NEW s \in Seq(S), NEW i \in DOMAIN s
  PROVE  /\ Len(RemoveAt(s, i)) = Len(s) - 1
         /\ \A k \in DOMAIN RemoveAt(s, i) :
               /\ k \in DOMAIN s /\ k + 1 \in DOMAIN s
               /\ RemoveAt(s, i)[k] = IF k < i THEN s[k] ELSE s[k + 1]
  <1>1. /\ SubSeq(s, 1, i - 1) \in Seq(S) /\ Len(SubSeq(s, 1, i - 1)) = i - 1
        /\ \A k \in 1..(i - 1) : SubSeq(s, 1, i - 1)[k] = s[k]
    BY SubSeqProperties
  <1>2. /\ SubSeq(s, i + 1, Len(s)) \in Seq(S) /\ Len(SubSeq(s, i + 1, Len(s))) = Len(s) - i
        /\ \A k \in 1..(Len(s) - i) : SubSeq(s, i + 1, Len(s))[k] = s[i + k]
    BY SubSeqProperties
  <1>0. i \in 1..Len(s) /\ Len(s) \in Nat /\ DOMAIN s = 1..Len(s)
    OBVIOUS
  <1> DEFINE l == SubSeq(s, 1, i - 1)
             r == SubSeq(s, i + 1, Len(s))
  <1>5. /\ RemoveAt(s, i) = l \o r /\ l \in Seq(S) /\ r \in Seq(S)
        /\ Len(l) = i - 1 /\ Len(r) = Len(s) - i
        /\ \A k \in 1..(Len(s) - i) : r[k] = s[i + k]
    BY <1>1, <1>2 DEF RemoveAt
  <1> HIDE DEF l, r
  <1>6. /\ Len(l \o r) = Len(l) + Len(r)
        /\ DOMAIN (l \o r) = 1..(Len(l) + Len(r))
        /\ \A k \in 1..(Len(l) + Len(r)) : (l \o r)[k] = IF k <= Len(l) THEN l[k] ELSE r[k - Len(l)]
    <2>1. l \in Seq(S) /\ r \in Seq(S)
      BY <1>5
    <2>2. Len(l \o r) = Len(l) + Len(r)
      BY ONLY <2>1, ConcatElements
    <2>3. DOMAIN (l \o r) = 1..(Len(l) + Len(r))
      BY ONLY <2>1, ConcatElements
    <2>4. \A k \in 1..(Len(l) + Len(r)) : (l \o r)[k] = IF k <= Len(l) THEN l[k] ELSE r[k - Len(l)]
      BY ONLY <2>1, ConcatElements
    <2> QED BY ONLY <2>2, <2>3, <2>4
  <1>7. Len(l) + Len(r) = Len(s) - 1
    BY <1>0, <1>5
  <1>3. /\ i \in 1..Len(s) /\ Len(s) \in Nat /\ DOMAIN s = 1..Len(s)
        /\ DOMAIN RemoveAt(s, i) = 1..(Len(s) - 1) /\ Len(RemoveAt(s, i)) = Len(s) - 1
    BY <1>0, <1>5, <1>6, <1>7
  <1>4. ASSUME NEW k \in 1..(Len(s) - 1)
        PROVE  RemoveAt(s, i)[k] = IF k < i THEN s[k] ELSE s[k + 1]
    <2>1. CASE k < i
      <3>1. k \in 1..(i - 1)
        BY <1>3, <2>1
      <3>2. k \in 1..(Len(l) + Len(r)) /\ k <= Len(l)
        <4>1. i \in Nat /\ k \in Nat /\ Len(s) \in Nat
          BY ONLY <1>0, k \in 1..(Len(s) - 1)
        <4>2. Len(l) = i - 1
          BY ONLY <1>5
        <4> QED BY ONLY <1>7, <2>1, <4>1, <4>2, k \in 1..(Len(s) - 1)
      <3>3. (l \o r)[k] = l[k]
        BY <1>6, <3>2
      <3>4. l[k] = s[k]
        BY <1>1, <3>1 DEF l
      <3> QED BY <1>5, <2>1, <3>3, <3>4
    <2>2. CASE ~(k < i)
      <3>1. k - (i - 1) \in 1..(Len(s) - i) /\ i + (k - (i - 1)) = k + 1
        BY <1>3, <2>2
      <3>2. k \in 1..(Len(l) + Len(r)) /\ ~(k <= Len(l)) /\ Len(l) = i - 1
        <4>1. i \in Nat /\ k \in Nat /\ Len(s) \in Nat
          BY ONLY <1>0, k \in 1..(Len(s) - 1)
        <4>2. Len(l) = i - 1
          BY ONLY <1>5
        <4> QED BY ONLY <1>7, <2>2, <4>1, <4>2, k \in 1..(Len(s) - 1)
      <3>3. (l \o r)[k] = r[k - (i - 1)]
        BY <1>6, <3>2
      <3>4. r[k - (i - 1)] = s[k + 1]
        BY <1>5, <3>1
      <3> QED BY <1>5, <2>2, <3>3, <3>4
    <2> QED BY <2>1, <2>2
  <1> QED BY <1>3, <1>4

\* Nothing in the rest is new.
Within(t, s) == \A k \in DOMAIN t : \E j \in DOMAIN s : t[k] = s[j]

LEMMA RemoveAtWithin ==
  ASSUME NEW S, NEW s \in Seq(S), NEW i \in DOMAIN s
  PROVE  Within(RemoveAt(s, i), s)
  BY RemoveAtElements DEF Within

LEMMA UndestroyedWithin ==
  ASSUME NEW p, NEW rest \in Seq(Waiting)
  PROVE  Within(Undestroyed(p, rest), rest)
  <1> DEFINE rreq == {i \in DOMAIN rest : Destroyed(p, rest[i])}
  <1>1. rreq \subseteq 1..Len(rest) /\ Len(rest) \in Nat
    OBVIOUS
  <1>2. ASSUME rreq # {}
        PROVE  (CHOOSE i \in rreq : \A j \in rreq : j <= i) \in DOMAIN rest
    BY <1>1, <1>2, Greatest
  <1>3. Within(rest, rest)
    BY DEF Within
  <1> QED BY <1>2, <1>3, RemoveAtWithin DEF Undestroyed

LEMMA WithinTransitive ==
  ASSUME NEW r, NEW s, NEW t, Within(r, s), Within(s, t)
  PROVE  Within(r, t)
  BY DEF Within

\* The requests that are sent are added at the end, with the timeout of now.
LEMMA SentElements ==
  ASSUME NEW link, NEW a, NEW rest \in Seq(Waiting), NEW rs \in Seq(Wired(a)),
         reqTimeout \in BOOLEAN, SendOn(link, rest, rs)
  PROVE  \A k \in DOMAIN pending' :
            \/ k \in DOMAIN rest /\ pending'[k] = rest[k]
            \/ k \notin DOMAIN rest /\ pending'[k].timed = reqTimeout
  <1>1. Added(rs) \in Seq(Waiting) /\ Len(Added(rs)) = Len(rs) /\ Len(rs) \in Nat
    BY AddedType
  <1>2. \A i \in 1..Len(rs) : Added(rs)[i].timed = reqTimeout
    BY DEF Added
  <1>3. pending' = rest \/ pending' = rest \o Added(rs)
    BY DEF SendOn, Added
  <1>4. /\ DOMAIN (rest \o Added(rs)) = 1..(Len(rest) + Len(Added(rs))) /\ Len(rest) \in Nat
        /\ \A k \in 1..(Len(rest) + Len(Added(rs))) :
              (rest \o Added(rs))[k] = IF k <= Len(rest) THEN rest[k] ELSE Added(rs)[k - Len(rest)]
    <2>1. Added(rs) \in Seq(Waiting) /\ rest \in Seq(Waiting)
      BY <1>1
    <2>2. DOMAIN (rest \o Added(rs)) = 1..(Len(rest) + Len(Added(rs)))
      BY ONLY <2>1, ConcatElements
    <2>3. \A k \in 1..(Len(rest) + Len(Added(rs))) :
             (rest \o Added(rs))[k] = IF k <= Len(rest) THEN rest[k] ELSE Added(rs)[k - Len(rest)]
      BY ONLY <2>1, ConcatElements
    <2> QED BY <2>1, <2>2, <2>3
  <1>5. DOMAIN rs = 1..Len(rs) /\ DOMAIN rest = 1..Len(rest)
    OBVIOUS
  <1>6. ASSUME NEW k \in 1..(Len(rest) + Len(rs)), ~(k <= Len(rest))
        PROVE  k - Len(rest) \in 1..Len(rs) /\ k \notin DOMAIN rest
    BY <1>1, <1>4, <1>5, <1>6
  <1>7. ASSUME NEW k \in 1..(Len(rest) + Len(rs)), k <= Len(rest)
        PROVE  k \in DOMAIN rest
    BY <1>1, <1>4, <1>5, <1>7
  <1>8. ASSUME NEW k \in DOMAIN (rest \o Added(rs))
        PROVE  \/ k \in DOMAIN rest /\ (rest \o Added(rs))[k] = rest[k]
               \/ k \notin DOMAIN rest /\ (rest \o Added(rs))[k].timed = reqTimeout
    <2>1. k \in 1..(Len(rest) + Len(rs)) /\ k \in 1..(Len(rest) + Len(Added(rs)))
      BY <1>1, <1>4
    <2>2. CASE k <= Len(rest)
      <3>1. (rest \o Added(rs))[k] = rest[k]
        BY <1>4, <2>1, <2>2
      <3> QED BY <1>7, <2>1, <2>2, <3>1
    <2>3. CASE ~(k <= Len(rest))
      <3>1. (rest \o Added(rs))[k] = Added(rs)[k - Len(rest)]
        BY <1>4, <2>1, <2>3
      <3>2. Added(rs)[k - Len(rest)].timed = reqTimeout /\ k \notin DOMAIN rest
        BY <1>2, <1>6, <2>1, <2>3
      <3> QED BY <3>1, <3>2
    <2> QED BY <2>2, <2>3
  <1> QED BY <1>3, <1>8

\* Once the timeout is off nothing new is subject to it: of the requests rest,
\* which may be answered or not, no other one is.
OnlyFrom(rest) == ~reqTimeout' /\ (Timed' => \E k \in DOMAIN rest : rest[k].timed)

LEMMA SendUntimed ==
  ASSUME ClientTypeOK, ~reqTimeout, NEW link, NEW rest \in Seq(Waiting), NEW kept \in Seq(Waiting),
         Within(kept, rest), NEW rs \in Seq(Wired(account)), SendOn(link, kept, rs)
  PROVE  OnlyFrom(rest)
  <1>1. ~reqTimeout'
    BY DEF SendOn
  <1>2. reqTimeout \in BOOLEAN
    BY DEF ClientTypeOK
  <1>3. \A k \in DOMAIN pending' :
            \/ k \in DOMAIN kept /\ pending'[k] = kept[k]
            \/ k \notin DOMAIN kept /\ pending'[k].timed = reqTimeout
    BY <1>2, SentElements
  <1>4. ASSUME NEW k \in DOMAIN pending', pending'[k].timed
        PROVE  \E j \in DOMAIN rest : rest[j].timed
    <2>1. k \in DOMAIN kept /\ pending'[k] = kept[k]
      BY <1>2, <1>3, <1>4
    <2> QED BY <1>4, <2>1 DEF Within
  <1> QED BY <1>1, <1>4 DEF OnlyFrom, Timed

LEMMA KeptUntimed ==
  ASSUME ~reqTimeout, NEW rest, pending' = rest, UNCHANGED reqTimeout
  PROVE  OnlyFrom(rest)
  BY DEF OnlyFrom, Timed

LEMMA FailUntimed ==
  ASSUME ClientTypeOK, ~reqTimeout, NEW link, NEW op, NEW p \in Pipe, NEW status,
         NEW rest \in Seq(Waiting), Fail(link, op, p, status, rest)
  PROVE  OnlyFrom(rest)
  <1>1. CASE p = "ctrl"
    <2>1. OnCtrlError(op, status, rest)
      BY <1>1 DEF Fail
    <2>2. pending' = rest /\ UNCHANGED reqTimeout
      BY <2>1 DEF OnCtrlError
    <2> QED BY <2>2, KeptUntimed
  <1>2. CASE p # "ctrl"
    <2>1. SendOn(link, Undestroyed(p, rest), <<async_close(p)>>)
      BY <1>2 DEF Fail, OnStdError
    <2>2. Undestroyed(p, rest) \in Seq(Waiting) /\ Within(Undestroyed(p, rest), rest)
      BY UndestroyedType, UndestroyedWithin
    <2>3. <<async_close(p)>> \in Seq(Wired(account))
      <3>1. p \in Pipe /\ fd[p] \in Nat
        BY DEF ClientTypeOK
      <3> QED BY <3>1, OwnRequestType
    <2> QED BY <2>1, <2>2, <2>3, SendUntimed
  <1> QED BY <1>1, <1>2

LEMMA ReplyUntimed ==
  ASSUME ClientTypeOK, ~reqTimeout, Completion, ~DropReply
  PROVE  OnlyFrom(Rest(Reply))
  <1> "ctrl" \in Pipe /\ "in" \in Pipe /\ "out" \in Pipe /\ "err" \in Pipe
    BY DEF Pipe
  <1> DEFINE R == Rest(Reply)
  <1>1. \E op, ok : Receive(op, ok)
    BY DEF Completion, CtrlOpened, StdOpened, OnStdIoErr, OnReturnCode, OnVersion, OnBadVersion,
           OnServiceError, OnUnknown, CtrlRead, OutputRead, Written, Closed, ErrorReply
  <1>2. /\ Rest(Reply) \in Seq(Waiting) /\ Within(Rest(Reply), Rest(Reply))
        /\ Reply.pipe \in Pipe /\ Reply.fnum \in Nat /\ fd[Reply.pipe] \in Nat /\ fd["ctrl"] \in Nat
    BY <1>1, ReceiveType DEF ClientTypeOK, Within
  <1>3. /\ NextRead \in Wired(account)
        /\ \A p \in Pipe : async_open(p) \in Wired(account) /\ async_close(p) \in Wired(account)
        /\ \A p \in Pipe, f \in Nat : async_read(p, f) \in Wired(account)
        /\ \A items \in {GetVersion, Abort, RunCommandOf(account)}, f \in Nat :
              async_write("ctrl", f, items) \in Wired(account)
    BY <1>2, OwnRequestType DEF NextRead
  <1>4. ASSUME NEW rs \in Seq(Wired(account)), Send(Rest(Reply), rs)
        PROVE  OnlyFrom(Rest(Reply))
    BY <1>2, <1>4, SendUntimed DEF Send
  <1>5. CASE CtrlOpened
    <2> DEFINE rs == <<async_write("ctrl", Reply.fnum, GetVersion), async_read("ctrl", Reply.fnum)>>
    <2>1. rs \in Seq(Wired(account))
      BY <1>2, <1>3
    <2> QED BY <1>4, <1>5, <2>1 DEF CtrlOpened
  <1>6. CASE StdOpened \/ OutputRead
    <2>1. /\ <<async_read(Reply.pipe, Reply.fnum)>> \in Seq(Wired(account))
          /\ <<async_read(Reply.pipe, fd[Reply.pipe])>> \in Seq(Wired(account))
      BY <1>2, <1>3
    <2> QED BY <1>4, <1>6, <2>1 DEF StdOpened, OutputRead
  <1>7. CASE OnStdIoErr
    <2>1. <<async_open("in"), async_open("out"), async_open("err"), NextRead>> \in Seq(Wired(account))
      BY <1>3
    <2> QED BY <1>4, <1>7, <2>1 DEF OnStdIoErr
  <1>8. <<NextRead>> \in Seq(Wired(account))
    BY <1>3
  <1>9. CASE OnReturnCode
    BY <1>4, <1>8, <1>9 DEF OnReturnCode
  <1>10. CASE OnVersion
    <2>1. <<async_write("ctrl", fd["ctrl"], RunCommand), NextRead>> \in Seq(Wired(account))
      BY <1>2, <1>3 DEF RunCommand
    <2> QED BY <1>4, <1>10, <2>1 DEF OnVersion
  <1>11. CASE CloseForReinstall
    <2>1. <<async_close("ctrl"), NextRead>> \in Seq(Wired(account))
      BY <1>3
    <2> QED BY <1>4, <1>11, <2>1 DEF CloseForReinstall
  <1>12. CASE OnServiceError \/ OnUnknown
    BY <1>4, <1>8, <1>11, <1>12 DEF OnServiceError, OnUnknown
  <1>13. CASE Written \/ Closed
    BY <1>13, KeptUntimed DEF Written, Closed, CloseDone
  <1>14. CASE ErrorReply
    BY <1>2, <1>14, FailUntimed DEF ErrorReply
  <1> QED
    BY <1>5, <1>6, <1>7, <1>9, <1>10, <1>11, <1>12, <1>13, <1>14 DEF Completion, OnBadVersion

\* One of the requests is taken out.
LEMMA RestWithin ==
  ASSUME ClientTypeOK, NEW r, Matching(r) # {}
  PROVE  Within(Rest(r), pending)
  BY MatchedPending, RemoveAtWithin DEF ClientTypeOK, Rest

LEMMA FrontElements ==
  ASSUME NEW S, NEW s \in Seq(S), s # <<>>
  PROVE  /\ Front(s) \in Seq(S) /\ Within(Front(s), s)
         /\ \E i \in DOMAIN s : Last(s) = s[i]
         /\ Len(Front(s)) = Len(s) - 1
  <1>1. Len(s) \in Nat /\ Len(s) > 0 /\ Len(s) - 1 \in Nat
    BY EmptySeq
  <1>2. /\ SubSeq(s, 1, Len(s) - 1) \in Seq(S)
        /\ Len(SubSeq(s, 1, Len(s) - 1)) = Len(s) - 1
        /\ \A k \in 1..(Len(s) - 1) : SubSeq(s, 1, Len(s) - 1)[k] = s[k]
    <2> DEFINE n == Len(s) - 1
    <2>1. n \in Nat /\ 1 \in Int /\ n \in Int /\ (\A i \in 1..n : s[i] \in S) /\ n - 1 + 1 = n
      BY <1>1
    <2> HIDE DEF n
    <2>2. /\ SubSeq(s, 1, n) \in Seq(S)
          /\ Len(SubSeq(s, 1, n)) = IF 1 <= n THEN n - 1 + 1 ELSE 0
          /\ \A k \in 1..(n - 1 + 1) : SubSeq(s, 1, n)[k] = s[1 + k - 1]
      BY ONLY <2>1, SubSeqProperties
    <2>3. Len(SubSeq(s, 1, n)) = n /\ \A k \in 1..n : SubSeq(s, 1, n)[k] = s[k]
      BY <2>1, <2>2
    <2> QED BY <2>2, <2>3 DEF n
  <1> QED BY <1>1, <1>2 DEF Front, Last, Within

\* The steps of the client that take nothing from the wire.
LEMMA EventUntimed ==
  ASSUME ClientTypeOK, ~reqTimeout, ~Timed,
         RequestTimeout \/ TransportDead \/ StdinRead \/ Timer \/ (\E ok \in BOOLEAN : Installed(ok)) \/ Reinstalled
  PROVE  ~reqTimeout' /\ ~Timed'
  <1> "ctrl" \in Pipe /\ "in" \in Pipe
    BY DEF Pipe
  <1>1. /\ pending \in Seq(Waiting) /\ fd["ctrl"] \in Nat /\ fd["in"] \in Nat
        /\ Within(pending, pending)
    BY DEF ClientTypeOK, Within
  <1>2. ASSUME NEW rest, Within(rest, pending), OnlyFrom(rest)
        PROVE  ~reqTimeout' /\ ~Timed'
    BY <1>2 DEF OnlyFrom, Within, Timed
  <1>3. ASSUME NEW rs \in Seq(Wired(account)), Send(pending, rs)
        PROVE  ~reqTimeout' /\ ~Timed'
    BY <1>1, <1>2, <1>3, SendUntimed DEF Send
  <1>4. CASE RequestTimeout
    BY <1>4 DEF RequestTimeout, Timed
  <1>5. CASE TransportDead
    <2>1. CASE pending = <<>>
      BY <1>5, <2>1, KeptUntimed, <1>1, <1>2 DEF TransportDead, reqVars
    <2>2. CASE pending # <<>>
      <3>1. Front(pending) \in Seq(Waiting) /\ Within(Front(pending), pending)
        BY <1>1, <2>2, FrontElements
      <3>2. Last(pending) \in Waiting
        <4>1. PICK i \in DOMAIN pending : Last(pending) = pending[i]
          BY <1>1, <2>2, FrontElements
        <4> QED BY <1>1, <4>1
      <3>3. Last(pending).pipe \in Pipe
        BY <3>2 DEF Waiting
      <3>4. CASE Last(pending).op = "close"
        <4>1. pending' = Front(pending) /\ UNCHANGED reqTimeout
          BY <1>5, <2>2, <3>4 DEF TransportDead, CloseDone
        <4> QED BY <1>2, <3>1, <4>1, KeptUntimed
      <3>5. CASE Last(pending).op # "close"
        <4>1. Fail("dead", Last(pending).op, Last(pending).pipe, "network", Front(pending))
          BY <1>5, <2>2, <3>5 DEF TransportDead
        <4> QED BY <1>2, <3>1, <3>3, <4>1, FailUntimed
      <3> QED BY <3>4, <3>5
    <2> QED BY <2>1, <2>2
  <1>6. CASE StdinRead
    <2>1. <<async_write("in", fd["in"], Input)>> \in Seq(Wired(account))
      BY <1>1, OwnRequestType
    <2> QED BY <1>3, <1>6, <2>1 DEF StdinRead
  <1>7. CASE Timer
    <2>1. <<async_write("ctrl", fd["ctrl"], Abort)>> \in Seq(Wired(account))
      BY <1>1, OwnRequestType
    <2> QED BY <1>3, <1>7, <2>1 DEF Timer
  <1>8. <<async_open("ctrl")>> \in Seq(Wired(account))
    <2>1. async_open("ctrl") \in Wired(account)
      BY <1>1, OwnRequestType
    <2> QED BY <2>1
  <1>9. ASSUME NEW ok \in BOOLEAN, Installed(ok)
        PROVE  ~reqTimeout' /\ ~Timed'
    <2>1. CASE ok
      BY <1>3, <1>8, <1>9, <2>1 DEF Installed
    <2>2. CASE ~ok
      <3>1. pending' = pending /\ reqTimeout' = reqTimeout
        BY <1>9, <2>2 DEF Installed, reqVars
      <3> QED BY <3>1 DEF Timed
    <2> QED BY <2>1, <2>2
  <1>10. CASE Reinstalled
    BY <1>3, <1>8, <1>10 DEF Reinstalled
  <1> QED BY <1>4, <1>5, <1>6, <1>7, <1>9, <1>10

\* Once the timeout is off and no request is subject to it, none ever is.
LEMMA StaysUntimed ==
  ASSUME SessTypeOK, ~reqTimeout, ~Timed, [SessNext]_sessVars
  PROVE  ~reqTimeout' /\ ~Timed'
  <1>1. ClientTypeOK
    BY DEF SessTypeOK
  <1>2. ASSUME UNCHANGED <<pending, reqTimeout>> PROVE ~reqTimeout' /\ ~Timed'
    BY <1>2 DEF Timed
  <1>3. CASE \/ ServerNext \/ NetFail \/ ThreadStep \/ ProcWriteStep \/ ProcReadStep \/ ProcExitStep
             \/ SignalStep \/ ServerLoopReady \/ ExitStep \/ UNCHANGED sessVars
    BY <1>2, <1>3
    DEF ServerNext, NetFail, ThreadStep, ProcWriteStep, ProcReadStep, ProcExitStep, SignalStep,
        Signal, ServerLoopReady, ExitStep, Exit, sessVars, clientVars, reqVars
  <1>4. CASE CompletionStep
    <2>1. CASE DropReply
      BY <1>2, <2>1 DEF DropReply, reqVars
    <2>2. CASE ~DropReply
      <3>1. OnlyFrom(Rest(Reply))
        BY <1>1, <1>4, <2>2, ReplyUntimed DEF CompletionStep
      <3>2. \E op, ok : Receive(op, ok)
        BY <1>4, <2>2
        DEF CompletionStep, Completion, CtrlOpened, StdOpened, OnStdIoErr, OnReturnCode, OnVersion,
            OnBadVersion, OnServiceError, OnUnknown, CtrlRead, OutputRead, Written, Closed, ErrorReply
      <3>3. Within(Rest(Reply), pending)
        BY <1>1, <3>2, RestWithin DEF Receive
      <3> QED BY <3>1, <3>3 DEF OnlyFrom, Within, Timed
    <2> QED BY <2>1, <2>2
  <1>5. CASE TimeoutStep \/ DeadStep \/ StdinStep \/ TimerStep \/ InstallStep
    BY <1>1, <1>5, EventUntimed
    DEF TimeoutStep, DeadStep, StdinStep, TimerStep, InstallStep, InstallOk, InstallFails,
        ReinstallOk, ReinstallFails
  <1> QED BY <1>3, <1>4, <1>5 DEF SessNext

LEMMA TailElements ==
  ASSUME NEW S, NEW s \in Seq(S), s # <<>>
  PROVE  /\ Len(Tail(s)) = Len(s) - 1 /\ Len(s) \in Nat /\ Len(s) > 0
         /\ DOMAIN s = 1..Len(s) /\ DOMAIN Tail(s) = 1..(Len(s) - 1)
         /\ Head(s) = s[1] /\ 1 \in DOMAIN s
         /\ \A k \in DOMAIN Tail(s) : k + 1 \in DOMAIN s /\ Tail(s)[k] = s[k + 1]
  <1>1. Len(s) \in Nat /\ Len(s) > 0 /\ DOMAIN s = 1..Len(s)
    BY EmptySeq
  <1>2. /\ Tail(s) \in Seq(S) /\ Len(Tail(s)) = Len(s) - 1 /\ Head(s) = s[1]
        /\ \A k \in 1..(Len(s) - 1) : Tail(s)[k] = s[k + 1]
    BY <1>1
  <1>3. DOMAIN Tail(s) = 1..(Len(s) - 1)
    BY <1>1, <1>2
  <1> QED BY <1>1, <1>2, <1>3

\* The one reply to the first request, and what becomes of the rest.
LEMMA AnswersLength ==
  ASSUME toCli \in Seq(Replied), NEW r \in Replied, Answers(<<r>>)
  PROVE  toCli' \in Seq(Replied) /\ Len(toCli') <= Len(toCli) + 1
  BY DEF Answers

\* The server does nothing but to open the control pipe.
LEMMA ServerFirst ==
  ASSUME SessTypeOK, FirstOpen, ServerNext
  PROVE  FirstOpen'
  <1>1. /\ toSrv \in Seq(Wired(account)) /\ toCli \in Seq(Replied) /\ pending \in Seq(Waiting)
        /\ srvFnum \in [Pipe -> Nat]
    BY DEF SessTypeOK, ClientTypeOK, ServerTypeOK
  <1>2. UNCHANGED <<state, stdinEv, timers, io_read, io_write, pending, mode, net>>
    BY DEF ServerNext, stateVars, ioVars, sigVars, userVars
  <1>3. ASSUME toSrv # <<>> PROVE Query.op = "open" /\ Query \in Wired(account)
    <2>1. Query = toSrv[1] /\ 1 \in DOMAIN toSrv
      BY <1>1, <1>3, TailElements DEF Query
    <2> QED BY <1>1, <2>1 DEF FirstOpen
  <1>4. CASE ServeOpen
    <2>1. toSrv # <<>> /\ toSrv' = Tail(toSrv)
      BY <1>4 DEF ServeOpen, Serve
    <2>2. /\ Len(toSrv') = Len(toSrv) - 1 /\ Len(toSrv) \in Nat
          /\ \A k \in DOMAIN toSrv' : toSrv'[k].op = "open"
      BY <1>1, <2>1, TailElements DEF FirstOpen
    <2>3. parked' = parked /\ \E r \in Replied : Answers(<<r>>)
      <3>1. CASE inst[Query.pipe] # "listen" /\ Refuse("notfound")
        <4>1. Answer(Query.op, Query.pipe, Query.fnum, "notfound", <<>>) \in Replied
          BY <1>3, <2>1 DEF Answer, Replied, Wired, ReqOp
        <4> QED BY <3>1, <4>1 DEF Refuse, Result, srvVars
      <3>2. CASE /\ ClientOpen(Query.pipe)
                 /\ srvOpen' = srvOpen \union {Query.pipe}
                 /\ srvFnum' = [srvFnum EXCEPT ![Query.pipe] = @ + 1]
                 /\ Answers(<<Answer("open", Query.pipe, srvFnum[Query.pipe] + 1, "ok", <<>>)>>)
                 /\ UNCHANGED parked
        <4>1. Query.pipe \in Pipe
          BY <1>3, <2>1 DEF Wired
        <4>2. Answer("open", Query.pipe, srvFnum[Query.pipe] + 1, "ok", <<>>) \in Replied
          BY <1>1, <4>1 DEF Answer, Replied, ReqOp
        <4> QED BY <3>2, <4>2
      <3> QED BY <1>4, <3>1, <3>2 DEF ServeOpen
    <2>4. Len(toCli') <= Len(toCli) + 1 /\ Len(toCli') \in Nat /\ Len(toCli) \in Nat
      BY <1>1, <2>3, AnswersLength
    <2>5. mode # "install"
      BY <2>1 DEF FirstOpen, Gone
    <2>6. Len(toSrv) + Len(toCli) <= Len(pending) => Len(toSrv') + Len(toCli') <= Len(pending)
      <3>1. Len(pending) \in Nat
        BY <1>1
      <3> QED BY <2>2, <2>4, <3>1
    <2> QED BY <1>2, <2>2, <2>3, <2>5, <2>6 DEF FirstOpen
  <1>5. CASE ServeWrite \/ ServeRead \/ ServeClose
    BY <1>3, <1>5 DEF ServeWrite, ServeRead, ServeClose, Serve
  <1>6. CASE AnswerRead
    BY <1>6 DEF AnswerRead, FirstOpen
  <1>7. CASE Hangup
    BY <1>2, <1>7 DEF Hangup, FirstOpen
  <1> QED BY <1>4, <1>5, <1>6, <1>7 DEF ServerNext

\* The client that leaves does nothing any more.
LEMMA LeavingStep ==
  ASSUME mode \in Gone \union {"exiting"}, SessNext
  PROVE  /\ mode' \in Gone \union {"exiting"}
         /\ UNCHANGED <<state, pending, reqTimeout, stdinEv, timers, io_read, io_write>>
  <1>1. mode \notin {"loop", "install", "reinstall"}
    BY DEF Gone
  <1>2. CASE \/ ServerNext \/ NetFail \/ ThreadStep \/ ProcWriteStep \/ ProcReadStep \/ ProcExitStep
             \/ ServerLoopReady
    BY <1>2
    DEF ServerNext, NetFail, ThreadStep, ProcWriteStep, ProcReadStep, ProcExitStep,
        ServerLoopReady, clientVars, stateVars, ioVars, reqVars, sigVars, userVars
  <1>3. CASE SignalStep
    BY <1>3 DEF SignalStep, Signal, ioVars, reqVars, userVars, Gone
  <1>4. CASE ExitStep
    BY <1>4 DEF ExitStep, Exit, ioVars, reqVars, sigVars, userVars, Gone
  <1>5. ~CompletionStep
    BY <1>1
    DEF CompletionStep, Completion, CtrlOpened, StdOpened, OnStdIoErr, OnReturnCode, OnVersion,
        OnBadVersion, OnServiceError, OnUnknown, CtrlRead, OutputRead, Written, Closed, ErrorReply,
        DropReply, Receive, Receiving
  <1>6. ~(TimeoutStep \/ DeadStep \/ StdinStep \/ TimerStep \/ InstallStep)
    BY <1>1
    DEF TimeoutStep, RequestTimeout, DeadStep, TransportDead, StdinStep, StdinRead, TimerStep,
        Timer, InstallStep, InstallOk, InstallFails, ReinstallOk, ReinstallFails, Installed,
        Reinstalled
  <1> QED BY <1>2, <1>3, <1>4, <1>5, <1>6 DEF SessNext

\* While the control pipe is being opened a reply is the one to that request.
LEMMA FirstReply ==
  ASSUME ClientTypeOK, FirstOpen, NEW op, NEW ok, Receive(op, ok)
  PROVE  /\ mode = "loop" /\ op = "open" /\ Reply.op = "open" /\ Reply.pipe = "ctrl"
         /\ Rest(Reply) = <<>> /\ toSrv = <<>> /\ toCli' = <<>>
         /\ Reply \in Replied
  <1>1. toSrv \in Seq(Wired(account)) /\ toCli \in Seq(Replied) /\ pending \in Seq(Waiting)
    BY DEF ClientTypeOK
  <1>2. mode = "loop" /\ toCli # <<>> /\ Matching(Reply) # {} /\ toCli' = Tail(toCli) /\ Reply.op = op
    BY DEF Receive, Receiving
  <1>3. Len(toSrv) + Len(toCli) <= Len(pending) /\ Len(pending) <= 1
    BY <1>2 DEF FirstOpen, Gone
  <1>4. PICK i \in Matching(Reply) : TRUE
    BY <1>2
  <1>5. i \in DOMAIN pending /\ op = "open" /\ Reply.pipe = "ctrl"
    BY <1>2, <1>4 DEF Matching, FirstOpen
  <1>6. Len(toCli) \in Nat /\ Len(toCli) > 0 /\ Len(toCli') = Len(toCli) - 1 /\ toCli' \in Seq(Replied)
    BY <1>1, <1>2, TailElements
  <1>7. Len(toSrv) \in Nat /\ Len(pending) \in Nat
    BY <1>1
  <1>8. Len(toSrv) = 0 /\ Len(toCli') = 0 /\ Len(pending) = 1
    <2> DEFINE s == Len(toSrv)
               c == Len(toCli)
               d == Len(toCli')
               q == Len(pending)
    <2>1. s \in Nat /\ c \in Nat /\ q \in Nat /\ c > 0 /\ d = c - 1 /\ s + c <= q /\ q <= 1
      BY <1>3, <1>6, <1>7
    <2> HIDE DEF s, c, d, q
    <2>2. s = 0 /\ d = 0 /\ q = 1
      BY ONLY <2>1
    <2> QED BY <2>2 DEF s, d, q
  <1>9. toSrv = <<>> /\ toCli' = <<>>
    BY <1>1, <1>6, <1>8, EmptySeq
  <1>10. Rest(Reply) \in Seq(Waiting) /\ Len(Rest(Reply)) = Len(pending) - 1
    BY <1>1, <1>2, MatchedPending, RestType, RemoveAtElements DEF Rest
  <1>11. Rest(Reply) = <<>>
    BY <1>8, <1>10, EmptySeq
  <1>12. Reply \in Replied
    BY <1>1, <1>2, ReplyHead
  <1> QED BY <1>2, <1>5, <1>9, <1>11, <1>12

\* The control pipe is open: the version is asked for, with the timeout on.
LEMMA CtrlOpenedAsks ==
  ASSUME ClientTypeOK, FirstOpen, CtrlOpened, UNCHANGED parked
  PROVE  ~reqTimeout' /\ state' = "GETTING_VERSION" /\ AsksVersion'
  <1> DEFINE f == Reply.fnum
             w == Request("write", "ctrl", f, GetVersion)
             r == Request("read", "ctrl", f, <<>>)
  <1>1. /\ mode = "loop" /\ Rest(Reply) = <<>> /\ toSrv = <<>> /\ toCli' = <<>>
        /\ Reply \in Replied
    BY FirstReply DEF CtrlOpened
  <1>2. "ctrl" \in Pipe /\ f \in Nat /\ fd \in [Pipe -> Nat] /\ io_read \in [Pipe -> Nat]
        /\ io_write \in [Pipe -> Nat] /\ reqTimeout \in BOOLEAN
    BY <1>1 DEF ClientTypeOK, Pipe, Replied
  <1>3. async_write("ctrl", f, GetVersion) = w /\ async_read("ctrl", f) = r
    BY DEF async_write, async_read, Cached, FirstOpen
  <1>4. SendOn(net, <<>>, <<w, r>>)
    BY <1>1, <1>3 DEF CtrlOpened, Send
  <1>5. ~reqTimeout'
    <2>1. <<w, r>>[2].op = "read" /\ 2 \in DOMAIN <<w, r>>
      BY DEF Request
    <2> QED BY <1>4, <2>1 DEF SendOn
  <1>6. fd'["ctrl"] = f /\ io_write'["ctrl"] = f
    BY <1>2 DEF CtrlOpened, WriteIssued, Cached, FirstOpen
  <1>7. mode' = "loop" /\ stdinEv' = "none" /\ parked' = {} /\ state' = "GETTING_VERSION"
    BY <1>1 DEF CtrlOpened, userVars, FirstOpen
  <1>8. \/ pending' = <<>>
        \/ /\ DOMAIN pending' = 1..2
           /\ pending'[1] = [op |-> "write", pipe |-> "ctrl", fnum |-> f, timed |-> reqTimeout]
           /\ pending'[2] = [op |-> "read", pipe |-> "ctrl", fnum |-> f, timed |-> reqTimeout]
    <2> DEFINE A == [i \in DOMAIN <<w, r>> |-> [op |-> <<w, r>>[i].op, pipe |-> <<w, r>>[i].pipe,
                                               fnum |-> <<w, r>>[i].fnum, timed |-> reqTimeout]]
    <2>1. pending' = <<>> \/ pending' = <<>> \o A
      BY <1>4 DEF SendOn
    <2>2. DOMAIN <<w, r>> = 1..2 /\ <<w, r>>[1] = w /\ <<w, r>>[2] = r
      OBVIOUS
    <2>3. A = [i \in 1..2 |-> A[i]] /\ A[1] = [op |-> "write", pipe |-> "ctrl", fnum |-> f, timed |-> reqTimeout]
          /\ A[2] = [op |-> "read", pipe |-> "ctrl", fnum |-> f, timed |-> reqTimeout]
      BY <2>2 DEF Request
    <2>4. A \in Seq(Waiting)
      <3>1. A[1] \in Waiting /\ A[2] \in Waiting
        BY <1>2, <2>3 DEF Waiting, ReqOp
      <3> HIDE DEF A
      <3>2. \A i \in 1..2 : A[i] \in Waiting
        BY <3>1
      <3> QED BY <2>3, <3>2
    <2> HIDE DEF A
    <2>5. <<>> \o A = A
      BY <2>4
    <2>6. DOMAIN A = 1..2
      BY <2>3
    <2> QED BY <2>1, <2>3, <2>5, <2>6
  <1>9. \/ net' # "up"
        \/ /\ DOMAIN toSrv' = 1..2 /\ toSrv'[1] = w /\ toSrv'[2] = r
    <2>1. net' = net
      BY DEF CtrlOpened
    <2>2. net = "up" => toSrv' = <<>> \o <<w, r>>
      BY <1>1, <1>4 DEF SendOn
    <2>3. <<>> \o <<w, r>> = <<w, r>>
      OBVIOUS
    <2> QED BY <2>1, <2>2, <2>3
  <1>10. WriteFirst'
    <2>1. ASSUME NEW i \in DOMAIN toSrv', net' = "up", OnCtrl(toSrv'[i], "read")
          PROVE  \E j \in DOMAIN toSrv' : j < i /\ OnCtrl(toSrv'[j], "write") /\ toSrv'[j].fnum = fd'["ctrl"]
      BY <1>6, <1>9, <2>1 DEF OnCtrl, Request
    <2> QED BY <1>1, <1>7, <2>1 DEF WriteFirst, RepliesInOrder, RequestsInOrder
  <1>11. AsksVersion'
    <2>1. \A i \in DOMAIN pending' :
             /\ i \in {1, 2} /\ pending'[i].pipe = "ctrl" /\ pending'[i].fnum = f
             /\ pending'[i].op = (IF i = 1 THEN "write" ELSE "read")
             /\ pending'[i].timed = reqTimeout
      BY <1>8
    <2> QED BY <1>6, <1>7, <1>10, <2>1 DEF AsksVersion, Asking, TimedWrite
  <1> QED BY <1>5, <1>7, <1>11

\* Failing to open the control pipe leads to the installation or to the exit.
LEMMA FirstFails ==
  ASSUME ClientTypeOK, FirstOpen, mode = "loop", NEW link, NEW status,
         NEW rest \in Seq(Waiting), Within(rest, pending),
         Fail(link, "open", "ctrl", status, rest), parked' = parked,
         status = "notfound" => rest = <<>> /\ toSrv = <<>> /\ toCli' = <<>>
  PROVE  FirstOpen'
  <1>1. /\ pending' = rest
        /\ UNCHANGED <<state, io_read, io_write, timers, stdinEv, toSrv>>
        /\ OnCtrlError("open", status, rest)
    BY DEF Fail, OnCtrlError, sigVars, userVars
  <1>2. \A i \in DOMAIN pending' : pending'[i].op = "open" /\ pending'[i].pipe = "ctrl"
    BY <1>1 DEF Within, FirstOpen
  <1>3. \/ mode' = "exiting"
        \/ mode' = "install" /\ status = "notfound"
    BY <1>1 DEF OnCtrlError, exit_program
  <1> QED BY <1>1, <1>2, <1>3 DEF FirstOpen

\* The service was installed: the control pipe is opened again.
LEMMA FirstInstalled ==
  ASSUME ClientTypeOK, FirstOpen, NEW ok \in BOOLEAN, Installed(ok), parked' = parked,
         reqTimeout
  PROVE  FirstOpen' /\ reqTimeout'
  <1>1. mode = "install" /\ toSrv = <<>> /\ toCli = <<>> /\ pending = <<>>
    BY DEF Installed, FirstOpen, Gone
  <1>2. UNCHANGED <<state, io_read, io_write, timers, stdinEv, toCli>>
    BY DEF Installed, ioVars, sigVars, userVars
  <1>3. CASE ~ok
    BY <1>1, <1>2, <1>3 DEF Installed, reqVars, exit_program, FirstOpen
  <1>4. CASE ok
    <2> DEFINE o == Request("open", "ctrl", 0, <<>>)
               A == [i \in DOMAIN <<o>> |-> [op |-> <<o>>[i].op, pipe |-> <<o>>[i].pipe,
                                             fnum |-> <<o>>[i].fnum, timed |-> reqTimeout]]
    <2>1. SendOn(net, <<>>, <<o>>) /\ mode' = "loop"
      BY <1>1, <1>4 DEF Installed, Send, async_open
    <2>2. DOMAIN <<o>> = 1..1 /\ <<o>>[1] = o /\ o.op = "open" /\ o.pipe = "ctrl"
      BY DEF Request
    <2>3. reqTimeout'
      <3>1. \A i \in DOMAIN <<o>> : <<o>>[i].op # "read"
        BY <2>2
      <3>2. reqTimeout' = (reqTimeout /\ \A i \in DOMAIN <<o>> : <<o>>[i].op # "read")
        BY <2>1 DEF SendOn
      <3> HIDE DEF o
      <3> QED BY <3>1, <3>2
    <2>4. A = [i \in 1..1 |-> A[i]] /\ A[1].op = "open" /\ A[1].pipe = "ctrl" /\ A[1] \in Waiting
      <3>1. "ctrl" \in Pipe /\ reqTimeout \in BOOLEAN
        BY DEF Pipe, ClientTypeOK
      <3> QED BY <2>2, <3>1 DEF Request, Waiting, ReqOp
    <2>5. pending' = IF net = "dead" THEN <<>> ELSE <<>> \o A
      BY <2>1 DEF SendOn
    <2>6. toSrv' = IF net = "up" THEN <<>> \o <<o>> ELSE <<>>
      BY <1>1, <2>1 DEF SendOn
    <2> HIDE DEF A
    <2>7. A \in Seq(Waiting) /\ Len(A) = 1 /\ <<>> \o A = A /\ DOMAIN A = 1..1
      <3>1. \A i \in 1..1 : A[i] \in Waiting
        BY <2>4
      <3> QED BY <2>4, <3>1
    <2>8. /\ Len(pending') <= 1 /\ Len(toSrv') <= Len(pending')
          /\ \A i \in DOMAIN pending' : pending'[i].op = "open" /\ pending'[i].pipe = "ctrl"
      <3>1. net = "up" => Len(toSrv') = 1 /\ Len(pending') = 1
        BY <2>5, <2>6, <2>7
      <3>2. net # "up" => toSrv' = <<>> /\ Len(toSrv') = 0
        BY <2>6
      <3>3. net = "dead" => pending' = <<>> /\ Len(pending') = 0
        BY <2>5
      <3>4. net # "dead" => pending' = A /\ Len(pending') = 1
        BY <2>5, <2>7
      <3>5. \A i \in DOMAIN pending' : pending'[i].op = "open" /\ pending'[i].pipe = "ctrl"
        BY <2>4, <2>7, <3>3, <3>4
      <3>6. Len(pending') = 0 \/ Len(pending') = 1
        BY ONLY <3>3, <3>4
      <3>7. Len(toSrv') = 0 \/ (Len(toSrv') = 1 /\ Len(pending') = 1)
        BY <3>1, <3>2
      <3>8. Len(pending') <= 1 /\ Len(toSrv') <= Len(pending')
        <4>1. CASE Len(pending') = 0
          <5>1. Len(toSrv') = 0
            BY <3>7, <4>1
          <5> QED BY <4>1, <5>1
        <4>2. CASE Len(pending') = 1
          <5>1. Len(toSrv') \in {0, 1}
            BY <3>7
          <5> QED BY <4>2, <5>1, SMTT(30)
        <4> QED BY <3>6, <4>1, <4>2
      <3> QED BY <3>5, <3>8
    <2>9. \A i \in DOMAIN toSrv' : toSrv'[i].op = "open"
      <3>1. <<>> \o <<o>> = <<o>>
        OBVIOUS
      <3> QED BY <2>2, <2>6, <3>1
    <2>10. toCli' = <<>> /\ Len(toCli') = 0 /\ Len(toSrv') \in Nat
      <3>1. <<>> \o <<o>> = <<o>> /\ Len(<<o>>) = 1
        OBVIOUS
      <3> QED BY <1>1, <1>2, <2>6, <3>1
    <2>11. Len(toSrv') + Len(toCli') <= Len(pending')
      BY <2>8, <2>10
    <2> QED BY <1>2, <2>1, <2>3, <2>8, <2>9, <2>11 DEF FirstOpen
  <1> QED BY <1>3, <1>4

\* As long as the timeout is on the client does nothing but to open the control
\* pipe; when it is open the timeout is off.
LEMMA FirstStep ==
  ASSUME SessTypeOK, FirstOpen, reqTimeout, SessNext
  PROVE  \/ reqTimeout' /\ FirstOpen'
         \/ ~reqTimeout' /\ state' = "GETTING_VERSION" /\ AsksVersion'
  <1>0. ClientTypeOK /\ "ctrl" \in Pipe
    BY DEF SessTypeOK, Pipe
  <1>1. /\ toSrv \in Seq(Wired(account)) /\ toCli \in Seq(Replied) /\ pending \in Seq(Waiting)
    BY <1>0 DEF ClientTypeOK
  <1>2. CASE ServerNext
    BY <1>2, ServerFirst DEF ServerNext
  <1>3. CASE \/ ThreadStep \/ ProcWriteStep \/ ProcReadStep \/ ProcExitStep \/ ServerLoopReady
    <2>1. UNCHANGED <<clientVars, parked>>
      BY <1>3 DEF ThreadStep, ProcWriteStep, ProcReadStep, ProcExitStep, ServerLoopReady, srvVars
    <2> QED
      BY <2>1 DEF FirstOpen, clientVars, stateVars, ioVars, reqVars, sigVars, userVars
  <1>4. CASE NetFail
    <2>1. UNCHANGED <<state, stdinEv, timers, io_read, io_write, pending, mode, parked, reqTimeout>>
      BY <1>4 DEF NetFail, stateVars, ioVars, sigVars, userVars, srvVars
    <2>2. /\ toSrv' = toSrv \/ toSrv' = <<>>
          /\ toCli' = toCli \/ toCli' = <<>>
      BY <1>4 DEF NetFail
    <2>3. Len(<<>>) = 0 /\ Len(toSrv) \in Nat /\ Len(toCli) \in Nat /\ Len(pending) \in Nat
      BY <1>1
    <2>4. Len(toSrv') <= Len(toSrv) /\ Len(toCli') <= Len(toCli)
          /\ Len(toSrv') \in Nat /\ Len(toCli') \in Nat
      BY <2>2, <2>3
    <2>5. Len(toSrv) + Len(toCli) <= Len(pending) => Len(toSrv') + Len(toCli') <= Len(pending)
      BY <2>3, <2>4
    <2>6. \A i \in DOMAIN toSrv' : toSrv'[i].op = "open"
      BY <2>2 DEF FirstOpen
    <2>7. mode = "install" => toSrv' = <<>> /\ toCli' = <<>>
      BY <2>2 DEF FirstOpen, Gone
    <2> QED BY <2>1, <2>5, <2>6, <2>7 DEF FirstOpen
  <1>5. CASE SignalStep
    <2>1. /\ UNCHANGED <<state, stdinEv, timers, io_read, io_write, pending, toSrv, toCli, parked,
                         reqTimeout>>
          /\ mode' = mode \/ mode' = "killed"
      BY <1>5 DEF SignalStep, Signal, ioVars, reqVars, userVars, Remote, srvVars
    <2> QED BY <2>1 DEF FirstOpen, Gone
  <1>6. CASE ExitStep
    <2>1. /\ UNCHANGED <<state, stdinEv, timers, io_read, io_write, pending, toSrv, toCli, parked,
                         reqTimeout>>
          /\ mode' = "exited"
      BY <1>6 DEF ExitStep, Exit, ioVars, reqVars, sigVars, userVars, Remote, srvVars
    <2> QED BY <2>1 DEF FirstOpen, Gone
  <1>7. CASE CompletionStep
    <2>0. parked' = parked
      BY <1>7 DEF CompletionStep, Remote, srvVars
    <2>1. CASE DropReply
      <3>1. /\ UNCHANGED <<state, stdinEv, timers, io_read, io_write, pending, mode, toSrv, reqTimeout>>
            /\ mode = "loop" /\ toCli # <<>> /\ toCli' = Tail(toCli)
        BY <2>1 DEF DropReply, Receiving, stateVars, ioVars, reqVars, sigVars, userVars
      <3>2. Len(toCli') = Len(toCli) - 1 /\ Len(toCli) \in Nat /\ Len(toSrv) \in Nat /\ Len(pending) \in Nat
        BY <1>1, <3>1, TailElements
      <3>3. Len(toSrv) + Len(toCli) <= Len(pending) => Len(toSrv) + Len(toCli') <= Len(pending)
        BY <3>2
      <3> QED BY <2>0, <3>1, <3>3 DEF FirstOpen, Gone
    <2>2. CASE CtrlOpened
      BY <1>0, <2>0, <2>2, CtrlOpenedAsks
    <2>3. CASE ErrorReply
      <3>1. PICK op \in {"open", "read", "write"} : Receive(op, FALSE)
        BY <2>3 DEF ErrorReply
      <3>2. /\ mode = "loop" /\ Reply.op = "open" /\ Reply.pipe = "ctrl" /\ Rest(Reply) = <<>>
            /\ toSrv = <<>> /\ toCli' = <<>>
        BY <1>0, <3>1, FirstReply
      <3>3. Fail(net, "open", "ctrl", Reply.status, <<>>)
        BY <2>3, <3>2 DEF ErrorReply
      <3>4. <<>> \in Seq(Waiting) /\ Within(<<>>, pending)
        BY DEF Within
      <3>5. FirstOpen'
        BY <1>0, <2>0, <3>2, <3>3, <3>4, FirstFails
      <3>6. reqTimeout'
        BY <3>3 DEF Fail, OnCtrlError
      <3> QED BY <3>5, <3>6
    <2>4. ~(\E op \in {"read", "write", "close"}, ok \in BOOLEAN : Receive(op, ok))
      BY <1>0, FirstReply
    <2>5. ~StdOpened
      BY <1>0, FirstReply DEF StdOpened
    <2> QED
      BY <1>7, <2>1, <2>2, <2>3, <2>4, <2>5
      DEF CompletionStep, Completion, OnStdIoErr, OnReturnCode, OnVersion, OnBadVersion,
          OnServiceError, OnUnknown, CtrlRead, OutputRead, Written, Closed
  <1>8. CASE TimeoutStep
    <2>1. PICK i \in DOMAIN pending :
             Fail(net, pending[i].op, pending[i].pipe, "timeout", RemoveAt(pending, i))
      BY <1>8 DEF TimeoutStep, RequestTimeout
    <2>2. Fail(net, "open", "ctrl", "timeout", RemoveAt(pending, i))
      BY <2>1 DEF FirstOpen
    <2>3. RemoveAt(pending, i) \in Seq(Waiting) /\ Within(RemoveAt(pending, i), pending)
      BY <1>1, RemoveAtType, RemoveAtWithin
    <2>4. mode = "loop" /\ parked' = parked
      BY <1>8 DEF TimeoutStep, RequestTimeout, Remote, srvVars
    <2>5. FirstOpen'
      BY <1>0, <2>2, <2>3, <2>4, FirstFails
    <2>6. reqTimeout'
      BY <2>2 DEF Fail, OnCtrlError
    <2> QED BY <2>5, <2>6
  <1>9. CASE DeadStep
    <2>1. mode = "loop" /\ parked' = parked /\ toCli' = toCli
      BY <1>9 DEF DeadStep, TransportDead, Remote, srvVars
    <2>2. CASE pending = <<>>
      BY <1>9, <2>1, <2>2
      DEF DeadStep, TransportDead, FirstOpen, stateVars, ioVars, reqVars, sigVars, userVars
    <2>3. CASE pending # <<>>
      <3>1. /\ Front(pending) \in Seq(Waiting) /\ Within(Front(pending), pending)
            /\ \E i \in DOMAIN pending : Last(pending) = pending[i]
        BY <1>1, <2>3, FrontElements
      <3>2. Last(pending).op = "open" /\ Last(pending).pipe = "ctrl"
        BY <3>1 DEF FirstOpen
      <3>3. Fail("dead", "open", "ctrl", "network", Front(pending))
        BY <1>9, <2>3, <3>2 DEF DeadStep, TransportDead
      <3>4. FirstOpen'
        BY <1>0, <2>1, <3>1, <3>3, FirstFails
      <3>5. reqTimeout'
        BY <3>3 DEF Fail, OnCtrlError
      <3> QED BY <3>4, <3>5
    <2> QED BY <2>2, <2>3
  <1>10. ~(StdinStep \/ TimerStep)
    BY DEF StdinStep, StdinRead, TimerStep, Timer, FirstOpen
  <1>11. CASE InstallStep
    <2>1. mode # "reinstall"
      BY DEF FirstOpen, Gone
    <2>2. PICK ok \in BOOLEAN : Installed(ok)
      BY <1>11, <2>1
      DEF InstallStep, InstallOk, InstallFails, ReinstallOk, ReinstallFails, Reinstalled
    <2>3. parked' = parked
      BY <1>11 DEF InstallStep, InstallOk, InstallFails, ReinstallOk, ReinstallFails, srvVars
    <2> QED BY <1>0, <2>2, <2>3, FirstInstalled
  <1> QED
    BY <1>2, <1>3, <1>4, <1>5, <1>6, <1>7, <1>8, <1>9, <1>10, <1>11 DEF SessNext

\* A reply to a read follows one to the write.
LEMMA AnswersInOrder ==
  ASSUME NEW S, toCli \in Seq(S), RepliesInOrder, NEW rs \in Seq(S), Answers(rs),
         UNCHANGED <<fd, net, mode>>,
         \A k \in DOMAIN rs : net = "up" /\ OnCtrl(rs[k], "read") => WriteAnswered
  PROVE  /\ RepliesInOrder'
         /\ WriteAnswered => WriteAnswered'
         /\ net = "up" /\ mode \notin Gone =>
                \A k \in DOMAIN rs : \E j \in DOMAIN toCli' : toCli'[j] = rs[k]
  <1>1. CASE ~(net = "up" /\ mode \notin Gone)
    <2>1. toCli' = toCli /\ fd' = fd
      BY <1>1 DEF Answers
    <2> QED BY <1>1, <2>1 DEF RepliesInOrder, WriteAnswered
  <1>2. CASE net = "up" /\ mode \notin Gone
    <2>1. toCli' = toCli \o rs /\ fd' = fd
      BY <1>2 DEF Answers
    <2>2. DOMAIN toCli' = 1..(Len(toCli) + Len(rs))
      BY <2>1, ConcatElements
    <2>3. /\ Len(toCli) \in Nat /\ Len(rs) \in Nat
          /\ DOMAIN toCli = 1..Len(toCli) /\ DOMAIN rs = 1..Len(rs)
      OBVIOUS
    <2>4. \A i \in 1..(Len(toCli) + Len(rs)) :
             toCli'[i] = IF i <= Len(toCli) THEN toCli[i] ELSE rs[i - Len(toCli)]
      BY <2>1, ConcatElements
    <2>5. \A i \in DOMAIN toCli : i \in DOMAIN toCli' /\ toCli'[i] = toCli[i]
      BY <2>2, <2>3, <2>4
    <2>6. \A k \in DOMAIN rs : Len(toCli) + k \in DOMAIN toCli' /\ toCli'[Len(toCli) + k] = rs[k]
      <3>1. ASSUME NEW k \in DOMAIN rs
            PROVE  /\ Len(toCli) + k \in 1..(Len(toCli) + Len(rs)) /\ ~(Len(toCli) + k <= Len(toCli))
                   /\ Len(toCli) + k - Len(toCli) = k
        BY <2>3
      <3> QED BY <2>2, <2>4, <3>1
    <2>7. ASSUME NEW i \in DOMAIN toCli', i \notin DOMAIN toCli
          PROVE  /\ i - Len(toCli) \in DOMAIN rs /\ toCli'[i] = rs[i - Len(toCli)]
                 /\ \A j \in DOMAIN toCli : j < i
      <3>1. i \in 1..(Len(toCli) + Len(rs)) /\ ~(i <= Len(toCli))
        BY <2>2, <2>3, <2>7
      <3>2. i - Len(toCli) \in DOMAIN rs /\ \A j \in DOMAIN toCli : j < i
        BY <2>3, <3>1
      <3> QED BY <2>4, <3>1, <3>2
    <2>8. WriteAnswered => WriteAnswered'
      BY <2>1, <2>5 DEF WriteAnswered
    <2>9. ASSUME NEW i \in DOMAIN toCli', OnCtrl(toCli'[i], "read")
          PROVE  \E j \in DOMAIN toCli' : j < i /\ OnCtrl(toCli'[j], "write") /\ toCli'[j].fnum = fd'["ctrl"]
      <3>1. CASE i \in DOMAIN toCli
        BY <2>1, <2>5, <2>9, <3>1, SMTT(30) DEF RepliesInOrder
      <3>2. CASE i \notin DOMAIN toCli
        <4>1. WriteAnswered
          BY <1>2, <2>7, <2>9, <3>2
        <4> QED BY <2>1, <2>5, <2>7, <3>2, <4>1 DEF WriteAnswered
      <3> QED BY <3>1, <3>2
    <2> QED BY <2>6, <2>8, <2>9 DEF RepliesInOrder
  <1> QED BY <1>1, <1>2

\* The request the server takes may be the write itself.
LEMMA ServedInOrder ==
  ASSUME NEW S, toSrv \in Seq(S), RequestsInOrder, toSrv # <<>>, toSrv' = Tail(toSrv), fd' = fd,
         WriteAnswered => WriteAnswered',
         OnCtrl(Query, "write") /\ Query.fnum = fd["ctrl"] => WriteAnswered'
  PROVE  /\ RequestsInOrder'
         /\ OnCtrl(Query, "read") => WriteAnswered
  <1>1. /\ Len(toSrv) \in Nat /\ Len(toSrv) > 0 /\ DOMAIN toSrv = 1..Len(toSrv)
        /\ DOMAIN toSrv' = 1..(Len(toSrv) - 1) /\ Query = toSrv[1] /\ 1 \in DOMAIN toSrv
        /\ \A k \in DOMAIN toSrv' : k + 1 \in DOMAIN toSrv /\ toSrv'[k] = toSrv[k + 1]
    BY TailElements DEF Query
  <1>2. ASSUME NEW i \in DOMAIN toSrv', OnCtrl(toSrv'[i], "read"), ~WriteAnswered'
        PROVE  \E j \in DOMAIN toSrv' : j < i /\ OnCtrl(toSrv'[j], "write") /\ toSrv'[j].fnum = fd'["ctrl"]
    <2>1. i \in Nat /\ i + 1 \in DOMAIN toSrv /\ OnCtrl(toSrv[i + 1], "read") /\ ~WriteAnswered
      BY <1>1, <1>2
    <2>2. PICK j \in DOMAIN toSrv : j < i + 1 /\ OnCtrl(toSrv[j], "write") /\ toSrv[j].fnum = fd["ctrl"]
      BY <2>1 DEF RequestsInOrder
    <2>3. j # 1
      BY <1>1, <1>2, <2>2
    <2>4. j - 1 \in DOMAIN toSrv' /\ j - 1 < i /\ toSrv'[j - 1] = toSrv[j]
      <3>1. j - 1 \in DOMAIN toSrv' /\ j - 1 < i /\ j - 1 + 1 = j
        BY <1>1, <2>1, <2>2, <2>3
      <3> QED BY <1>1, <3>1
    <2> QED BY <2>2, <2>4
  <1>3. ASSUME OnCtrl(Query, "read") PROVE WriteAnswered
    <2>1. \A j \in DOMAIN toSrv : ~(j < 1)
      BY <1>1
    <2> QED BY <1>1, <1>3, <2>1 DEF RequestsInOrder
  <1> QED BY <1>2, <1>3 DEF RequestsInOrder

LEMMA OneInOrder ==
  ASSUME ClientTypeOK, RepliesInOrder, NEW r, Answers(<<r>>), UNCHANGED <<fd, net, mode>>,
         net = "up" /\ OnCtrl(r, "read") => WriteAnswered
  PROVE  /\ RepliesInOrder'
         /\ WriteAnswered => WriteAnswered'
         /\ net = "up" /\ mode \notin Gone /\ OnCtrl(r, "write") /\ r.fnum = fd["ctrl"] => WriteAnswered'
  <1> DEFINE S == Replied \union {r}
  <1>1. toCli \in Seq(S) /\ <<r>> \in Seq(S)
    <2>1. toCli \in Seq(Replied)
      BY DEF ClientTypeOK
    <2>2. \A i \in 1..Len(toCli) : toCli[i] \in S
      BY <2>1
    <2> HIDE DEF S
    <2>3. toCli = [i \in 1..Len(toCli) |-> toCli[i]] /\ Len(toCli) \in Nat
      BY <2>1
    <2>4. toCli \in Seq(S)
      BY <2>2, <2>3
    <2>5. r \in S
      BY DEF S
    <2> QED BY <2>4, <2>5
  <1>2. \A k \in DOMAIN <<r>> : net = "up" /\ OnCtrl(<<r>>[k], "read") => WriteAnswered
    OBVIOUS
  <1> HIDE DEF S
  <1>3. /\ RepliesInOrder'
        /\ WriteAnswered => WriteAnswered'
        /\ net = "up" /\ mode \notin Gone =>
                \A k \in DOMAIN <<r>> : \E j \in DOMAIN toCli' : toCli'[j] = <<r>>[k]
    BY <1>1, <1>2, AnswersInOrder
  <1>4. net = "up" /\ mode \notin Gone => \E j \in DOMAIN toCli' : toCli'[j] = r
    <2>1. 1 \in DOMAIN <<r>> /\ <<r>>[1] = r
      OBVIOUS
    <2> QED BY <1>3, <2>1
  <1> QED BY <1>3, <1>4 DEF WriteAnswered

\* The server keeps the order of the write and the read it asks for.
LEMMA ServerInOrder ==
  ASSUME SessTypeOK, ServerNext, WriteFirst, mode \notin Gone
  PROVE  WriteFirst'
  <1>0. /\ ClientTypeOK /\ ServerTypeOK /\ toSrv \in Seq(Wired(account)) /\ toCli \in Seq(Replied)
    BY DEF SessTypeOK, ClientTypeOK
  <1>1. UNCHANGED <<fd, net, mode>>
    BY DEF ServerNext, stateVars, ioVars
  <1>2. /\ RepliesInOrder
        /\ net = "up" => ("ctrl" \in parked => WriteAnswered) /\ RequestsInOrder
    BY DEF WriteFirst, RepliesInOrder, RequestsInOrder
  <1>3. CASE Hangup
    BY <1>1, <1>3 DEF Hangup, WriteFirst, RepliesInOrder, RequestsInOrder
  <1>4. CASE AnswerRead
    <2>1. PICK p \in parked :
             /\ \E r : Answers(<<r>>) /\ r.op = "read" /\ r.pipe = p
             /\ parked' = parked \ {p}
      <3>1. ASSUME NEW p \in parked, NEW status, NEW data,
                   Answers(<<Answer("read", p, srvFnum[p], status, data)>>)
            PROVE  \E r : Answers(<<r>>) /\ r.op = "read" /\ r.pipe = p
        <4>1. /\ Answer("read", p, srvFnum[p], status, data).op = "read"
              /\ Answer("read", p, srvFnum[p], status, data).pipe = p
          BY DEF Answer
        <4> QED BY <3>1, <4>1
      <3> QED BY <1>4, <3>1 DEF AnswerRead
    <2>2. PICK r : Answers(<<r>>) /\ r.op = "read" /\ r.pipe = p
      BY <2>1
    <2>3. net = "up" /\ OnCtrl(r, "read") => WriteAnswered
      BY <1>2, <2>2 DEF OnCtrl
    <2>4. RepliesInOrder' /\ (WriteAnswered => WriteAnswered')
      BY <1>0, <1>1, <1>2, <2>2, <2>3, OneInOrder
    <2>5. toSrv' = toSrv
      BY <1>4 DEF AnswerRead
    <2>6. net = "up" => RequestsInOrder'
      BY <1>1, <1>2, <2>4, <2>5 DEF RequestsInOrder
    <2> QED BY <1>1, <1>2, <2>1, <2>4, <2>6 DEF WriteFirst, RepliesInOrder, RequestsInOrder
  <1>5. ASSUME toSrv # <<>>, toSrv' = Tail(toSrv), NEW r, Answers(<<r>>),
               r.op = "read" => Query.op = "read", r.pipe = Query.pipe,
               Query.op = "write" => r.op = "write" /\ r.fnum = Query.fnum,
               parked' \subseteq parked
        PROVE  WriteFirst'
    <2>1. \A i \in DOMAIN toSrv : ~(i < 1)
      BY <1>0
    <2>2. Query = toSrv[1] /\ 1 \in DOMAIN toSrv
      BY <1>0, <1>5, TailElements DEF Query
    <2>3. net = "up" /\ OnCtrl(r, "read") => WriteAnswered
      BY <1>2, <1>5, <2>1, <2>2 DEF RequestsInOrder, OnCtrl
    <2>4. /\ RepliesInOrder' /\ (WriteAnswered => WriteAnswered')
          /\ net = "up" /\ OnCtrl(r, "write") /\ r.fnum = fd["ctrl"] => WriteAnswered'
      BY <1>0, <1>1, <1>2, <1>5, <2>3, OneInOrder
    <2>5. net = "up" /\ OnCtrl(Query, "write") /\ Query.fnum = fd["ctrl"] => WriteAnswered'
      BY <1>5, <2>4 DEF OnCtrl
    <2>6. net = "up" => RequestsInOrder'
      BY <1>0, <1>1, <1>2, <1>5, <2>4, <2>5, ServedInOrder
    <2> QED BY <1>1, <1>2, <1>5, <2>4, <2>6 DEF WriteFirst, RepliesInOrder, RequestsInOrder
  <1>6. ASSUME toSrv # <<>>, toSrv' = Tail(toSrv), NEW status, Refuse(status)
        PROVE  WriteFirst'
    <2> DEFINE r == Answer(Query.op, Query.pipe, Query.fnum, status, <<>>)
    <2>1. r.op = Query.op /\ r.pipe = Query.pipe /\ r.fnum = Query.fnum
      BY DEF Answer
    <2>2. Answers(<<r>>) /\ parked' = parked
      BY <1>6 DEF Refuse, Result, srvVars
    <2> HIDE DEF r
    <2> QED BY <1>5, <1>6, <2>1, <2>2
  <1>7. CASE ServeOpen
    <2>1. toSrv # <<>> /\ toSrv' = Tail(toSrv) /\ Query.op = "open"
      BY <1>7 DEF ServeOpen, Serve
    <2>2. CASE Refuse("notfound")
      BY <1>6, <2>1, <2>2
    <2>3. CASE /\ Answers(<<Answer("open", Query.pipe, srvFnum[Query.pipe] + 1, "ok", <<>>)>>)
               /\ UNCHANGED parked
      <3> DEFINE r == Answer("open", Query.pipe, srvFnum[Query.pipe] + 1, "ok", <<>>)
      <3>1. r.op = "open" /\ r.pipe = Query.pipe
        BY DEF Answer
      <3>2. Answers(<<r>>) /\ parked' = parked
        BY <2>3
      <3> HIDE DEF r
      <3> QED BY <1>5, <2>1, <3>1, <3>2
    <2> QED BY <1>7, <2>2, <2>3 DEF ServeOpen
  <1>8. CASE ServeWrite
    <2>1. toSrv # <<>> /\ toSrv' = Tail(toSrv) /\ Query.op = "write"
      BY <1>8 DEF ServeWrite, Serve
    <2>2. CASE Refuse("broken") \/ Refuse("invalid")
      BY <1>6, <2>1, <2>2
    <2>3. CASE Result("ok", <<>>) /\ UNCHANGED srvVars
      <3> DEFINE r == Answer(Query.op, Query.pipe, Query.fnum, "ok", <<>>)
      <3>1. r.op = Query.op /\ r.pipe = Query.pipe /\ r.fnum = Query.fnum
        BY DEF Answer
      <3>2. Answers(<<r>>) /\ parked' = parked
        BY <2>3 DEF Result, srvVars
      <3> HIDE DEF r
      <3> QED BY <1>5, <2>1, <3>1, <3>2
    <2> QED BY <1>8, <2>2, <2>3 DEF ServeWrite
  <1>9. CASE ServeRead
    <2>1. toSrv # <<>> /\ toSrv' = Tail(toSrv) /\ Query.op = "read"
      BY <1>9 DEF ServeRead, Serve
    <2>2. CASE Refuse("invalid")
      BY <1>6, <2>1, <2>2
    <2>3. CASE parked' = parked \union {Query.pipe} /\ UNCHANGED toCli
      <3>1. WriteAnswered' = WriteAnswered /\ RepliesInOrder'
        BY <1>1, <1>2, <2>3 DEF WriteAnswered, RepliesInOrder
      <3>2. net = "up" => RequestsInOrder' /\ (OnCtrl(Query, "read") => WriteAnswered)
        <4>1. ~OnCtrl(Query, "write")
          BY <2>1 DEF OnCtrl
        <4> QED BY <1>0, <1>1, <1>2, <2>1, <3>1, <4>1, ServedInOrder
      <3>3. net = "up" /\ "ctrl" \in parked' => WriteAnswered'
        BY <1>2, <2>1, <2>3, <3>1, <3>2 DEF OnCtrl
      <3> QED BY <1>1, <3>1, <3>2, <3>3 DEF WriteFirst, RepliesInOrder, RequestsInOrder
    <2> QED BY <1>9, <2>2, <2>3 DEF ServeRead
  <1>10. CASE ServeClose
    <2>1. toSrv # <<>> /\ toSrv' = Tail(toSrv) /\ Query.op = "close" /\ Query.pipe \in Pipe /\ Query.fnum \in Nat
      BY <1>0, <1>10, QueryType DEF ServeClose, Serve
    <2>2. CASE Refuse("invalid")
      BY <1>6, <2>1, <2>2
    <2> DEFINE cancelled == Answer("read", Query.pipe, Query.fnum, "cancelled", <<>>)
               closed == Answer("close", Query.pipe, Query.fnum, "ok", <<>>)
               rs == (IF Query.pipe \in parked THEN <<cancelled>> ELSE <<>>) \o <<closed>>
    <2>3. CASE Answers(rs) /\ parked' = parked \ {Query.pipe}
      <3>1. /\ cancelled \in Replied /\ closed \in Replied
            /\ cancelled.pipe = Query.pipe /\ closed.op = "close"
        BY <2>1, AnswerType DEF ReqOp, Answer
      <3>2. OnCtrl(cancelled, "read") => Query.pipe = "ctrl"
        BY <3>1 DEF OnCtrl
      <3> HIDE DEF cancelled, closed
      <3>3. rs \in Seq(Replied) /\ \A k \in DOMAIN rs : rs[k] = closed \/ (Query.pipe \in parked /\ rs[k] = cancelled)
        <4>1. CASE Query.pipe \in parked
          <5>1. /\ <<cancelled>> \in Seq(Replied) /\ <<closed>> \in Seq(Replied)
                /\ Len(<<cancelled>>) = 1 /\ Len(<<closed>>) = 1
                /\ <<cancelled>>[1] = cancelled /\ <<closed>>[1] = closed
            BY <3>1
          <5> DEFINE a == <<cancelled>>
                     b == <<closed>>
          <5>2. a \in Seq(Replied) /\ b \in Seq(Replied) /\ Len(a) = 1 /\ Len(b) = 1 /\ a[1] = cancelled /\ b[1] = closed
            BY <5>1
          <5>3. rs = a \o b
            BY <4>1
          <5> HIDE DEF a, b
          <5>4. a \o b \in Seq(Replied)
            BY <5>2
          <5>5. DOMAIN (a \o b) = 1..(Len(a) + Len(b))
            <6>1. a \in Seq(Replied) /\ b \in Seq(Replied)
              BY <5>2
            <6> QED BY ONLY <6>1, ConcatElements
          <5>6. \A k \in 1..(Len(a) + Len(b)) : (a \o b)[k] = IF k <= Len(a) THEN a[k] ELSE b[k - Len(a)]
            BY ONLY <5>2, ConcatElements
          <5>7. \A k \in 1..2 : (a \o b)[k] \in {cancelled, closed}
            <6>1. (a \o b)[1] = a[1] /\ (a \o b)[2] = b[1]
              <7>1. Len(a) = 1 /\ Len(b) = 1
                BY <5>2
              <7>2. /\ (a \o b)[1] = IF 1 <= Len(a) THEN a[1] ELSE b[1 - Len(a)]
                    /\ (a \o b)[2] = IF 2 <= Len(a) THEN a[2] ELSE b[2 - Len(a)]
                BY <5>6, <7>1
              <7> QED BY <7>1, <7>2
            <6>2. \A k \in 1..2 : k = 1 \/ k = 2
              OBVIOUS
            <6> QED BY <5>2, <6>1, <6>2
          <5>8. \A k \in DOMAIN (a \o b) : (a \o b)[k] \in {cancelled, closed}
            BY <5>2, <5>5, <5>7
          <5> HIDE DEF rs
          <5> QED BY <4>1, <5>3, <5>4, <5>8
        <4>2. CASE Query.pipe \notin parked
          <5>1. rs = <<closed>>
            BY <4>2
          <5> QED BY <3>1, <5>1
        <4> QED BY <4>1, <4>2
      <3> HIDE DEF rs
      <3>4. \A k \in DOMAIN rs : net = "up" /\ OnCtrl(rs[k], "read") => WriteAnswered
        BY <1>2, <3>1, <3>2, <3>3 DEF OnCtrl
      <3>5. RepliesInOrder' /\ (WriteAnswered => WriteAnswered')
        BY <1>0, <1>1, <1>2, <2>3, <3>3, <3>4, AnswersInOrder
      <3>6. net = "up" => RequestsInOrder'
        <4>1. ~OnCtrl(Query, "write")
          BY <2>1 DEF OnCtrl
        <4> QED BY <1>0, <1>1, <1>2, <2>1, <3>5, <4>1, ServedInOrder
      <3> QED BY <1>1, <1>2, <2>3, <3>5, <3>6 DEF WriteFirst, RepliesInOrder, RequestsInOrder
    <2> QED BY <1>10, <2>2, <2>3 DEF ServeClose
  <1> QED BY <1>3, <1>4, <1>7, <1>8, <1>9, <1>10 DEF ServerNext

\* One of them is taken out.
LEMMA RemoveAtAsking ==
  ASSUME NEW q \in Seq(Waiting), NEW m \in DOMAIN q, NEW f, Asking(q, f)
  PROVE  /\ Asking(RemoveAt(q, m), f)
         /\ \A k \in DOMAIN RemoveAt(q, m) :
               \E i \in DOMAIN q : i # m /\ RemoveAt(q, m)[k] = q[i]
  <1> DEFINE r == RemoveAt(q, m)
             at(k) == IF k < m THEN k ELSE k + 1
  <1>1. DOMAIN q \subseteq Nat
    OBVIOUS
  <1>2. \A k \in DOMAIN r : k \in DOMAIN q /\ k + 1 \in DOMAIN q /\ r[k] = IF k < m THEN q[k] ELSE q[k + 1]
    BY RemoveAtElements
  <1>3. \A k \in DOMAIN r : k \in Nat /\ at(k) \in DOMAIN q /\ r[k] = q[at(k)] /\ at(k) # m
    BY <1>1, <1>2
  <1>4. \A k, l \in DOMAIN r : (k < l => at(k) < at(l)) /\ (at(k) = at(l) => k = l)
    BY <1>1, <1>3
  <1> HIDE DEF r, at
  <1>5. Asking(r, f)
    BY <1>3, <1>4 DEF Asking
  <1>6. \A k \in DOMAIN r : \E i \in DOMAIN q : i # m /\ r[k] = q[i]
    BY <1>3
  <1> QED BY <1>5, <1>6 DEF r

\* What is known of the request that a reply belongs to.
LEMMA AskingReply ==
  ASSUME ClientTypeOK, Asking(pending, fd["ctrl"]), NEW op, NEW ok, Receive(op, ok)
  PROVE  /\ Matched(Reply) \in DOMAIN pending
         /\ op \in {"write", "read"} /\ Reply.op = op /\ Reply.pipe = "ctrl" /\ Reply.fnum = fd["ctrl"]
         /\ pending[Matched(Reply)].op = op
         /\ op = "write" => \A i \in DOMAIN pending : pending[i].op = "write" => Matched(Reply) <= i
         /\ toCli # <<>> /\ Reply = toCli[1] /\ 1 \in DOMAIN toCli
         /\ Rest(Reply) \in Seq(Waiting) /\ Asking(Rest(Reply), fd["ctrl"])
         /\ \A k \in DOMAIN Rest(Reply) :
               \E i \in DOMAIN pending : i # Matched(Reply) /\ Rest(Reply)[k] = pending[i]
  <1>1. /\ pending \in Seq(Waiting) /\ toCli \in Seq(Replied)
        /\ Matching(Reply) # {} /\ toCli # <<>> /\ Reply.op = op
    BY DEF ClientTypeOK, Receive
  <1>2. /\ Matched(Reply) \in DOMAIN pending /\ Matched(Reply) \in Matching(Reply)
        /\ \A i \in Matching(Reply) : Matched(Reply) <= i
    BY <1>1, MatchedPending
  <1>3. /\ op \in {"write", "read"} /\ Reply.pipe = "ctrl" /\ Reply.fnum = fd["ctrl"]
        /\ pending[Matched(Reply)].op = op
    BY <1>1, <1>2 DEF Matching, Asking
  <1>4. op = "write" => \A i \in DOMAIN pending : pending[i].op = "write" => i \in Matching(Reply)
    BY <1>1, <1>3 DEF Matching, Asking
  <1>5. Reply = toCli[1] /\ 1 \in DOMAIN toCli
    BY <1>1, TailElements DEF Reply
  <1>6. /\ Rest(Reply) \in Seq(Waiting) /\ Asking(Rest(Reply), fd["ctrl"])
        /\ \A k \in DOMAIN Rest(Reply) :
              \E i \in DOMAIN pending : i # Matched(Reply) /\ Rest(Reply)[k] = pending[i]
    BY <1>1, <1>2, RestType, RemoveAtAsking DEF Rest
  <1> QED BY <1>1, <1>2, <1>3, <1>4, <1>5, <1>6

\* A read can only complete when the write has, and then nothing is left that
\* is subject to the timeout.
LEMMA ReadLeavesUntimed ==
  ASSUME ClientTypeOK, AsksVersion, NEW ok, Receive("read", ok)
  PROVE  \A k \in DOMAIN Rest(Reply) : ~Rest(Reply)[k].timed
  <1>1. Asking(pending, fd["ctrl"]) /\ (TimedWrite => WriteFirst)
    BY DEF AsksVersion
  <1>2. /\ Matched(Reply) \in DOMAIN pending /\ pending[Matched(Reply)].op = "read"
        /\ OnCtrl(Reply, "read") /\ Reply = toCli[1] /\ 1 \in DOMAIN toCli
        /\ \A k \in DOMAIN Rest(Reply) :
              \E i \in DOMAIN pending : i # Matched(Reply) /\ Rest(Reply)[k] = pending[i]
    BY <1>1, AskingReply DEF OnCtrl
  <1>3. ~WriteFirst
    <2>1. \A j \in DOMAIN toCli : ~(j < 1)
      BY DEF ClientTypeOK
    <2> QED BY <1>2, <2>1 DEF WriteFirst, RepliesInOrder, RequestsInOrder
  <1>4. ASSUME NEW i \in DOMAIN pending, pending[i].timed
        PROVE  i = Matched(Reply)
    <2>1. pending[i].op = "read"
      BY <1>1, <1>3, <1>4 DEF TimedWrite, Asking
    <2> QED BY <1>1, <1>2, <2>1 DEF Asking
  <1> QED BY <1>2, <1>4

\* The write that completes first is the one that asks for the version.
LEMMA WriteLeavesAsking ==
  ASSUME ClientTypeOK, AsksVersion, Written
  PROVE  AsksVersion'
  <1>1. /\ Asking(pending, fd["ctrl"]) /\ mode = "loop" /\ stdinEv = "none"
        /\ io_write["ctrl"] \in {0, fd["ctrl"]}
    BY DEF AsksVersion
  <1>2. Receive("write", TRUE) /\ pending' = Rest(Reply) /\ UNCHANGED <<mode, stdinEv, io_write, fd>>
    BY DEF Written, stateVars, ioVars, userVars
  <1>3. /\ Matched(Reply) \in DOMAIN pending /\ pending[Matched(Reply)].op = "write"
        /\ \A i \in DOMAIN pending : pending[i].op = "write" => Matched(Reply) <= i
        /\ Asking(pending', fd'["ctrl"])
        /\ \A k \in DOMAIN pending' :
               \E i \in DOMAIN pending : i # Matched(Reply) /\ pending'[k] = pending[i]
    BY <1>1, <1>2, AskingReply
  <1>4. ASSUME NEW i \in DOMAIN pending, pending[i].timed, pending[i].op = "write"
        PROVE  i = Matched(Reply)
    <2>1. Matched(Reply) <= i /\ i \in Nat /\ Matched(Reply) \in Nat
      BY <1>3, <1>4 DEF ClientTypeOK
    <2>2. CASE Matched(Reply) < i
      <3>1. pending[Matched(Reply)].timed
        BY <1>1, <1>3, <1>4, <2>2 DEF Asking
      <3> QED BY <1>1, <1>3, <1>4, <3>1 DEF Asking
    <2> QED BY <2>1, <2>2
  <1>5. ~TimedWrite'
    BY <1>3, <1>4 DEF TimedWrite
  <1>6. mode' = "loop" /\ stdinEv' = "none" /\ io_write'["ctrl"] \in {0, fd'["ctrl"]}
    BY <1>1, <1>2
  <1> QED BY <1>3, <1>5, <1>6 DEF AsksVersion, Asking, TimedWrite

\* The abort that a signal asks for is one more write, without a timeout.
LEMMA TimerAsks ==
  ASSUME ClientTypeOK, AsksVersion, ~reqTimeout, Timer, parked' = parked
  PROVE  ~reqTimeout' /\ AsksVersion'
  <1> DEFINE f == fd["ctrl"]
             w == async_write("ctrl", f, Abort)
             A == Added(<<w>>)
  <1>0. "ctrl" \in Pipe /\ f \in Nat /\ reqTimeout \in BOOLEAN /\ io_write \in [Pipe -> Nat]
        /\ pending \in Seq(Waiting) /\ toSrv \in Seq(Wired(account)) /\ account \in Asked
    BY DEF ClientTypeOK, Pipe
  <1>1. /\ Asking(pending, f) /\ mode = "loop" /\ stdinEv = "none" /\ io_write["ctrl"] \in {0, f}
        /\ TimedWrite => WriteFirst
    BY DEF AsksVersion
  <1>2. /\ SendOn(net, pending, <<w>>) /\ io_write' = [io_write EXCEPT !["ctrl"] = Cached(io_write, "ctrl", f)]
        /\ UNCHANGED <<mode, stdinEv, fd, toCli, net, parked>>
    BY DEF Timer, Send, WriteIssued, stateVars, userVars
  <1>3. Cached(io_write, "ctrl", f) = f
    BY <1>1 DEF Cached
  <1>4. w.op = "write" /\ w.pipe = "ctrl" /\ w.fnum = f
    BY <1>3 DEF async_write, Request
  <1>5. w \in Wired(account) /\ <<w>> \in Seq(Wired(account))
    <2>1. w \in Wired(account)
      BY <1>0, OwnRequestType
    <2> HIDE DEF w
    <2> QED BY <2>1
  <1>6. ~reqTimeout'
    BY <1>2 DEF SendOn
  <1> HIDE DEF w
  <1>7. A \in Seq(Waiting) /\ Len(A) = 1 /\ A[1].op = "write" /\ A[1].pipe = "ctrl" /\ A[1].fnum = f
        /\ ~A[1].timed
    <2>1. Added(<<w>>) \in Seq(Waiting) /\ Len(Added(<<w>>)) = Len(<<w>>) /\ Len(<<w>>) = 1
      BY <1>0, <1>5, AddedType
    <2>2. 1 \in DOMAIN <<w>> /\ <<w>>[1] = w
      OBVIOUS
    <2>3. A[1] = [op |-> w.op, pipe |-> w.pipe, fnum |-> w.fnum, timed |-> reqTimeout]
      BY <2>2 DEF Added
    <2> QED BY <1>4, <2>1, <2>3
  <1>8. pending' = pending \/ pending' = pending \o A
    BY <1>2 DEF SendOn, Added
  <1> HIDE DEF A
  <1>9. ASSUME NEW S, NEW s \in Seq(S), NEW t \in Seq(S), Len(t) = 1, NEW k \in DOMAIN (s \o t)
        PROVE  /\ k \in Nat /\ k >= 1
               /\ \/ k \in DOMAIN s /\ (s \o t)[k] = s[k]
                  \/ k \notin DOMAIN s /\ (s \o t)[k] = t[1] /\ \A i \in Nat : i >= 1 /\ i < k => i \in DOMAIN s
    <2>1. DOMAIN (s \o t) = 1..(Len(s) + Len(t))
      BY ConcatElements
    <2>2. (s \o t)[k] = IF k <= Len(s) THEN s[k] ELSE t[k - Len(s)]
      BY <2>1, ConcatElements
    <2>3. Len(s) \in Nat /\ DOMAIN s = 1..Len(s) /\ k \in 1..(Len(s) + 1)
      BY <1>9, <2>1
    <2>4. CASE k <= Len(s)
      BY <2>2, <2>3, <2>4
    <2>5. CASE ~(k <= Len(s))
      <3>1. k = Len(s) + 1 /\ k - Len(s) = 1
        BY <2>3, <2>5
      <3> QED BY <2>2, <2>3, <2>5, <3>1
    <2> QED BY <2>4, <2>5
  <1>10. \A k \in DOMAIN pending' :
            /\ k \in Nat /\ k >= 1
            /\ \/ k \in DOMAIN pending /\ pending'[k] = pending[k]
               \/ k \notin DOMAIN pending /\ pending'[k] = A[1]
                  /\ \A i \in Nat : i >= 1 /\ i < k => i \in DOMAIN pending
    <2>1. CASE pending' = pending
      BY <1>0, <2>1
    <2>2. CASE pending' = pending \o A
      BY <1>0, <1>7, <1>9, <2>2
    <2> QED BY <1>8, <2>1, <2>2
  <1>11. \A k \in DOMAIN toSrv' :
            \/ k \in DOMAIN toSrv /\ toSrv'[k] = toSrv[k]
            \/ toSrv'[k].op = "write"
    <2>1. toSrv' = toSrv \/ toSrv' = toSrv \o <<w>>
      BY <1>2 DEF SendOn
    <2>2. Len(<<w>>) = 1 /\ <<w>>[1].op = "write"
      BY <1>4
    <2>3. CASE toSrv' = toSrv \o <<w>>
      <3>1. \A k \in DOMAIN (toSrv \o <<w>>) :
               \/ k \in DOMAIN toSrv /\ (toSrv \o <<w>>)[k] = toSrv[k]
               \/ (toSrv \o <<w>>)[k] = <<w>>[1]
        BY <1>0, <1>5, <1>9, <2>2
      <3> QED BY <2>2, <2>3, <3>1
    <2> QED BY <2>1, <2>3
  <1>12. \A k \in DOMAIN toSrv : k \in DOMAIN toSrv' /\ toSrv'[k] = toSrv[k]
    <2>1. CASE toSrv' = toSrv \o <<w>>
      <3>1. DOMAIN (toSrv \o <<w>>) = 1..(Len(toSrv) + Len(<<w>>))
        BY <1>0, <1>5, ConcatElements
      <3>2. \A k \in 1..(Len(toSrv) + Len(<<w>>)) :
               (toSrv \o <<w>>)[k] = IF k <= Len(toSrv) THEN toSrv[k] ELSE <<w>>[k - Len(toSrv)]
        BY <1>0, <1>5, ConcatElements
      <3>3. DOMAIN toSrv = 1..Len(toSrv) /\ Len(toSrv) \in Nat /\ Len(<<w>>) = 1
        BY <1>0
      <3>4. \A k \in DOMAIN toSrv : k \in 1..(Len(toSrv) + Len(<<w>>)) /\ k <= Len(toSrv)
        BY <3>3
      <3> QED BY <2>1, <3>1, <3>2, <3>4
    <2>2. toSrv' = toSrv \/ toSrv' = toSrv \o <<w>>
      BY <1>2 DEF SendOn
    <2> QED BY <2>1, <2>2
  <1>13. Asking(pending', fd'["ctrl"])
    <2>1. fd' = fd
      BY <1>2
    <2>2. \A i \in DOMAIN pending' :
             pending'[i].pipe = "ctrl" /\ pending'[i].op \in {"write", "read"} /\ pending'[i].fnum = f
      BY <1>1, <1>7, <1>10 DEF Asking
    <2>3. \A i \in DOMAIN pending' : pending'[i].timed \/ pending'[i].op = "read" =>
             i \in DOMAIN pending /\ pending'[i] = pending[i]
      BY <1>7, <1>10
    <2>4. ASSUME NEW i \in DOMAIN pending', NEW j \in DOMAIN pending', i < j, pending'[j].timed
          PROVE  pending'[i].timed
      <3>1. j \in DOMAIN pending /\ pending'[j] = pending[j]
        BY <2>3, <2>4
      <3>2. i \in DOMAIN pending /\ pending'[i] = pending[i]
        <4>1. DOMAIN pending = 1..Len(pending) /\ Len(pending) \in Nat /\ i \in Nat /\ i >= 1
          BY <1>0, <1>10
        <4>2. i \in DOMAIN pending
          BY <2>4, <3>1, <4>1
        <4> QED BY <1>10, <4>2
      <3> QED BY <1>1, <2>4, <3>1, <3>2 DEF Asking
    <2>5. ASSUME NEW i \in DOMAIN pending', NEW j \in DOMAIN pending', pending'[i].op = pending'[j].op,
                 pending'[i].op = "write" => pending'[i].timed /\ pending'[j].timed
          PROVE  i = j
      <3>1. pending'[i].op \in {"write", "read"}
        BY <2>2
      <3>2. /\ i \in DOMAIN pending /\ pending'[i] = pending[i]
            /\ j \in DOMAIN pending /\ pending'[j] = pending[j]
        BY <2>3, <2>5, <3>1
      <3> QED BY <1>1, <2>5, <3>2 DEF Asking
    <2> QED BY <2>1, <2>2, <2>4, <2>5 DEF Asking
  <1>14. TimedWrite' => TimedWrite
    BY <1>7, <1>10 DEF TimedWrite
  <1>15. WriteFirst => WriteFirst'
    <2>1. WriteAnswered' = WriteAnswered
      BY <1>2 DEF WriteAnswered
    <2>2. RepliesInOrder' = RepliesInOrder
      BY <1>2 DEF RepliesInOrder
    <2>3. RequestsInOrder => RequestsInOrder'
      <3>1. ASSUME RequestsInOrder, NEW k \in DOMAIN toSrv', OnCtrl(toSrv'[k], "read"), ~WriteAnswered'
            PROVE  \E j \in DOMAIN toSrv' : j < k /\ OnCtrl(toSrv'[j], "write") /\ toSrv'[j].fnum = fd'["ctrl"]
        <4>1. k \in DOMAIN toSrv /\ OnCtrl(toSrv[k], "read")
          BY <1>11, <3>1 DEF OnCtrl
        <4>2. PICK j \in DOMAIN toSrv : j < k /\ OnCtrl(toSrv[j], "write") /\ toSrv[j].fnum = fd["ctrl"]
          BY <2>1, <3>1, <4>1 DEF RequestsInOrder
        <4> QED BY <1>2, <1>12, <4>2
      <3> QED BY <3>1 DEF RequestsInOrder
    <2> QED BY <1>2, <2>1, <2>2, <2>3 DEF WriteFirst, RepliesInOrder, RequestsInOrder
  <1>16. mode' = "loop" /\ stdinEv' = "none" /\ io_write'["ctrl"] \in {0, fd'["ctrl"]}
    BY <1>0, <1>1, <1>2, <1>3
  <1> QED BY <1>1, <1>6, <1>13, <1>14, <1>15, <1>16 DEF AsksVersion, Asking, TimedWrite

\* A reply that is dropped is not the one to the write.
LEMMA DropAsks ==
  ASSUME ClientTypeOK, AsksVersion, DropReply, parked' = parked
  PROVE  AsksVersion'
  <1>1. /\ Asking(pending, fd["ctrl"]) /\ mode = "loop" /\ stdinEv = "none"
        /\ io_write["ctrl"] \in {0, fd["ctrl"]} /\ (TimedWrite => WriteFirst)
    BY DEF AsksVersion
  <1>2. /\ UNCHANGED <<pending, mode, stdinEv, io_write, fd, toSrv, net, parked>>
        /\ toCli # <<>> /\ toCli' = Tail(toCli) /\ Matching(Reply) = {}
    BY DEF DropReply, stateVars, ioVars, reqVars, userVars
  <1>3. ASSUME TimedWrite PROVE WriteFirst'
    <2>1. ~(OnCtrl(Reply, "write") /\ Reply.fnum = fd["ctrl"])
      BY <1>1, <1>2, <1>3 DEF TimedWrite, Matching, Asking, OnCtrl
    <2>2. /\ DOMAIN toCli = 1..Len(toCli) /\ DOMAIN toCli' = 1..(Len(toCli) - 1) /\ Len(toCli) \in Nat
          /\ Reply = toCli[1]
          /\ \A k \in DOMAIN toCli' : k + 1 \in DOMAIN toCli /\ toCli'[k] = toCli[k + 1]
      BY <1>2, TailElements DEF ClientTypeOK, Reply
    <2>3. ASSUME NEW j \in DOMAIN toCli, OnCtrl(toCli[j], "write"), toCli[j].fnum = fd["ctrl"]
          PROVE  j - 1 \in DOMAIN toCli' /\ toCli'[j - 1] = toCli[j]
      <3>1. j # 1
        BY <2>1, <2>2, <2>3
      <3>2. j - 1 \in DOMAIN toCli' /\ j - 1 + 1 = j
        BY <2>2, <3>1
      <3> QED BY <2>2, <3>2
    <2>4. WriteAnswered => WriteAnswered'
      BY <1>2, <2>3 DEF WriteAnswered
    <2>5. RepliesInOrder'
      <3>1. ASSUME NEW i \in DOMAIN toCli', OnCtrl(toCli'[i], "read")
            PROVE  \E j \in DOMAIN toCli' : j < i /\ OnCtrl(toCli'[j], "write") /\ toCli'[j].fnum = fd'["ctrl"]
        <4>1. i \in Nat /\ i + 1 \in DOMAIN toCli /\ OnCtrl(toCli[i + 1], "read")
          BY <2>2, <3>1
        <4>2. PICK j \in DOMAIN toCli : j < i + 1 /\ OnCtrl(toCli[j], "write") /\ toCli[j].fnum = fd["ctrl"]
          BY <1>1, <1>3, <4>1 DEF WriteFirst, RepliesInOrder, RequestsInOrder
        <4>3. j - 1 \in DOMAIN toCli' /\ toCli'[j - 1] = toCli[j] /\ j \in Nat
          BY <2>2, <2>3, <4>2
        <4> QED BY <1>2, <4>1, <4>2, <4>3
      <3> QED BY <3>1 DEF RepliesInOrder
    <2> QED
      BY <1>1, <1>2, <1>3, <2>4, <2>5 DEF WriteFirst, RepliesInOrder, RequestsInOrder
  <1>4. Asking(pending', fd'["ctrl"]) /\ TimedWrite' = TimedWrite
    BY <1>1, <1>2 DEF TimedWrite
  <1> QED BY <1>1, <1>2, <1>3, <1>4 DEF AsksVersion, Asking, TimedWrite

\* A failure on the control pipe while the version is asked for ends the client.
LEMMA AskingFails ==
  ASSUME NEW link, NEW op \in {"write", "read"}, NEW status, status # "notfound", NEW rest,
         Fail(link, op, "ctrl", status, rest), state = "GETTING_VERSION", ~reqTimeout
  PROVE  ~reqTimeout' /\ state' = "GETTING_VERSION" /\ mode' = "exiting"
  <1>1. OnCtrlError(op, status, rest) /\ state' = state
    BY DEF Fail
  <1> QED BY <1>1 DEF OnCtrlError, exit_program

\* While the client waits for the version.
LEMMA AsksStep ==
  ASSUME SessTypeOK, ~reqTimeout, state = "GETTING_VERSION", AsksVersion, SessNext
  PROVE  /\ ~reqTimeout'
         /\ Timed' => /\ state' = "GETTING_VERSION"
                      /\ AsksVersion' \/ mode' \in Gone \union {"exiting"}
  <1>0. ClientTypeOK /\ pending \in Seq(Waiting)
    BY DEF SessTypeOK, ClientTypeOK
  <1>1. /\ Asking(pending, fd["ctrl"]) /\ mode = "loop" /\ stdinEv = "none"
        /\ mode \notin Gone
    BY DEF AsksVersion, Gone
  <1>2. CASE ServerNext
    <2>1. UNCHANGED <<state, mode, stdinEv, io_write, fd, pending, reqTimeout>>
      BY <1>2 DEF ServerNext, stateVars, ioVars, userVars
    <2>2. WriteFirst => WriteFirst'
      BY <1>1, <1>2, ServerInOrder
    <2> QED BY <2>1, <2>2 DEF AsksVersion, Asking, TimedWrite
  <1>3. CASE \/ ThreadStep \/ ProcWriteStep \/ ProcReadStep \/ ProcExitStep \/ ServerLoopReady
    <2>1. UNCHANGED <<clientVars, parked>>
      BY <1>3 DEF ThreadStep, ProcWriteStep, ProcReadStep, ProcExitStep, ServerLoopReady, srvVars
    <2>2. UNCHANGED <<state, mode, stdinEv, io_write, fd, pending, reqTimeout, toSrv, toCli, net, parked>>
      BY <2>1 DEF clientVars, stateVars, ioVars, reqVars, userVars
    <2> QED BY <2>2 DEF AsksVersion, WriteFirst, WriteAnswered, RepliesInOrder, RequestsInOrder, Asking, TimedWrite
  <1>4. CASE NetFail
    <2>1. /\ UNCHANGED <<state, mode, stdinEv, io_write, fd, pending, reqTimeout>>
          /\ net' = "down" /\ toCli' \in {toCli, <<>>}
      BY <1>4 DEF NetFail, stateVars, ioVars, userVars
    <2>2. WriteFirst => WriteFirst'
      BY <2>1 DEF WriteFirst, RepliesInOrder, RequestsInOrder
    <2> QED BY <2>1, <2>2 DEF AsksVersion, Asking, TimedWrite
  <1>5. CASE SignalStep
    <2>1. /\ UNCHANGED <<state, stdinEv, io_write, fd, pending, reqTimeout, toSrv, toCli, net, parked>>
          /\ mode' = mode \/ mode' = "killed"
      BY <1>5 DEF SignalStep, Signal, ioVars, reqVars, userVars, Remote, srvVars
    <2>2. CASE mode' = mode
      BY <2>1, <2>2 DEF AsksVersion, WriteFirst, WriteAnswered, RepliesInOrder, RequestsInOrder, Asking, TimedWrite
    <2> QED BY <2>1, <2>2 DEF Gone
  <1>6. ~ExitStep /\ ~StdinStep /\ ~InstallStep
    BY <1>1
    DEF ExitStep, Exit, StdinStep, StdinRead, InstallStep, InstallOk, InstallFails, ReinstallOk,
        ReinstallFails, Installed, Reinstalled
  <1>7. CASE CompletionStep
    <2>0. parked' = parked
      BY <1>7 DEF CompletionStep, Remote, srvVars
    <2>1. CASE DropReply
      BY <1>0, <2>0, <2>1, DropAsks DEF DropReply, stateVars, reqVars
    <2>2. ASSUME ~DropReply
          PROVE  ~reqTimeout' /\ (Timed' => \E k \in DOMAIN Rest(Reply) : Rest(Reply)[k].timed)
      BY <1>0, <1>7, <2>2, ReplyUntimed DEF CompletionStep, OnlyFrom
    <2>3. CASE Receive("read", TRUE) /\ ~DropReply
      BY <1>0, <2>2, <2>3, ReadLeavesUntimed
    <2>4. CASE Written
      <3>1. state' = state /\ ~reqTimeout'
        BY <2>4 DEF Written, stateVars
      <3> QED BY <1>0, <2>4, <3>1, WriteLeavesAsking
    <2>5. CASE ErrorReply
      <3>1. PICK op \in {"open", "read", "write"} : Receive(op, FALSE)
        BY <2>5 DEF ErrorReply
      <3>2. op \in {"write", "read"} /\ Reply.op = op /\ Reply.pipe = "ctrl"
        BY <1>0, <1>1, <3>1, AskingReply
      <3>3. Reply \in Replied
        BY <1>0, <3>1, ReceiveType
      <3>4. Reply.status # "notfound"
        BY <3>2, <3>3 DEF Replied
      <3>5. Fail(net, op, "ctrl", Reply.status, Rest(Reply))
        BY <2>5, <3>2 DEF ErrorReply
      <3> QED BY <3>2, <3>4, <3>5, AskingFails
    <2>6. ~(\E op \in {"open", "close"}, ok \in BOOLEAN : Receive(op, ok))
      BY <1>0, <1>1, AskingReply
    <2>7. CASE \/ OnStdIoErr \/ OnReturnCode \/ OnVersion \/ OnBadVersion \/ OnServiceError \/ OnUnknown \/ OutputRead
      <3>1. Receive("read", TRUE)
        BY <2>7
        DEF OnStdIoErr, OnReturnCode, OnVersion, OnBadVersion, OnServiceError, OnUnknown, CtrlRead, OutputRead
      <3> QED BY <2>1, <2>3, <3>1
    <2> QED
      BY <1>7, <2>1, <2>4, <2>5, <2>6, <2>7
      DEF CompletionStep, Completion, CtrlOpened, StdOpened, Closed
  <1>8. CASE TimeoutStep
    <2>1. PICK i \in DOMAIN pending :
             Fail(net, pending[i].op, pending[i].pipe, "timeout", RemoveAt(pending, i))
      BY <1>8 DEF TimeoutStep, RequestTimeout
    <2>2. pending[i].op \in {"write", "read"} /\ pending[i].pipe = "ctrl"
      BY <1>1 DEF Asking
    <2> QED BY <2>1, <2>2, AskingFails
  <1>9. CASE DeadStep
    <2>1. CASE pending = <<>>
      <3>1. pending' = pending /\ reqTimeout' = reqTimeout
        BY <1>9, <2>1 DEF DeadStep, TransportDead, reqVars
      <3>2. ~Timed'
        BY <2>1, <3>1 DEF Timed
      <3> QED BY <3>1, <3>2
    <2>2. CASE pending # <<>>
      <3>1. PICK i \in DOMAIN pending : Last(pending) = pending[i]
        BY <1>0, <2>2, FrontElements
      <3>2. Last(pending).op \in {"write", "read"} /\ Last(pending).pipe = "ctrl"
        BY <1>1, <3>1 DEF Asking
      <3>3. Fail("dead", Last(pending).op, "ctrl", "network", Front(pending))
        BY <1>9, <2>2, <3>2 DEF DeadStep, TransportDead
      <3> QED BY <3>2, <3>3, AskingFails
    <2> QED BY <2>1, <2>2
  <1>10. CASE TimerStep
    <2>1. Timer /\ parked' = parked /\ state' = state
      BY <1>10 DEF TimerStep, Timer, Remote, srvVars, stateVars
    <2> QED BY <1>0, <2>1, TimerAsks
  <1> QED
    BY <1>2, <1>3, <1>4, <1>5, <1>6, <1>7, <1>8, <1>9, <1>10 DEF SessNext

\* Every step.
LEMMA TimedStep ==
  ASSUME SessTypeOK, TimedInv, [SessNext]_sessVars
  PROVE  TimedInv'
  <1>1. CASE UNCHANGED sessVars
    BY <1>1
    DEF TimedInv, FirstOpen, AsksVersion, WriteFirst, WriteAnswered, RepliesInOrder,
        RequestsInOrder, Asking, TimedWrite, Timed, sessVars, clientVars, stateVars, ioVars, reqVars, sigVars, userVars, srvVars
  <1>2. CASE SessNext /\ reqTimeout
    <2>1. FirstOpen
      BY <1>2 DEF TimedInv
    <2> QED BY <1>2, <2>1, FirstStep DEF TimedInv
  <1>3. CASE SessNext /\ ~reqTimeout /\ ~Timed
    BY <1>3, StaysUntimed DEF TimedInv
  <1>4. CASE SessNext /\ ~reqTimeout /\ Timed
    <2>1. state = "GETTING_VERSION"
      BY <1>4 DEF TimedInv
    <2>2. CASE AsksVersion
      BY <1>4, <2>1, <2>2, AsksStep DEF TimedInv
    <2>3. CASE mode \in Gone \union {"exiting"}
      <3>1. mode' \in Gone \union {"exiting"} /\ state' = state /\ ~reqTimeout'
        BY <1>4, <2>3, LeavingStep
      <3> QED BY <2>1, <3>1 DEF TimedInv
    <2> QED BY <1>4, <2>2, <2>3 DEF TimedInv
  <1> QED BY <1>1, <1>2, <1>3, <1>4

LEMMA InitTimed == SessInit => TimedInv
  <1> SUFFICES ASSUME SessInit PROVE TimedInv
    OBVIOUS
  <1>1. /\ state = "OPENING" /\ stdinEv = "none" /\ timers = 0 /\ parked = {} /\ reqTimeout /\ mode = "loop"
        /\ io_read = [p \in PipeName |-> 0] /\ io_write = [p \in PipeName |-> 0]
        /\ pending = <<[op |-> "open", pipe |-> "ctrl", fnum |-> 0, timed |-> TRUE]>>
        /\ toSrv = <<async_open("ctrl")>> /\ toCli = <<>>
    BY DEF SessInit, ClientInit
  <1>2. \A i \in DOMAIN pending : pending[i].op = "open" /\ pending[i].pipe = "ctrl"
    BY <1>1
  <1>3. \A i \in DOMAIN toSrv : toSrv[i].op = "open"
    <2>1. async_open("ctrl").op = "open"
      BY DEF async_open, Request
    <2> QED BY <1>1, <2>1
  <1>4. Len(toSrv) = 1 /\ Len(toCli) = 0 /\ Len(pending) = 1
    BY <1>1
  <1>5. io_read["ctrl"] = 0 /\ io_write["ctrl"] = 0
    BY <1>1 DEF PipeName
  <1>6. FirstOpen
    BY <1>1, <1>2, <1>3, <1>4, <1>5 DEF FirstOpen
  <1> QED BY <1>1, <1>6 DEF TimedInv

\* While the command runs no request of the client is subject to the timeout of
\* 60 seconds: async_read switches it off with the first read of the control
\* pipe, and by the time the version is known the requests sent before that are
\* answered, because the server answers the write before it reads the version.
THEOREM LongRunUntimedCorrect == SessSpec => []LongRunUntimed
  <1>1. TimedInv /\ SessTypeOK /\ [SessNext]_sessVars => TimedInv'
    BY TimedStep
  <1>2. SessSpec => []TimedInv
    BY <1>1, InitTimed, SessTypeCorrect, PTL DEF SessSpec
  <1>3. TimedInv => LongRunUntimed
    BY DEF TimedInv, FirstOpen, Timed, LongRunUntimed
  <1> QED BY <1>2, <1>3, PTL

-----------------------------------------------------------------------------
\* How often the command is started.

\* A read of the control pipe that will bring a message: one on the wire that
\* no close of the same file precedes, or one that was answered with data.
Live(i) ==
    /\ OnCtrl(toSrv[i], "read") /\ "ctrl" \in srvOpen /\ toSrv[i].fnum = srvFnum["ctrl"]
    /\ \A j \in 1..(i - 1) : OnCtrl(toSrv[j], "close") => toSrv[j].fnum # toSrv[i].fnum
Fetched(i) == OnCtrl(toCli[i], "read") /\ toCli[i].status = "ok"

NoneLive == \A i \in DOMAIN toSrv : ~Live(i)
NoneFetched == \A i \in DOMAIN toCli : ~Fetched(i)
OneLive == \A i, j \in DOMAIN toSrv : Live(i) /\ Live(j) => i = j
OneFetched == \A i, j \in DOMAIN toCli : Fetched(i) /\ Fetched(j) => i = j

\* While the client waits for the version it has one such read under way, and
\* while it opens or closes the control pipe none.
QuietCtrl == NoneFetched /\ "ctrl" \notin parked /\ NoneLive
OneRead ==
    /\ OneFetched /\ OneLive
    /\ "ctrl" \in parked => NoneFetched
    /\ (NoneFetched /\ "ctrl" \notin parked) \/ NoneLive
ReadInv ==
    /\ state \in {"OPENING", "CLOSING_FOR_REINSTALL"} => QuietCtrl
    /\ state = "GETTING_VERSION" => OneRead

\* The file numbers of the control pipe are those the server has given.
Given(r) == OnCtrl(r, "open") /\ r.status = "ok" => r.fnum <= srvFnum["ctrl"]
GivenInv ==
    /\ \A i \in DOMAIN toSrv : OnCtrl(toSrv[i], "read") => toSrv[i].fnum <= srvFnum["ctrl"]
    /\ \A i \in DOMAIN toCli : Given(toCli[i])
    /\ fd["ctrl"] <= srvFnum["ctrl"] /\ io_read["ctrl"] <= srvFnum["ctrl"]
    /\ (state = "OPENING" \/ mode = "reinstall") => io_read["ctrl"] = 0
    /\ state = "GETTING_VERSION" => io_read["ctrl"] \in {0, fd["ctrl"]}

\* The control pipe is opened once in every round.
OneOpen(q) == \A i, j \in DOMAIN q : OnCtrl(q[i], "open") /\ OnCtrl(q[j], "open") => i = j
NoOpen(q) == \A i \in DOMAIN q : ~OnCtrl(q[i], "open")
OpenInv ==
    /\ mode = "install" => state = "OPENING"
    /\ mode = "reinstall" => state = "CLOSING_FOR_REINSTALL"
    /\ OneOpen(pending)
    /\ (state # "OPENING" \/ mode \in {"install", "reinstall"}) => NoOpen(pending)

\* Whatever the client learns of the version is true of the service there is,
\* and a client that has sent its command met a service of its own version.  Of
\* a lack of memory it learns only where there may be one.
Truly(m) ==
    \A k \in DOMAIN m : /\ m[k].type = "version" => m[k].val = ver
                        /\ m[k].type = "error:" => "malloc" \in MayFail
VersionInv ==
    /\ Truly(s2c["ctrl"])
    /\ \A i \in DOMAIN toCli : Fetched(i) => Truly(toCli[i].data)
    /\ state = "RUNNING" => Compatible(ver)

\* Nothing of the command is under way before the version was found to be the
\* client's, and a thread starts it once.
Unasked(q) == \A i \in DOMAIN q : q[i].verb # "run"
LaunchInv ==
    /\ state # "RUNNING" =>
          /\ launches = 0 /\ Loc \in {"idle", "hgets", "finish", "unserved", "done"}
          /\ Unasked(c2s["ctrl"])
          /\ \A i \in DOMAIN toSrv : OnCtrl(toSrv[i], "write") => Unasked(toSrv[i].items)
    /\ launches <= 1
    /\ Loc \in BeforeSpawn => launches = 0

OnceInv == ReadInv /\ GivenInv /\ OpenInv /\ VersionInv /\ LaunchInv

\* Where an element of a longer sequence comes from.
LEMMA ConcatSplit ==
  ASSUME NEW S, NEW s \in Seq(S), NEW t \in Seq(S), NEW k \in DOMAIN (s \o t)
  PROVE  /\ Len(s) \in Nat /\ k \in Nat
         /\ \/ k \in DOMAIN s /\ k <= Len(s) /\ (s \o t)[k] = s[k]
            \/ /\ k - Len(s) \in DOMAIN t /\ k = Len(s) + (k - Len(s)) /\ k > Len(s)
               /\ (s \o t)[k] = t[k - Len(s)]
  <1>1. /\ Len(s) \in Nat /\ Len(t) \in Nat /\ DOMAIN s = 1..Len(s) /\ DOMAIN t = 1..Len(t)
        /\ DOMAIN (s \o t) = 1..(Len(s) + Len(t))
        /\ \A i \in 1..(Len(s) + Len(t)) :
              (s \o t)[i] = IF i <= Len(s) THEN s[i] ELSE t[i - Len(s)]
    BY ConcatElements
  <1>2. k \in 1..(Len(s) + Len(t))
    BY <1>1
  <1>3. CASE k <= Len(s)
    BY <1>1, <1>2, <1>3
  <1>4. CASE ~(k <= Len(s))
    BY <1>1, <1>2, <1>4
  <1> QED BY <1>1, <1>2, <1>3, <1>4

\* The server takes a request off the wire.
LEMMA LiveTail ==
  ASSUME NEW S, toSrv \in Seq(S), toSrv # <<>>, toSrv' = Tail(toSrv),
         "ctrl" \in srvOpen' => "ctrl" \in srvOpen, srvFnum'["ctrl"] = srvFnum["ctrl"],
         OnCtrl(Query, "close") /\ Query.fnum = srvFnum["ctrl"] => "ctrl" \notin srvOpen'
  PROVE  /\ \A k \in DOMAIN toSrv' : Live(k)' => k + 1 \in DOMAIN toSrv /\ k \in Nat /\ k + 1 # 1 /\ Live(k + 1)
         /\ NoneLive => NoneLive'
         /\ OneLive => OneLive'
         /\ OneLive /\ Live(1) => NoneLive'
  <1>1. /\ Len(toSrv) \in Nat /\ Len(toSrv) > 0 /\ DOMAIN toSrv = 1..Len(toSrv)
        /\ DOMAIN toSrv' = 1..(Len(toSrv) - 1) /\ Query = toSrv[1] /\ 1 \in DOMAIN toSrv
        /\ \A k \in DOMAIN toSrv' : k + 1 \in DOMAIN toSrv /\ toSrv'[k] = toSrv[k + 1]
    BY TailElements DEF Query
  <1>2. ASSUME NEW k \in DOMAIN toSrv', Live(k)'
        PROVE  k + 1 \in DOMAIN toSrv /\ k \in Nat /\ k + 1 # 1 /\ Live(k + 1)
    <2>1. k \in Nat /\ k + 1 \in DOMAIN toSrv /\ k + 1 # 1 /\ toSrv'[k] = toSrv[k + 1] /\ k + 1 - 1 = k
      BY <1>1
    <2>2. OnCtrl(toSrv[k + 1], "read") /\ "ctrl" \in srvOpen /\ toSrv[k + 1].fnum = srvFnum["ctrl"]
          /\ "ctrl" \in srvOpen'
      BY <1>2, <2>1 DEF Live
    <2>3. ASSUME NEW j \in 1..k, OnCtrl(toSrv[j], "close")
          PROVE  toSrv[j].fnum # toSrv[k + 1].fnum
      <3>1. CASE j = 1
        BY <1>1, <2>2, <2>3, <3>1
      <3>2. CASE j # 1
        <4>1. j - 1 \in 1..(k - 1) /\ j - 1 \in DOMAIN toSrv' /\ j - 1 + 1 = j
          BY <1>1, <2>1, <3>2
        <4>2. toSrv'[j - 1] = toSrv[j]
          BY <1>1, <4>1
        <4>3. OnCtrl(toSrv'[j - 1], "close") => toSrv'[j - 1].fnum # toSrv'[k].fnum
          BY <1>2, <4>1 DEF Live
        <4> QED BY <2>1, <2>3, <4>2, <4>3
      <3> QED BY <3>1, <3>2
    <2> QED BY <2>1, <2>2, <2>3 DEF Live
  <1>3. ASSUME OneLive, NEW i \in DOMAIN toSrv', NEW j \in DOMAIN toSrv', Live(i)', Live(j)'
        PROVE  i = j
    <2>1. i + 1 = j + 1 /\ i \in Nat /\ j \in Nat
      BY <1>2, <1>3 DEF OneLive
    <2> QED BY <2>1
  <1>4. OneLive => OneLive'
    BY <1>3 DEF OneLive
  <1> QED BY <1>1, <1>2, <1>4 DEF NoneLive, OneLive

\* The client takes a reply off the wire.
LEMMA FetchedTail ==
  ASSUME NEW S, toCli \in Seq(S), toCli # <<>>, toCli' = Tail(toCli)
  PROVE  /\ Reply = toCli[1] /\ 1 \in DOMAIN toCli
         /\ \A k \in DOMAIN toCli' : k + 1 \in DOMAIN toCli /\ toCli'[k] = toCli[k + 1]
         /\ NoneFetched => NoneFetched'
         /\ OneFetched => OneFetched'
         /\ OneFetched /\ Fetched(1) => NoneFetched'
  <1>1. /\ Len(toCli) \in Nat /\ Len(toCli) > 0 /\ DOMAIN toCli = 1..Len(toCli)
        /\ DOMAIN toCli' = 1..(Len(toCli) - 1) /\ Reply = toCli[1] /\ 1 \in DOMAIN toCli
        /\ \A k \in DOMAIN toCli' : k + 1 \in DOMAIN toCli /\ toCli'[k] = toCli[k + 1]
    BY TailElements DEF Reply
  <1>2. \A k \in DOMAIN toCli' : k \in Nat /\ k + 1 # 1 /\ (Fetched(k)' => Fetched(k + 1))
    BY <1>1 DEF Fetched
  <1>3. ASSUME OneFetched, NEW i \in DOMAIN toCli', NEW j \in DOMAIN toCli', Fetched(i)', Fetched(j)'
        PROVE  i = j
    <2>1. i + 1 = j + 1 /\ i \in Nat /\ j \in Nat
      BY <1>1, <1>2, <1>3 DEF OneFetched
    <2> QED BY <2>1
  <1>4. OneFetched => OneFetched'
    BY <1>3 DEF OneFetched
  <1> QED BY <1>1, <1>2, <1>4 DEF NoneFetched, OneFetched

\* What the client sends is added at the end, if at all.
LEMMA LiveMore ==
  ASSUME NEW S, toSrv \in Seq(S), NEW rs \in Seq(S), toSrv' = toSrv \/ toSrv' = toSrv \o rs,
         UNCHANGED <<srvOpen, srvFnum>>, NEW k \in DOMAIN toSrv', Live(k)'
  PROVE  \/ k \in DOMAIN toSrv /\ Live(k)
         \/ /\ k - Len(toSrv) \in DOMAIN rs /\ k = Len(toSrv) + (k - Len(toSrv))
            /\ OnCtrl(rs[k - Len(toSrv)], "read")
            /\ \A j \in DOMAIN rs : j < k - Len(toSrv) /\ OnCtrl(rs[j], "close")
                  => rs[j].fnum # rs[k - Len(toSrv)].fnum
  <1>1. CASE toSrv' = toSrv
    BY <1>1 DEF Live
  <1>2. CASE toSrv' = toSrv \o rs
    <2> DEFINE n == Len(toSrv)
               at == k - n
    <2>1. /\ n \in Nat /\ k \in Nat /\ DOMAIN toSrv = 1..n /\ DOMAIN rs = 1..Len(rs) /\ Len(rs) \in Nat
          /\ DOMAIN toSrv' = 1..(n + Len(rs))
          /\ \A i \in 1..(n + Len(rs)) : toSrv'[i] = IF i <= n THEN toSrv[i] ELSE rs[i - n]
      <3>1. toSrv \in Seq(S) /\ rs \in Seq(S)
        OBVIOUS
      <3>2. /\ Len(toSrv) \in Nat /\ Len(rs) \in Nat /\ DOMAIN toSrv = 1..Len(toSrv) /\ DOMAIN rs = 1..Len(rs)
            /\ DOMAIN (toSrv \o rs) = 1..(Len(toSrv) + Len(rs))
            /\ \A i \in 1..(Len(toSrv) + Len(rs)) :
                  (toSrv \o rs)[i] = IF i <= Len(toSrv) THEN toSrv[i] ELSE rs[i - Len(toSrv)]
        BY ONLY <3>1, ConcatElements
      <3> QED BY <1>2, <3>2
    <2>2. CASE k <= n
      <3>1. k \in DOMAIN toSrv /\ toSrv'[k] = toSrv[k]
        BY <2>1, <2>2
      <3>2. \A j \in 1..(k - 1) : toSrv'[j] = toSrv[j]
        BY <2>1, <2>2
      <3> QED BY <3>1, <3>2 DEF Live
    <2>3. CASE ~(k <= n)
      <3>0. k \in 1..(n + Len(rs)) /\ k > n /\ k - n \in 1..Len(rs) /\ k = n + (k - n)
        <4>1. DOMAIN toSrv' = 1..(n + Len(rs)) /\ n \in Nat /\ Len(rs) \in Nat
          BY <2>1
        <4> HIDE DEF n
        <4>2. k \in 1..(n + Len(rs))
          BY <4>1
        <4> QED BY <2>3, <4>1, <4>2
      <3>1. at \in DOMAIN rs /\ toSrv'[k] = rs[at] /\ k = n + at
        BY <2>1, <2>3, <3>0
      <3>2. ASSUME NEW j \in DOMAIN rs, j < at, OnCtrl(rs[j], "close")
            PROVE  rs[j].fnum # rs[at].fnum
        <4>1. n + j \in 1..(k - 1) /\ toSrv'[n + j] = rs[j]
          BY <2>1, <2>3, <3>2
        <4>2. OnCtrl(toSrv'[n + j], "close") => toSrv'[n + j].fnum # toSrv'[k].fnum
          BY <4>1 DEF Live
        <4> QED BY <3>1, <3>2, <4>1, <4>2
      <3> QED BY <3>1, <3>2 DEF Live
    <2> QED BY <2>2, <2>3
  <1> QED BY <1>1, <1>2

\* What the server answers is added at the end, if at all.
LEMMA FetchedMore ==
  ASSUME NEW S, toCli \in Seq(S), NEW rs \in Seq(S), Answers(rs), NEW k \in DOMAIN toCli'
  PROVE  \/ k \in DOMAIN toCli /\ toCli'[k] = toCli[k]
         \/ k - Len(toCli) \in DOMAIN rs /\ k = Len(toCli) + (k - Len(toCli)) /\ toCli'[k] = rs[k - Len(toCli)]
  <1>1. CASE toCli' = toCli
    BY <1>1
  <1>2. CASE toCli' = toCli \o rs
    <2>1. toCli \in Seq(S) /\ rs \in Seq(S) /\ k \in DOMAIN (toCli \o rs)
      BY <1>2
    <2>2. \/ k \in DOMAIN toCli /\ (toCli \o rs)[k] = toCli[k]
          \/ /\ k - Len(toCli) \in DOMAIN rs /\ k = Len(toCli) + (k - Len(toCli))
             /\ (toCli \o rs)[k] = rs[k - Len(toCli)]
      BY ONLY <2>1, ConcatSplit
    <2> QED BY <1>2, <2>2
  <1> QED BY <1>1, <1>2 DEF Answers

LEMMA FetchedNoMore ==
  ASSUME NEW S, toCli \in Seq(S), NEW rs \in Seq(S), Answers(rs),
         \A j \in DOMAIN rs : OnCtrl(rs[j], "read") => rs[j].status # "ok"
  PROVE  (NoneFetched => NoneFetched') /\ (OneFetched => OneFetched')
  <1>1. ASSUME NEW k \in DOMAIN toCli', Fetched(k)'
        PROVE  k \in DOMAIN toCli /\ Fetched(k)
    BY <1>1, FetchedMore DEF Fetched
  <1> QED BY <1>1 DEF NoneFetched, OneFetched

LEMMA FetchedOneMore ==
  ASSUME NEW S, toCli \in Seq(S), NEW r \in S, Answers(<<r>>), NoneFetched
  PROVE  OneFetched'
  <1>1. <<r>> \in Seq(S) /\ \A j \in DOMAIN <<r>> : j = 1
    OBVIOUS
  <1>2. ASSUME NEW k \in DOMAIN toCli', Fetched(k)'
        PROVE  k = Len(toCli) + 1
    <2>1. \/ k \in DOMAIN toCli /\ toCli'[k] = toCli[k]
          \/ k - Len(toCli) \in DOMAIN <<r>> /\ k = Len(toCli) + (k - Len(toCli))
      BY <1>1, FetchedMore
    <2>2. ~(k \in DOMAIN toCli /\ toCli'[k] = toCli[k])
      BY <1>2 DEF NoneFetched, Fetched
    <2> QED BY <1>1, <2>1, <2>2
  <1> QED BY <1>2 DEF OneFetched

\* The server takes a request and answers it with no message.
LEMMA ServedReads ==
  ASSUME SessTypeOK, ReadInv, toSrv # <<>>, toSrv' = Tail(toSrv), UNCHANGED state,
         "ctrl" \in srvOpen' => "ctrl" \in srvOpen, srvFnum'["ctrl"] = srvFnum["ctrl"],
         OnCtrl(Query, "close") /\ Query.fnum = srvFnum["ctrl"] => "ctrl" \notin srvOpen',
         "ctrl" \in parked' => "ctrl" \in parked,
         NEW rs \in Seq(Replied), Answers(rs) \/ toCli' = toCli,
         \A j \in DOMAIN rs : OnCtrl(rs[j], "read") => rs[j].status # "ok"
  PROVE  ReadInv'
  <1>1. toSrv \in Seq(Wired(account)) /\ toCli \in Seq(Replied)
    BY DEF SessTypeOK, ClientTypeOK
  <1>2. (NoneLive => NoneLive') /\ (OneLive => OneLive')
    <2> HIDE DEF NoneLive, OneLive
    <2>1. NoneLive => NoneLive'
      BY <1>1, LiveTail
    <2>2. OneLive => OneLive'
      BY <1>1, LiveTail
    <2> QED BY <2>1, <2>2
  <1>3. (NoneFetched => NoneFetched') /\ (OneFetched => OneFetched')
    <2>1. CASE Answers(rs)
      BY <1>1, <2>1, FetchedNoMore
    <2>2. CASE toCli' = toCli
      BY <2>2 DEF NoneFetched, OneFetched, Fetched
    <2> QED BY <2>1, <2>2
  <1> QED BY <1>2, <1>3 DEF ReadInv, QuietCtrl, OneRead

LEMMA GivenServed ==
  ASSUME SessTypeOK, ServerTypeOK', GivenInv, UNCHANGED <<state, mode, fd, io_read>>,
         toSrv' = toSrv \/ (toSrv # <<>> /\ toSrv' = Tail(toSrv)),
         srvFnum["ctrl"] <= srvFnum'["ctrl"],
         NEW rs \in Seq(Replied), Answers(rs) \/ toCli' = toCli,
         \A j \in DOMAIN rs :
            OnCtrl(rs[j], "open") /\ rs[j].status = "ok" => rs[j].fnum <= srvFnum'["ctrl"]
  PROVE  GivenInv'
  <1>1. /\ toSrv \in Seq(Wired(account)) /\ toCli \in Seq(Replied)
        /\ fd["ctrl"] \in Nat /\ io_read["ctrl"] \in Nat
        /\ srvFnum["ctrl"] \in Nat /\ srvFnum'["ctrl"] \in Nat
    BY DEF SessTypeOK, ClientTypeOK, ServerTypeOK, Pipe
  <1>2. /\ \A i \in DOMAIN toSrv : toSrv[i].fnum \in Nat
        /\ \A i \in DOMAIN toCli : toCli[i].fnum \in Nat
    <2>1. \A q \in Wired(account) : q.fnum \in Nat
      BY DEF Wired
    <2>2. \A r \in Replied : r.fnum \in Nat
      BY DEF Replied
    <2>3. \A i \in DOMAIN toSrv : toSrv[i] \in Wired(account)
      BY <1>1
    <2>4. \A i \in DOMAIN toCli : toCli[i] \in Replied
      BY <1>1
    <2> QED BY <2>1, <2>2, <2>3, <2>4
  <1>3. ASSUME NEW i \in DOMAIN toSrv', OnCtrl(toSrv'[i], "read")
        PROVE  toSrv'[i].fnum <= srvFnum'["ctrl"]
    <2>1. PICK j \in DOMAIN toSrv : toSrv'[i] = toSrv[j]
      <3>1. CASE toSrv' = toSrv
        BY <3>1
      <3>2. CASE toSrv # <<>> /\ toSrv' = Tail(toSrv)
        <4>1. i + 1 \in DOMAIN toSrv /\ toSrv'[i] = toSrv[i + 1]
          BY <1>1, <3>2, TailElements
        <4> QED BY <4>1
      <3> QED BY <3>1, <3>2
    <2>2. toSrv[j].fnum <= srvFnum["ctrl"] /\ toSrv[j].fnum \in Nat
      BY <1>2, <1>3, <2>1 DEF GivenInv
    <2> QED BY <1>1, <2>1, <2>2
  <1>4. ASSUME NEW i \in DOMAIN toCli'
        PROVE  Given(toCli[i])'
    <2> DEFINE u == srvFnum["ctrl"]
               v == srvFnum'["ctrl"]
    <2>0. u \in Nat /\ v \in Nat /\ u <= v
      BY <1>1
    <2>1. ASSUME i \in DOMAIN toCli, toCli'[i] = toCli[i]
          PROVE  Given(toCli[i])'
      <3>1. Given(toCli[i]) /\ toCli[i].fnum \in Nat
        BY <1>2, <2>1 DEF GivenInv
      <3>2. OnCtrl(toCli'[i], "open") /\ toCli'[i].status = "ok" => toCli'[i].fnum <= u
        BY <2>1, <3>1 DEF Given
      <3>3. toCli'[i].fnum \in Nat
        BY <2>1, <3>1
      <3> HIDE DEF u
      <3>4. OnCtrl(toCli'[i], "open") /\ toCli'[i].status = "ok" => toCli'[i].fnum <= v
        <4> HIDE DEF v
        <4> QED BY <2>0, <3>2, <3>3
      <3> QED BY <3>4 DEF Given, OnCtrl
    <2>2. ASSUME NEW j \in DOMAIN rs, toCli'[i] = rs[j]
          PROVE  Given(toCli[i])'
      <3> QED BY <2>2 DEF Given, OnCtrl
    <2>3. CASE toCli' = toCli
      BY <2>1, <2>3
    <2>4. CASE Answers(rs)
      <3>1. \/ i \in DOMAIN toCli /\ toCli'[i] = toCli[i]
            \/ i - Len(toCli) \in DOMAIN rs /\ toCli'[i] = rs[i - Len(toCli)]
        BY <1>1, <2>4, FetchedMore
      <3> QED BY <2>1, <2>2, <3>1
    <2> QED BY <2>3, <2>4
  <1>5. fd'["ctrl"] <= srvFnum'["ctrl"] /\ io_read'["ctrl"] <= srvFnum'["ctrl"]
    <2>1. fd["ctrl"] <= srvFnum["ctrl"] /\ io_read["ctrl"] <= srvFnum["ctrl"]
      BY DEF GivenInv
    <2> QED BY <1>1, <2>1
  <1> QED BY <1>3, <1>4, <1>5 DEF GivenInv

\* The answers to a close, after a read that was cancelled.
LEMMA CloseAnswers ==
  ASSUME NEW S, NEW x \in S, NEW y \in S, NEW b \in BOOLEAN
  PROVE  /\ (IF b THEN <<x>> ELSE <<>>) \o <<y>> \in Seq(S)
         /\ \A k \in DOMAIN ((IF b THEN <<x>> ELSE <<>>) \o <<y>>) :
               ((IF b THEN <<x>> ELSE <<>>) \o <<y>>)[k] \in {x, y}
  <1> DEFINE s == IF b THEN <<x>> ELSE <<>>
             t == <<y>>
  <1>1. s \in Seq(S) /\ t \in Seq(S)
    OBVIOUS
  <1>2. (\A i \in DOMAIN s : s[i] = x) /\ (\A i \in DOMAIN t : t[i] = y)
    <2>1. \A i \in DOMAIN <<x>> : <<x>>[i] = x
      OBVIOUS
    <2>2. \A i \in DOMAIN <<>> : FALSE
      OBVIOUS
    <2>3. \A i \in DOMAIN <<y>> : <<y>>[i] = y
      OBVIOUS
    <2>4. s = <<x>> \/ s = <<>>
      OBVIOUS
    <2>5. t = <<y>>
      OBVIOUS
    <2> HIDE DEF s, t
    <2> QED BY <2>1, <2>2, <2>3, <2>4, <2>5
  <1> SUFFICES s \o t \in Seq(S) /\ \A k \in DOMAIN (s \o t) : (s \o t)[k] \in {x, y}
    OBVIOUS
  <1> HIDE DEF s, t
  <1>3. s \o t \in Seq(S)
    BY <1>1
  <1>4. ASSUME NEW k \in DOMAIN (s \o t) PROVE (s \o t)[k] \in {x, y}
    <2>1. \/ k \in DOMAIN s /\ (s \o t)[k] = s[k]
          \/ k - Len(s) \in DOMAIN t /\ (s \o t)[k] = t[k - Len(s)]
      <3>1. s \in Seq(S) /\ t \in Seq(S) /\ k \in DOMAIN (s \o t)
        BY <1>1
      <3> QED BY ONLY <3>1, ConcatSplit
    <2> QED BY <1>2, <2>1
  <1> QED BY <1>3, <1>4

LEMMA ServerReads ==
  ASSUME SessTypeOK, ServerTypeOK', ReadInv, GivenInv, ServerNext
  PROVE  ReadInv' /\ GivenInv'
  <1>0. /\ ClientTypeOK /\ ServerTypeOK /\ toSrv \in Seq(Wired(account)) /\ toCli \in Seq(Replied)
        /\ srvFnum \in [Pipe -> Nat] /\ "ctrl" \in Pipe /\ parked \subseteq Pipe
    BY DEF SessTypeOK, ClientTypeOK, ServerTypeOK, Pipe
  <1>1. UNCHANGED <<state, mode, fd, io_read>>
    BY DEF ServerNext, stateVars, ioVars
  <1>2. toSrv # <<>> => /\ Query = toSrv[1] /\ 1 \in DOMAIN toSrv
                        /\ Query.pipe \in Pipe /\ Query.fnum \in Nat /\ Query.op \in ReqOp
    <2>1. toSrv # <<>> => Query = toSrv[1] /\ 1 \in DOMAIN toSrv
      BY <1>0, TailElements DEF Query
    <2> QED BY <1>0, <2>1, QueryType DEF Wired
  <1>3. srvFnum["ctrl"] <= srvFnum["ctrl"]
    BY <1>0
  <1>4. <<>> \in Seq(Replied) /\ \A j \in DOMAIN <<>> : FALSE
    OBVIOUS
  \* A request that is answered with no message.
  <1>5. ASSUME toSrv # <<>>, toSrv' = Tail(toSrv), UNCHANGED srvFnum,
               "ctrl" \in srvOpen' => "ctrl" \in srvOpen,
               OnCtrl(Query, "close") /\ Query.fnum = srvFnum["ctrl"] => "ctrl" \notin srvOpen',
               "ctrl" \in parked' => "ctrl" \in parked,
               NEW rs \in Seq(Replied), Answers(rs) \/ toCli' = toCli,
               \A j \in DOMAIN rs : OnCtrl(rs[j], "read") => rs[j].status # "ok",
               \A j \in DOMAIN rs : OnCtrl(rs[j], "open") => rs[j].status # "ok"
        PROVE  ReadInv' /\ GivenInv'
    <2>2. GivenInv'
      BY <1>0, <1>1, <1>3, <1>5, GivenServed
    <2>3. ReadInv'
      BY <1>0, <1>1, <1>5, ServedReads
    <2> QED BY <2>2, <2>3
  <1>6. ASSUME toSrv # <<>>, toSrv' = Tail(toSrv), NEW status, Refuse(status), status # "ok",
               status \in {"notfound", "invalid", "broken"},
               status = "notfound" => Query.op = "open",
               OnCtrl(Query, "close") => ~Valid
        PROVE  ReadInv' /\ GivenInv'
    <2> DEFINE r == Answer(Query.op, Query.pipe, Query.fnum, status, <<>>)
    <2>1. r \in Replied /\ r.status # "ok"
      BY <1>2, <1>6 DEF Answer, Replied
    <2>2. Answers(<<r>>) /\ UNCHANGED srvVars
      BY <1>6 DEF Refuse, Result
    <2> HIDE DEF r
    <2>3. <<r>> \in Seq(Replied) /\ \A j \in DOMAIN <<r>> : <<r>>[j].status # "ok"
      BY <2>1
    <2>4. OnCtrl(Query, "close") /\ Query.fnum = srvFnum["ctrl"] => "ctrl" \notin srvOpen'
      BY <1>6, <2>2 DEF Valid, OnCtrl, srvVars
    <2> QED BY <1>5, <1>6, <2>2, <2>3, <2>4 DEF srvVars
  <1>7. CASE ServeOpen
    <2>1. toSrv # <<>> /\ toSrv' = Tail(toSrv) /\ Query.op = "open"
      BY <1>7 DEF ServeOpen, Serve
    <2>2. CASE Refuse("notfound")
      BY <1>6, <2>1, <2>2 DEF OnCtrl
    <2>3. CASE /\ srvOpen' = srvOpen \union {Query.pipe}
               /\ srvFnum' = [srvFnum EXCEPT ![Query.pipe] = @ + 1]
               /\ Answers(<<Answer("open", Query.pipe, srvFnum[Query.pipe] + 1, "ok", <<>>)>>)
               /\ UNCHANGED parked
      <3> DEFINE n == srvFnum[Query.pipe] + 1
                 r == Answer("open", Query.pipe, n, "ok", <<>>)
      <3>1. r.op = "open" /\ r.pipe = Query.pipe /\ r.fnum = n /\ r \in Replied
        BY <1>0, <1>2, <2>1 DEF Answer, Replied, ReqOp
      <3>2. Answers(<<r>>)
        BY <2>3
      <3>3. /\ Query.pipe = "ctrl" => srvFnum'["ctrl"] = srvFnum["ctrl"] + 1 /\ n = srvFnum["ctrl"] + 1
            /\ Query.pipe # "ctrl" => srvFnum'["ctrl"] = srvFnum["ctrl"]
        BY <1>0, <1>2, <2>1, <2>3
      <3> HIDE DEF r, n
      <3>4. /\ <<r>> \in Seq(Replied)
            /\ \A j \in DOMAIN <<r>> : <<r>>[j] = r
        BY <3>1
      <3>5. r.pipe = "ctrl" => r.fnum <= srvFnum'["ctrl"]
        <4>1. srvFnum["ctrl"] \in Nat /\ srvFnum["ctrl"] + 1 \in Nat
          BY <1>0
        <4>2. ASSUME r.pipe = "ctrl" PROVE r.fnum = srvFnum["ctrl"] + 1 /\ srvFnum'["ctrl"] = srvFnum["ctrl"] + 1
          BY <3>1, <3>3, <4>2
        <4> QED BY <4>1, <4>2
      <3>6. GivenInv'
        <4>1. srvFnum["ctrl"] <= srvFnum'["ctrl"]
          BY <1>0, <3>3
        <4>2. \A j \in DOMAIN <<r>> :
                 OnCtrl(<<r>>[j], "open") /\ <<r>>[j].status = "ok" => <<r>>[j].fnum <= srvFnum'["ctrl"]
          BY <3>4, <3>5 DEF OnCtrl
        <4> QED BY <1>0, <1>1, <2>1, <3>2, <3>4, <4>1, <4>2, GivenServed
      <3>7. \A j \in DOMAIN <<r>> : OnCtrl(<<r>>[j], "read") => <<r>>[j].status # "ok"
        BY <3>1, <3>4 DEF OnCtrl
      <3>8. CASE Query.pipe # "ctrl"
        <4>1. ReadInv'
          <5>1. "ctrl" \in srvOpen' => "ctrl" \in srvOpen
            BY <2>3, <3>8
          <5>2. ~OnCtrl(Query, "close")
            BY <2>1 DEF OnCtrl
          <5> QED BY <1>0, <1>1, <2>1, <2>3, <3>2, <3>3, <3>4, <3>7, <3>8, <5>1, <5>2, ServedReads
        <4> QED BY <3>6, <4>1
      <3>9. CASE Query.pipe = "ctrl"
        <4>1. NoneLive'
          <5>1. ASSUME NEW k \in DOMAIN toSrv', Live(k)' PROVE FALSE
            <6>1. k + 1 \in DOMAIN toSrv /\ toSrv'[k] = toSrv[k + 1]
              BY <1>0, <2>1, TailElements
            <6>2. OnCtrl(toSrv[k + 1], "read") /\ toSrv[k + 1].fnum = srvFnum'["ctrl"]
              BY <5>1, <6>1 DEF Live
            <6>3. toSrv[k + 1].fnum <= srvFnum["ctrl"]
              BY <6>1, <6>2 DEF GivenInv
            <6> QED BY <1>0, <3>3, <3>9, <6>2, <6>3
          <5> QED BY <5>1 DEF NoneLive
        <4>2. OneLive'
          BY <4>1 DEF NoneLive, OneLive
        <4>3. (NoneFetched => NoneFetched') /\ (OneFetched => OneFetched')
          BY <1>0, <3>2, <3>4, <3>7, FetchedNoMore
        <4>4. parked' = parked
          BY <2>3
        <4>5. ReadInv'
          BY <1>1, <4>1, <4>2, <4>3, <4>4 DEF ReadInv, QuietCtrl, OneRead
        <4> QED BY <3>6, <4>5
      <3> QED BY <3>8, <3>9
    <2> QED BY <1>7, <2>1, <2>2, <2>3 DEF ServeOpen
  <1>8. CASE ServeWrite
    <2>1. toSrv # <<>> /\ toSrv' = Tail(toSrv) /\ Query.op = "write"
      BY <1>8 DEF ServeWrite, Serve
    <2>2. CASE Refuse("broken") \/ Refuse("invalid")
      BY <1>6, <2>1, <2>2 DEF OnCtrl
    <2>3. CASE Result("ok", <<>>) /\ UNCHANGED srvVars
      <3> DEFINE r == Answer(Query.op, Query.pipe, Query.fnum, "ok", <<>>)
      <3>1. r.op = "write" /\ r \in Replied
        BY <1>2, <2>1 DEF Answer, Replied
      <3>2. Answers(<<r>>)
        BY <2>3 DEF Result
      <3> HIDE DEF r
      <3>3. <<r>> \in Seq(Replied) /\ \A j \in DOMAIN <<r>> : <<r>>[j].op = "write"
        BY <3>1
      <3> QED BY <1>5, <2>1, <2>3, <3>2, <3>3 DEF OnCtrl, srvVars
    <2> QED BY <1>8, <2>2, <2>3 DEF ServeWrite
  <1>9. CASE ServeRead
    <2>1. toSrv # <<>> /\ toSrv' = Tail(toSrv) /\ Query.op = "read"
      BY <1>9 DEF ServeRead, Serve
    <2>2. CASE Refuse("invalid")
      BY <1>6, <2>1, <2>2 DEF OnCtrl
    <2>3. CASE Valid /\ parked' = parked \union {Query.pipe} /\ UNCHANGED <<srvOpen, srvFnum, toCli>>
      <3>1. CASE Query.pipe # "ctrl"
        <4>1. "ctrl" \in parked' => "ctrl" \in parked
          BY <2>3, <3>1
        <4>2. ~OnCtrl(Query, "close")
          BY <2>1 DEF OnCtrl
        <4> QED BY <1>4, <1>5, <2>1, <2>3, <4>1, <4>2
      <3>2. CASE Query.pipe = "ctrl"
        <4>1. Live(1)
          BY <1>2, <2>1, <2>3, <3>2 DEF Live, Valid, OnCtrl
        <4>2. ~NoneLive
          BY <1>2, <2>1, <4>1 DEF NoneLive
        <4>3. OneLive => NoneLive'
          <5>1. ~OnCtrl(Query, "close")
            BY <2>1 DEF OnCtrl
          <5> QED BY <1>0, <2>1, <2>3, <4>1, <5>1, LiveTail
        <4>4. NoneLive' => OneLive'
          BY DEF NoneLive, OneLive
        <4>5. NoneFetched' = NoneFetched /\ OneFetched' = OneFetched
          BY <2>3 DEF NoneFetched, OneFetched, Fetched
        <4>6. ReadInv'
          BY <1>1, <4>2, <4>3, <4>4, <4>5 DEF ReadInv, QuietCtrl, OneRead
        <4>7. GivenInv'
          BY <1>0, <1>1, <1>3, <1>4, <2>1, <2>3, GivenServed
        <4> QED BY <4>6, <4>7
      <3> QED BY <3>1, <3>2
    <2> QED BY <1>9, <2>2, <2>3 DEF ServeRead
  <1>10. CASE AnswerRead
    <2>1. PICK p \in parked :
             /\ \E status \in {"ok", "broken"}, data \in Seq(Message) :
                   /\ Answers(<<Answer("read", p, srvFnum[p], status, data)>>)
                   /\ status = "ok" => data # <<>>
             /\ parked' = parked \ {p}
      <3>1. \A p \in parked : s2c[p] \in Seq(Message) /\ (ClientRead(p) => s2c[p] # <<>>)
        BY <1>0 DEF SessTypeOK, ConnTypeOK, PipeTypeOK, ClientRead
      <3>2. <<>> \in Seq(Message)
        OBVIOUS
      <3>3. PICK p \in parked :
               /\ \/ ClientRead(p) /\ Answers(<<Answer("read", p, srvFnum[p], "ok", s2c[p])>>)
                  \/ Answers(<<Answer("read", p, srvFnum[p], "broken", <<>>)>>)
               /\ parked' = parked \ {p}
        BY <1>10 DEF AnswerRead
      <3> QED BY <3>1, <3>2, <3>3
    <2>2. p \in Pipe /\ srvFnum[p] \in Nat
      BY <1>0
    <2>3. PICK r \in Replied : Answers(<<r>>) /\ r.op = "read" /\ r.pipe = p
      <3>1. ASSUME NEW status \in {"ok", "broken"}, NEW data \in Seq(Message), status = "ok" => data # <<>>
            PROVE  LET r == Answer("read", p, srvFnum[p], status, data)
                   IN r \in Replied /\ r.op = "read" /\ r.pipe = p
        BY <2>2, <3>1 DEF Answer, Replied, ReqOp
      <3> QED BY <2>1, <3>1
    <2>4. UNCHANGED <<toSrv, srvOpen, srvFnum>>
      BY <1>10 DEF AnswerRead
    <2>5. <<r>> \in Seq(Replied) /\ \A j \in DOMAIN <<r>> : <<r>>[j] = r
      OBVIOUS
    <2>6. GivenInv'
      <3>1. \A j \in DOMAIN <<r>> : ~OnCtrl(<<r>>[j], "open")
        BY <2>3, <2>5 DEF OnCtrl
      <3> QED BY <1>0, <1>1, <1>3, <2>3, <2>4, <2>5, <3>1, GivenServed
    <2>7. NoneLive' = NoneLive /\ OneLive' = OneLive
      BY <2>4 DEF NoneLive, OneLive, Live
    <2>8. CASE p = "ctrl"
      <3>1. NoneFetched => OneFetched'
        BY <1>0, <2>3, FetchedOneMore
      <3> QED BY <1>1, <2>1, <2>6, <2>7, <2>8, <3>1 DEF ReadInv, QuietCtrl, OneRead
    <2>9. CASE p # "ctrl"
      <3>1. \A j \in DOMAIN <<r>> : ~OnCtrl(<<r>>[j], "read")
        BY <2>3, <2>5, <2>9 DEF OnCtrl
      <3>2. (NoneFetched => NoneFetched') /\ (OneFetched => OneFetched')
        BY <1>0, <2>3, <2>5, <3>1, FetchedNoMore
      <3>3. ("ctrl" \in parked') = ("ctrl" \in parked)
        BY <2>1, <2>9
      <3> QED BY <1>1, <2>6, <2>7, <3>2, <3>3 DEF ReadInv, QuietCtrl, OneRead
    <2> QED BY <2>8, <2>9
  <1>11. CASE ServeClose
    <2>1. toSrv # <<>> /\ toSrv' = Tail(toSrv) /\ Query.op = "close"
      BY <1>11 DEF ServeClose, Serve
    <2>2. CASE ~Valid /\ Refuse("invalid")
      BY <1>6, <2>1, <2>2
    <2> DEFINE cancelled == Answer("read", Query.pipe, Query.fnum, "cancelled", <<>>)
               closed == Answer("close", Query.pipe, Query.fnum, "ok", <<>>)
               b == Query.pipe \in parked
               rs == (IF b THEN <<cancelled>> ELSE <<>>) \o <<closed>>
    <2>3. CASE /\ Answers(rs) /\ parked' = parked \ {Query.pipe}
               /\ srvOpen' = srvOpen \ {Query.pipe} /\ UNCHANGED srvFnum
      <3>1. /\ cancelled \in Replied /\ closed \in Replied
            /\ cancelled.status # "ok" /\ cancelled.op = "read" /\ closed.op = "close"
        BY <1>2, <2>1, AnswerType DEF ReqOp, Answer
      <3>2. Answers(rs)
        BY <2>3
      <3> HIDE DEF cancelled, closed
      <3>3. b \in BOOLEAN
        BY DEF b
      <3> HIDE DEF b
      <3>4. rs \in Seq(Replied) /\ \A k \in DOMAIN rs : rs[k] \in {cancelled, closed}
        BY <3>1, <3>3, CloseAnswers
      <3> HIDE DEF rs
      <3>5. /\ \A k \in DOMAIN rs : OnCtrl(rs[k], "read") => rs[k].status # "ok"
            /\ \A k \in DOMAIN rs : OnCtrl(rs[k], "open") => rs[k].status # "ok"
        BY <3>1, <3>4 DEF OnCtrl
      <3>6. /\ "ctrl" \in srvOpen' => "ctrl" \in srvOpen
            /\ OnCtrl(Query, "close") => "ctrl" \notin srvOpen'
            /\ "ctrl" \in parked' => "ctrl" \in parked
        BY <2>3 DEF OnCtrl
      <3> QED BY <1>5, <2>1, <2>3, <3>2, <3>4, <3>5, <3>6
    <2> QED BY <1>11, <2>2, <2>3 DEF ServeClose
  <1>12. CASE Hangup
    <2>1. toSrv = <<>> /\ UNCHANGED <<srvFnum, toSrv, toCli>> /\ srvOpen' = {} /\ parked' = {}
      BY <1>12 DEF Hangup
    <2>2. NoneLive' /\ OneLive'
      BY <2>1 DEF NoneLive, OneLive, Live
    <2>3. NoneFetched' = NoneFetched /\ OneFetched' = OneFetched
      BY <2>1 DEF NoneFetched, OneFetched, Fetched
    <2>4. GivenInv'
      BY <1>0, <1>1, <1>3, <1>4, <2>1, GivenServed
    <2> QED BY <1>1, <2>1, <2>2, <2>3, <2>4 DEF ReadInv, QuietCtrl, OneRead
  <1> QED BY <1>7, <1>8, <1>9, <1>10, <1>11, <1>12 DEF ServerNext

\* What the client adds to the requests on the wire.
Adds(rs) == toSrv' = toSrv \/ toSrv' = toSrv \o rs

LEMMA SendAdds ==
  ASSUME NEW link, NEW rest, NEW rs, SendOn(link, rest, rs)
  PROVE  Adds(rs)
  BY DEF SendOn, Adds

\* A read after the close of the same file brings nothing.
LEMMA AddsNoRead ==
  ASSUME NEW S, toSrv \in Seq(S), NEW rs \in Seq(S), Adds(rs), UNCHANGED <<srvOpen, srvFnum>>,
         \A j \in DOMAIN rs : OnCtrl(rs[j], "read") =>
            \E i \in DOMAIN rs : i < j /\ OnCtrl(rs[i], "close") /\ rs[i].fnum = rs[j].fnum
  PROVE  (NoneLive => NoneLive') /\ (OneLive => OneLive')
  <1>1. ASSUME NEW k \in DOMAIN toSrv', Live(k)'
        PROVE  k \in DOMAIN toSrv /\ Live(k)
    BY <1>1, LiveMore DEF Adds
  <1> QED BY <1>1 DEF NoneLive, OneLive

LEMMA AddsOneRead ==
  ASSUME NEW S, toSrv \in Seq(S), NEW rs \in Seq(S), Adds(rs), UNCHANGED <<srvOpen, srvFnum>>,
         NEW m, \A j \in DOMAIN rs : OnCtrl(rs[j], "read") => j = m,
         NoneLive
  PROVE  OneLive'
  <1>1. ASSUME NEW k \in DOMAIN toSrv', Live(k)'
        PROVE  k = Len(toSrv) + m
    <2>1. ~(k \in DOMAIN toSrv /\ Live(k))
      BY DEF NoneLive
    <2> QED BY <1>1, <2>1, LiveMore DEF Adds
  <1> QED BY <1>1 DEF OneLive

LEMMA AddsElements ==
  ASSUME NEW S, toSrv \in Seq(S), NEW rs \in Seq(S), Adds(rs), NEW k \in DOMAIN toSrv'
  PROVE  \/ k \in DOMAIN toSrv /\ toSrv'[k] = toSrv[k]
         \/ \E j \in DOMAIN rs : toSrv'[k] = rs[j]
  <1>1. CASE toSrv' = toSrv
    BY <1>1
  <1>2. CASE toSrv' = toSrv \o rs
    <2>1. toSrv \in Seq(S) /\ rs \in Seq(S) /\ k \in DOMAIN (toSrv \o rs)
      BY <1>2
    <2>2. \/ k \in DOMAIN toSrv /\ (toSrv \o rs)[k] = toSrv[k]
          \/ k - Len(toSrv) \in DOMAIN rs /\ (toSrv \o rs)[k] = rs[k - Len(toSrv)]
      BY ONLY <2>1, ConcatSplit
    <2> QED BY <1>2, <2>2
  <1> QED BY <1>1, <1>2 DEF Adds

\* The opens of the control pipe among what is pending.
LEMMA RemoveAtOpens ==
  ASSUME NEW q \in Seq(Waiting), NEW m \in DOMAIN q, OneOpen(q)
  PROVE  /\ OneOpen(RemoveAt(q, m))
         /\ OnCtrl(q[m], "open") => NoOpen(RemoveAt(q, m))
  <1> DEFINE r == RemoveAt(q, m)
             at(k) == IF k < m THEN k ELSE k + 1
  <1>1. DOMAIN q \subseteq Nat
    OBVIOUS
  <1>2. \A k \in DOMAIN r : k \in DOMAIN q /\ k + 1 \in DOMAIN q /\ r[k] = IF k < m THEN q[k] ELSE q[k + 1]
    BY RemoveAtElements
  <1>3. \A k \in DOMAIN r : k \in Nat /\ at(k) \in DOMAIN q /\ r[k] = q[at(k)] /\ at(k) # m
    BY <1>1, <1>2
  <1>4. \A i, j \in DOMAIN r : at(i) = at(j) => i = j
    BY <1>1, <1>3
  <1> HIDE DEF r, at
  <1>5. OneOpen(r)
    BY <1>3, <1>4 DEF OneOpen
  <1>6. OnCtrl(q[m], "open") => NoOpen(r)
    BY <1>3 DEF OneOpen, NoOpen
  <1> QED BY <1>5, <1>6 DEF r

LEMMA WithinNoOpen ==
  ASSUME NEW r, NEW q, Within(r, q), NoOpen(q)
  PROVE  NoOpen(r)
  <1>1. ASSUME NEW i \in DOMAIN r, OnCtrl(r[i], "open") PROVE FALSE
    <2>1. PICK j \in DOMAIN q : r[i] = q[j]
      BY DEF Within
    <2> QED BY <1>1, <2>1 DEF NoOpen
  <1> QED BY <1>1 DEF NoOpen

LEMMA UndestroyedOpens ==
  ASSUME NEW p, NEW rest \in Seq(Waiting)
  PROVE  /\ OneOpen(rest) => OneOpen(Undestroyed(p, rest))
         /\ NoOpen(rest) => NoOpen(Undestroyed(p, rest))
  <1> DEFINE rreq == {i \in DOMAIN rest : Destroyed(p, rest[i])}
  <1>1. rreq \subseteq 1..Len(rest) /\ Len(rest) \in Nat
    OBVIOUS
  <1>2. ASSUME rreq # {}
        PROVE  (CHOOSE i \in rreq : \A j \in rreq : j <= i) \in DOMAIN rest
    BY <1>1, <1>2, Greatest
  <1>3. OneOpen(rest) => OneOpen(Undestroyed(p, rest))
    BY <1>2, RemoveAtOpens DEF Undestroyed
  <1>4. NoOpen(rest) => NoOpen(Undestroyed(p, rest))
    BY UndestroyedWithin, WithinNoOpen
  <1> QED BY <1>3, <1>4

LEMMA SentOpens ==
  ASSUME NEW link, NEW a, NEW rest \in Seq(Waiting), NEW rs \in Seq(Wired(a)),
         reqTimeout \in BOOLEAN, SendOn(link, rest, rs)
  PROVE  /\ (\A j \in DOMAIN rs : ~OnCtrl(rs[j], "open")) =>
               (OneOpen(rest) => OneOpen(pending')) /\ (NoOpen(rest) => NoOpen(pending'))
         /\ Len(rs) = 1 /\ NoOpen(rest) => OneOpen(pending')
  <1> DEFINE t == Added(rs)
  <1>1. t \in Seq(Waiting) /\ Len(t) = Len(rs) /\ DOMAIN t = DOMAIN rs
    BY AddedType DEF Added
  <1>2. \A i \in DOMAIN t : OnCtrl(t[i], "open") => OnCtrl(rs[i], "open")
    BY DEF Added, OnCtrl
  <1>3. pending' = rest \/ pending' = rest \o t
    BY DEF SendOn, Added
  <1> HIDE DEF t
  <1>4. ASSUME NEW k \in DOMAIN (rest \o t)
        PROVE  \/ k \in DOMAIN rest /\ (rest \o t)[k] = rest[k]
               \/ /\ k - Len(rest) \in DOMAIN t /\ k = Len(rest) + (k - Len(rest))
                  /\ (rest \o t)[k] = t[k - Len(rest)]
    <2>1. rest \in Seq(Waiting) /\ t \in Seq(Waiting) /\ k \in DOMAIN (rest \o t)
      BY <1>1
    <2> QED BY ONLY <2>1, ConcatSplit
  <1>5. ASSUME \A j \in DOMAIN rs : ~OnCtrl(rs[j], "open"), NEW k \in DOMAIN pending', OnCtrl(pending'[k], "open")
        PROVE  k \in DOMAIN rest /\ pending'[k] = rest[k]
    BY <1>1, <1>2, <1>3, <1>4, <1>5
  <1>6. ASSUME Len(rs) = 1, NoOpen(rest), NEW k \in DOMAIN pending', OnCtrl(pending'[k], "open")
        PROVE  k = Len(rest) + 1
    <2>1. DOMAIN t = {1}
      BY <1>1, <1>6
    <2>2. ~(k \in DOMAIN rest /\ pending'[k] = rest[k])
      BY <1>6 DEF NoOpen
    <2> QED BY <1>3, <1>4, <1>6, <2>1, <2>2
  <1>7. (\A j \in DOMAIN rs : ~OnCtrl(rs[j], "open")) =>
           (OneOpen(rest) => OneOpen(pending')) /\ (NoOpen(rest) => NoOpen(pending'))
    BY <1>5 DEF OneOpen, NoOpen
  <1>8. Len(rs) = 1 /\ NoOpen(rest) => OneOpen(pending')
    BY <1>6 DEF OneOpen
  <1> QED BY <1>7, <1>8

\* The steps of the client other than those that open the control pipe or read
\* a message from it.
PlainStep ==
    \/ DropReply \/ StdOpened \/ OutputRead \/ Written \/ Closed \/ ErrorReply
    \/ RequestTimeout \/ TransportDead \/ StdinRead \/ Timer \/ \E s \in Signals : Signal(s)
    \/ (\E ok \in BOOLEAN : Installed(ok)) \/ Reinstalled \/ Exit

\* They send no read of the control pipe and write nothing to it but "abort".
Plain ==
    \E rs \in Seq(Wired(account)) :
        /\ Adds(rs)
        /\ \A j \in DOMAIN rs : ~OnCtrl(rs[j], "read") /\ (OnCtrl(rs[j], "write") => rs[j].items = Abort)
Taken == toCli' = toCli \/ (toCli # <<>> /\ toCli' = Tail(toCli))
SamePlace ==
    /\ fd'["ctrl"] = fd["ctrl"] /\ io_read'["ctrl"] \in {0, io_read["ctrl"]}
    /\ mode' = "reinstall" => mode = "reinstall" \/ io_read'["ctrl"] = 0
    /\ state' = state \/ (mode = "reinstall" /\ state' = "OPENING")

LEMMA PlainSends ==
  ASSUME ClientTypeOK, NEW q \in Wired(account), Adds(<<q>>),
         ~OnCtrl(q, "read"), OnCtrl(q, "write") => q.items = Abort
  PROVE  Plain
  <1>1. <<q>> \in Seq(Wired(account)) /\ \A j \in DOMAIN <<q>> : <<q>>[j] = q
    OBVIOUS
  <1> QED BY <1>1 DEF Plain

LEMMA PlainNothing ==
  ASSUME toSrv' = toSrv
  PROVE  Plain
  <1>1. <<>> \in Seq(Wired(account)) /\ \A j \in DOMAIN <<>> : FALSE
    OBVIOUS
  <1> QED BY <1>1 DEF Plain, Adds

LEMMA FailPlain ==
  ASSUME ClientTypeOK, NEW link, NEW op, NEW p \in Pipe, NEW status,
         NEW rest \in Seq(Waiting), Fail(link, op, p, status, rest)
  PROVE  Plain /\ SamePlace
  <1>1. CASE p = "ctrl"
    <2>1. OnCtrlError(op, status, rest) /\ UNCHANGED <<state, fd, io_read>>
      BY <1>1 DEF Fail
    <2>2. toSrv' = toSrv /\ mode' \in {mode, "install", "exiting"}
      BY <2>1 DEF OnCtrlError, exit_program
    <2> QED BY <2>1, <2>2, PlainNothing DEF SamePlace
  <1>2. CASE p # "ctrl"
    <2>1. SendOn(link, Undestroyed(p, rest), <<async_close(p)>>) /\ UNCHANGED <<mode, state, fd, io_read>>
      BY <1>2 DEF Fail, OnStdError
    <2>2. async_close(p) \in Wired(account)
      <3>1. p \in Pipe /\ fd[p] \in Nat
        BY DEF ClientTypeOK
      <3> QED BY <3>1, OwnRequestType
    <2>3. ~OnCtrl(async_close(p), "read") /\ ~OnCtrl(async_close(p), "write")
      BY DEF async_close, Request, OnCtrl
    <2>4. Adds(<<async_close(p)>>)
      BY <2>1, SendAdds
    <2> QED BY <2>1, <2>2, <2>3, <2>4, PlainSends DEF SamePlace
  <1> QED BY <1>1, <1>2

LEMMA CloseDonePlain ==
  ASSUME ClientTypeOK, NEW p \in Pipe, NEW rest, CloseDone(p, rest)
  PROVE  Plain /\ SamePlace
  <1>1. /\ toSrv' = toSrv /\ UNCHANGED <<fd, state>>
        /\ io_read' = [io_read EXCEPT ![p] = 0]
        /\ mode' = IF p = "ctrl" /\ state = "CLOSING_FOR_REINSTALL" THEN "reinstall" ELSE mode
    BY DEF CloseDone
  <1>2. io_read \in [Pipe -> Nat] /\ "ctrl" \in Pipe
    BY DEF ClientTypeOK, Pipe
  <1>3. io_read'["ctrl"] = IF p = "ctrl" THEN 0 ELSE io_read["ctrl"]
    BY <1>1, <1>2
  <1> QED BY <1>1, <1>3, PlainNothing DEF SamePlace

LEMMA PlainSteps ==
  ASSUME ClientTypeOK, PlainStep
  PROVE  Plain /\ Taken /\ SamePlace
  <1>0. /\ pending \in Seq(Waiting) /\ io_read \in [Pipe -> Nat] /\ fd \in [Pipe -> Nat]
        /\ "ctrl" \in Pipe /\ "in" \in Pipe
    BY DEF ClientTypeOK, Pipe
  <1>1. CASE DropReply
    <2>1. UNCHANGED <<toSrv, state, mode, fd, io_read>> /\ Taken
      BY <1>1 DEF DropReply, Taken, stateVars, ioVars, reqVars
    <2> QED BY <2>1, PlainNothing DEF SamePlace
  <1>2. CASE StdOpened \/ OutputRead
    <2>1. \E op, ok : Receive(op, ok)
      BY <1>2 DEF StdOpened, OutputRead
    <2>2. /\ Reply.pipe \in Pipe /\ Reply.fnum \in Nat /\ Reply.pipe # "ctrl" /\ Taken
          /\ fd[Reply.pipe] \in Nat
      BY <1>0, <1>2, <2>1, ReceiveType DEF StdOpened, OutputRead, Receive, Taken
    <2>3. PICK f \in Nat : Send(Rest(Reply), <<async_read(Reply.pipe, f)>>) /\ ReadIssued(Reply.pipe, f)
      BY <1>2, <2>2 DEF StdOpened, OutputRead
    <2>4. async_read(Reply.pipe, f) \in Wired(account)
      BY <2>2, OwnRequestType
    <2>5. ~OnCtrl(async_read(Reply.pipe, f), "read") /\ ~OnCtrl(async_read(Reply.pipe, f), "write")
      BY <2>2 DEF async_read, Request, OnCtrl
    <2>6. Adds(<<async_read(Reply.pipe, f)>>)
      BY <2>3, SendAdds DEF Send
    <2>7. Plain
      BY <2>4, <2>5, <2>6, PlainSends
    <2>8. io_read'["ctrl"] = io_read["ctrl"]
      BY <1>0, <2>2, <2>3 DEF ReadIssued
    <2>9. fd'["ctrl"] = fd["ctrl"] /\ UNCHANGED <<state, mode>>
      BY <1>0, <1>2, <2>2 DEF StdOpened, OutputRead, stateVars
    <2> QED BY <2>2, <2>7, <2>8, <2>9 DEF SamePlace
  <1>3. CASE Written
    <2>1. UNCHANGED <<toSrv, state, mode, fd, io_read>> /\ Taken
      BY <1>3 DEF Written, Receive, Taken, stateVars, ioVars
    <2> QED BY <2>1, PlainNothing DEF SamePlace
  <1>4. CASE Closed
    <2>1. PICK ok \in BOOLEAN : Receive("close", ok)
      BY <1>4 DEF Closed
    <2>2. Reply.pipe \in Pipe /\ Taken
      BY <2>1, ReceiveType DEF Receive, Taken
    <2> QED BY <1>4, <2>2, CloseDonePlain DEF Closed
  <1>5. CASE ErrorReply
    <2>1. PICK op \in {"open", "read", "write"} : Receive(op, FALSE)
      BY <1>5 DEF ErrorReply
    <2>2. Reply.pipe \in Pipe /\ Rest(Reply) \in Seq(Waiting) /\ Taken
      BY <2>1, ReceiveType DEF Receive, Taken
    <2> QED BY <1>5, <2>2, FailPlain DEF ErrorReply
  <1>6. CASE RequestTimeout
    <2>1. PICK i \in DOMAIN pending :
             Fail(net, pending[i].op, pending[i].pipe, "timeout", RemoveAt(pending, i))
      BY <1>6 DEF RequestTimeout
    <2>2. RemoveAt(pending, i) \in Seq(Waiting)
      BY <1>0, RemoveAtType
    <2>3. pending[i].pipe \in Pipe
      <3>1. pending[i] \in Waiting
        BY <1>0
      <3> QED BY <3>1 DEF Waiting
    <2>4. Taken
      BY <1>6 DEF RequestTimeout, Taken
    <2> QED BY <2>1, <2>2, <2>3, <2>4, FailPlain
  <1>7. CASE TransportDead
    <2>0. Taken
      BY <1>7 DEF TransportDead, Taken
    <2>1. CASE pending = <<>>
      <3>1. UNCHANGED <<toSrv, state, mode, fd, io_read>>
        BY <1>7, <2>1 DEF TransportDead, stateVars, ioVars, reqVars
      <3> QED BY <2>0, <3>1, PlainNothing DEF SamePlace
    <2>2. CASE pending # <<>>
      <3>1. Front(pending) \in Seq(Waiting) /\ Last(pending).pipe \in Pipe
        <4>1. PICK i \in DOMAIN pending : Last(pending) = pending[i]
          BY <1>0, <2>2, FrontElements
        <4>2. Last(pending) \in Waiting
          BY <1>0, <4>1
        <4> QED BY <1>0, <2>2, <4>2, FrontElements DEF Waiting
      <3>2. \/ CloseDone(Last(pending).pipe, Front(pending))
            \/ Fail("dead", Last(pending).op, Last(pending).pipe, "network", Front(pending))
        BY <1>7, <2>2 DEF TransportDead
      <3> QED BY <2>0, <3>1, <3>2, FailPlain, CloseDonePlain
    <2> QED BY <2>1, <2>2
  <1>8. CASE StdinRead
    <2> DEFINE q == async_write("in", fd["in"], Input)
    <2>1. q \in Wired(account)
      BY <1>0, OwnRequestType
    <2>2. ~OnCtrl(q, "read") /\ ~OnCtrl(q, "write")
      BY DEF async_write, Request, OnCtrl
    <2>3. Adds(<<q>>)
      BY <1>8, SendAdds DEF StdinRead, Send
    <2>4. UNCHANGED <<state, mode, fd, io_read>> /\ Taken
      BY <1>8 DEF StdinRead, Taken, stateVars
    <2> QED BY <2>1, <2>2, <2>3, <2>4, PlainSends DEF SamePlace
  <1>9. CASE Timer
    <2> DEFINE q == async_write("ctrl", fd["ctrl"], Abort)
    <2>1. q \in Wired(account)
      BY <1>0, OwnRequestType
    <2>2. ~OnCtrl(q, "read") /\ q.items = Abort
      BY DEF async_write, Request, OnCtrl
    <2>3. Adds(<<q>>)
      BY <1>9, SendAdds DEF Timer, Send
    <2>4. UNCHANGED <<state, mode, fd, io_read>> /\ Taken
      BY <1>9 DEF Timer, Taken, stateVars
    <2> QED BY <2>1, <2>2, <2>3, <2>4, PlainSends DEF SamePlace
  <1>10. CASE (\E s \in Signals : Signal(s)) \/ Exit
    <2>1. UNCHANGED <<toSrv, state, fd, io_read>> /\ Taken /\ mode' \in {mode, "killed", "exited"}
      BY <1>10 DEF Signal, Exit, Taken, stateVars, ioVars, reqVars
    <2> QED BY <2>1, PlainNothing DEF SamePlace
  <1>11. CASE (\E ok \in BOOLEAN : Installed(ok)) \/ Reinstalled
    <2> DEFINE q == async_open("ctrl")
    <2>1. q \in Wired(account)
      BY <1>0, OwnRequestType
    <2>2. ~OnCtrl(q, "read") /\ ~OnCtrl(q, "write")
      BY DEF async_open, Request, OnCtrl
    <2>3. Plain
      <3>1. toSrv' = toSrv \/ Send(pending, <<q>>)
        BY <1>11 DEF Installed, Reinstalled, reqVars
      <3> QED BY <2>1, <2>2, <3>1, SendAdds, PlainSends, PlainNothing DEF Send
    <2>4. UNCHANGED <<fd, io_read>> /\ Taken /\ mode' \in {"loop", "exiting"}
      BY <1>11 DEF Installed, Reinstalled, Taken, ioVars, exit_program
    <2>5. state' = state \/ (mode = "reinstall" /\ state' = "OPENING")
      BY <1>11 DEF Installed, Reinstalled
    <2> QED BY <2>3, <2>4, <2>5 DEF SamePlace
  <1> QED
    BY <1>1, <1>2, <1>3, <1>4, <1>5, <1>6, <1>7, <1>8, <1>9, <1>10, <1>11 DEF PlainStep

LEMMA PlainReads ==
  ASSUME SessTypeOK, ReadInv, GivenInv, OpenInv, Plain, Taken, SamePlace, UNCHANGED srvVars
  PROVE  ReadInv' /\ GivenInv'
  <1>0. /\ toSrv \in Seq(Wired(account)) /\ toCli \in Seq(Replied) /\ srvFnum["ctrl"] \in Nat
        /\ UNCHANGED <<srvOpen, srvFnum, parked>>
    BY DEF SessTypeOK, ClientTypeOK, ServerTypeOK, Pipe, srvVars
  <1>1. PICK rs \in Seq(Wired(account)) : Adds(rs) /\ \A j \in DOMAIN rs : ~OnCtrl(rs[j], "read")
    BY DEF Plain
  <1>2. (NoneLive => NoneLive') /\ (OneLive => OneLive')
    BY <1>0, <1>1, AddsNoRead
  <1>3. (NoneFetched => NoneFetched') /\ (OneFetched => OneFetched')
    <2>1. CASE toCli' = toCli
      BY <2>1 DEF NoneFetched, OneFetched, Fetched
    <2>2. CASE toCli # <<>> /\ toCli' = Tail(toCli)
      BY <1>0, <2>2, FetchedTail
    <2> QED BY <2>1, <2>2 DEF Taken
  <1>4. ReadInv'
    <2>1. state' = state \/ (state = "CLOSING_FOR_REINSTALL" /\ state' = "OPENING")
      BY DEF SamePlace, OpenInv
    <2> QED BY <1>0, <1>2, <1>3, <2>1 DEF ReadInv, QuietCtrl, OneRead
  <1>5. \A i \in DOMAIN toSrv' : OnCtrl(toSrv'[i], "read") => toSrv'[i].fnum <= srvFnum'["ctrl"]
    BY <1>0, <1>1, AddsElements DEF GivenInv
  <1>6. \A i \in DOMAIN toCli' : Given(toCli[i])'
    <2>1. \A i \in DOMAIN toCli' : \E j \in DOMAIN toCli : toCli'[i] = toCli[j]
      <3>1. CASE toCli # <<>> /\ toCli' = Tail(toCli)
        BY <1>0, <3>1, FetchedTail
      <3> QED BY <3>1 DEF Taken
    <2> QED BY <1>0, <2>1 DEF GivenInv, Given, OnCtrl
  <1>7. /\ fd'["ctrl"] <= srvFnum'["ctrl"] /\ io_read'["ctrl"] <= srvFnum'["ctrl"]
        /\ (state' = "OPENING" \/ mode' = "reinstall") => io_read'["ctrl"] = 0
        /\ state' = "GETTING_VERSION" => io_read'["ctrl"] \in {0, fd'["ctrl"]}
    <2>1. /\ fd["ctrl"] <= srvFnum["ctrl"] /\ io_read["ctrl"] <= srvFnum["ctrl"]
          /\ (state = "OPENING" \/ mode = "reinstall") => io_read["ctrl"] = 0
          /\ state = "GETTING_VERSION" => io_read["ctrl"] \in {0, fd["ctrl"]}
      BY DEF GivenInv
    <2>2. /\ fd'["ctrl"] = fd["ctrl"] /\ io_read'["ctrl"] \in {0, io_read["ctrl"]}
          /\ mode' = "reinstall" => mode = "reinstall" \/ io_read'["ctrl"] = 0
          /\ state' = state \/ (mode = "reinstall" /\ state' = "OPENING")
      BY DEF SamePlace
    <2>3. 0 <= srvFnum["ctrl"] /\ srvFnum'["ctrl"] = srvFnum["ctrl"]
      BY <1>0
    <2>4. fd'["ctrl"] <= srvFnum'["ctrl"]
      BY <2>1, <2>2, <2>3
    <2>5. io_read'["ctrl"] <= srvFnum'["ctrl"]
      <3>1. CASE io_read'["ctrl"] = 0
        BY <2>3, <3>1
      <3>2. CASE io_read'["ctrl"] = io_read["ctrl"]
        BY <2>1, <2>3, <3>2
      <3> QED BY <2>2, <3>1, <3>2
    <2>6. (state' = "OPENING" \/ mode' = "reinstall") => io_read'["ctrl"] = 0
      BY <2>1, <2>2
    <2>7. state' = "GETTING_VERSION" => io_read'["ctrl"] \in {0, fd'["ctrl"]}
      BY <2>1, <2>2
    <2> QED BY <2>4, <2>5, <2>6, <2>7
  <1>8. GivenInv'
    BY ONLY <1>5, <1>6, <1>7, ZenonT(30) DEF GivenInv
  <1> QED BY <1>4, <1>8

\* The file numbers of the reads on the wire stay those the server has given.
LEMMA AddsGiven ==
  ASSUME SessTypeOK, GivenInv, UNCHANGED srvVars, NEW rs \in Seq(Wired(account)), Adds(rs),
         \A j \in DOMAIN rs : OnCtrl(rs[j], "read") => rs[j].fnum <= srvFnum["ctrl"]
  PROVE  \A i \in DOMAIN toSrv' : OnCtrl(toSrv'[i], "read") => toSrv'[i].fnum <= srvFnum'["ctrl"]
  <1>1. toSrv \in Seq(Wired(account)) /\ srvFnum' = srvFnum
    BY DEF SessTypeOK, ClientTypeOK, srvVars
  <1>2. ASSUME NEW i \in DOMAIN toSrv', OnCtrl(toSrv'[i], "read")
        PROVE  toSrv'[i].fnum <= srvFnum["ctrl"]
    <2>1. \/ i \in DOMAIN toSrv /\ toSrv'[i] = toSrv[i]
          \/ \E j \in DOMAIN rs : toSrv'[i] = rs[j]
      BY <1>1, AddsElements
    <2>2. CASE i \in DOMAIN toSrv /\ toSrv'[i] = toSrv[i]
      <3>1. OnCtrl(toSrv[i], "read")
        BY <1>2, <2>2
      <3> QED BY <2>2, <3>1 DEF GivenInv
    <2>3. ASSUME NEW j \in DOMAIN rs, toSrv'[i] = rs[j]
          PROVE  toSrv'[i].fnum <= srvFnum["ctrl"]
      <3>1. OnCtrl(rs[j], "read")
        BY <1>2, <2>3
      <3> QED BY <2>3, <3>1
    <2> QED BY <2>1, <2>2, <2>3
  <1> QED BY <1>1, <1>2

\* The control pipe is open: the one read is sent.
LEMMA CtrlOpenedReads ==
  ASSUME SessTypeOK, ReadInv, GivenInv, OpenInv, CtrlOpened, UNCHANGED srvVars
  PROVE  ReadInv' /\ GivenInv'
  <1>0. /\ ClientTypeOK /\ toSrv \in Seq(Wired(account)) /\ toCli \in Seq(Replied)
        /\ srvFnum["ctrl"] \in Nat /\ UNCHANGED <<srvOpen, srvFnum, parked>>
        /\ io_read \in [Pipe -> Nat] /\ fd \in [Pipe -> Nat] /\ "ctrl" \in Pipe
        /\ pending \in Seq(Waiting)
    BY DEF SessTypeOK, ClientTypeOK, ServerTypeOK, Pipe, srvVars
  <1>1. /\ toCli # <<>> /\ toCli' = Tail(toCli) /\ Matching(Reply) # {} /\ mode = "loop"
        /\ OnCtrl(Reply, "open") /\ Reply.status = "ok" /\ Reply.fnum \in Nat
    BY <1>0, ReceiveType DEF CtrlOpened, Receive, Receiving, OnCtrl
  <1>2. state = "OPENING"
    <2>1. Matched(Reply) \in DOMAIN pending /\ OnCtrl(pending[Matched(Reply)], "open")
      BY <1>0, <1>1, MatchedPending DEF Matching, OnCtrl
    <2> QED BY <2>1 DEF OpenInv, NoOpen
  <1>3. QuietCtrl /\ io_read["ctrl"] = 0
    BY <1>2 DEF ReadInv, GivenInv
  <1>4. /\ Reply = toCli[1] /\ 1 \in DOMAIN toCli /\ NoneFetched'
        /\ \A i \in DOMAIN toCli' : i + 1 \in DOMAIN toCli /\ toCli'[i] = toCli[i + 1]
    BY <1>0, <1>1, <1>3, FetchedTail DEF QuietCtrl
  <1> DEFINE f == Reply.fnum
             w == async_write("ctrl", f, GetVersion)
             r == async_read("ctrl", f)
             rs == <<w, r>>
  <1>5. f <= srvFnum["ctrl"]
    BY <1>1, <1>4 DEF GivenInv, Given
  <1>6. /\ ~OnCtrl(w, "read") /\ OnCtrl(r, "read") /\ r.fnum = f
        /\ w \in Wired(account) /\ r \in Wired(account)
    BY <1>0, <1>1, <1>3, OwnRequestType DEF async_write, async_read, Request, OnCtrl, Cached
  <1>7. Adds(rs)
    BY SendAdds DEF CtrlOpened, Send
  <1>8. fd'["ctrl"] = f /\ io_read'["ctrl"] = f /\ state' = "GETTING_VERSION" /\ mode' = mode
    BY <1>0, <1>3 DEF CtrlOpened, ReadIssued, Cached
  <1> HIDE DEF f, w, r
  <1>9. rs \in Seq(Wired(account)) /\ DOMAIN rs = {1, 2} /\ rs[1] = w /\ rs[2] = r
    BY <1>6
  <1> HIDE DEF rs
  <1>10. OneLive'
    <2>1. \A j \in DOMAIN rs : OnCtrl(rs[j], "read") => j = 2
      BY <1>6, <1>9
    <2> QED BY <1>0, <1>3, <1>7, <1>9, <2>1, AddsOneRead DEF QuietCtrl
  <1>11. OneRead'
    BY <1>0, <1>3, <1>4, <1>10 DEF OneRead, QuietCtrl, NoneFetched, OneFetched
  <1>12. \A i \in DOMAIN toSrv' : OnCtrl(toSrv'[i], "read") => toSrv'[i].fnum <= srvFnum'["ctrl"]
    <2>1. \A j \in DOMAIN rs : OnCtrl(rs[j], "read") => rs[j].fnum <= srvFnum["ctrl"]
      BY <1>5, <1>6, <1>9
    <2> QED BY <1>7, <1>9, <2>1, AddsGiven
  <1>13. \A i \in DOMAIN toCli' : Given(toCli[i])'
    BY <1>0, <1>4 DEF GivenInv, Given, OnCtrl
  <1>14. ReadInv'
    BY <1>8, <1>11 DEF ReadInv
  <1>15. GivenInv'
    BY <1>0, <1>1, <1>5, <1>8, <1>12, <1>13 DEF GivenInv
  <1> QED BY <1>14, <1>15

\* A message is read from the control pipe: the next read takes the place of
\* this one, or the file is closed.
CtrlMessage == OnStdIoErr \/ OnReturnCode \/ OnVersion \/ OnBadVersion \/ OnServiceError \/ OnUnknown

\* A version that is bad is not met once the command was sent.
LEMMA MessageFetched ==
  ASSUME SessTypeOK, ReadInv, VersionInv, NEW type, CtrlRead(type)
  PROVE  /\ toCli # <<>> /\ toCli' = Tail(toCli) /\ mode = "loop" /\ Reply.fnum \in Nat
         /\ Reply = toCli[1] /\ 1 \in DOMAIN toCli /\ Fetched(1)
         /\ state \in {"GETTING_VERSION", "RUNNING"}
         /\ Head(Reply.data).type = type
         /\ type = "version" => Head(Reply.data).val = ver
         /\ type = "error:" => "malloc" \in MayFail
         /\ Rest(Reply) \in Seq(Waiting)
  <1>0. ClientTypeOK /\ toCli \in Seq(Replied)
    BY DEF SessTypeOK, ClientTypeOK
  <1>1. /\ toCli # <<>> /\ toCli' = Tail(toCli) /\ mode = "loop" /\ Reply.fnum \in Nat
        /\ OnCtrl(Reply, "read") /\ Reply.status = "ok" /\ Reply.data \in Seq(Message) /\ Reply.data # <<>>
        /\ Rest(Reply) \in Seq(Waiting) /\ Head(Reply.data).type = type
    BY <1>0, ReceiveType DEF CtrlRead, Receive, Receiving, OnCtrl
  <1>2. Reply = toCli[1] /\ 1 \in DOMAIN toCli /\ Fetched(1)
    <2>1. Reply = toCli[1] /\ 1 \in DOMAIN toCli
      BY <1>0, <1>1, FetchedTail
    <2> QED BY <1>1, <2>1 DEF Fetched
  <1>3. state \in {"GETTING_VERSION", "RUNNING"}
    BY <1>0, <1>2 DEF ReadInv, QuietCtrl, NoneFetched, ClientTypeOK
  <1>4. (type = "version" => Head(Reply.data).val = ver) /\ (type = "error:" => "malloc" \in MayFail)
    <2>1. Truly(Reply.data)
      BY <1>2 DEF VersionInv
    <2>2. 1 \in DOMAIN Reply.data /\ Head(Reply.data) = Reply.data[1]
      BY <1>1, TailElements
    <2> QED BY <1>1, <2>1, <2>2 DEF Truly
  <1> QED BY <1>1, <1>2, <1>3, <1>4

LEMMA BadVersionGetting ==
  ASSUME SessTypeOK, ReadInv, VersionInv, OnBadVersion
  PROVE  state = "GETTING_VERSION"
  <1>1. Head(Reply.data).val = ver /\ ~Compatible(Head(Reply.data).val)
    BY MessageFetched DEF OnBadVersion
  <1>2. state \in {"GETTING_VERSION", "RUNNING"}
    BY MessageFetched DEF OnBadVersion
  <1> QED BY <1>1, <1>2 DEF VersionInv

LEMMA MessageReads ==
  ASSUME SessTypeOK, ReadInv, GivenInv, VersionInv, CtrlMessage, UNCHANGED srvVars
  PROVE  ReadInv' /\ GivenInv'
  <1>0. /\ ClientTypeOK /\ toSrv \in Seq(Wired(account)) /\ toCli \in Seq(Replied)
        /\ srvFnum["ctrl"] \in Nat /\ UNCHANGED <<srvOpen, srvFnum, parked>>
        /\ io_read \in [Pipe -> Nat] /\ fd \in [Pipe -> Nat] /\ "ctrl" \in Pipe
        /\ pending \in Seq(Waiting) /\ fd["ctrl"] \in Nat
    BY DEF SessTypeOK, ClientTypeOK, ServerTypeOK, Pipe, srvVars
  <1>1. PICK type : CtrlRead(type)
    BY DEF CtrlMessage, OnStdIoErr, OnReturnCode, OnVersion, OnBadVersion, OnServiceError, OnUnknown
  <1>2. /\ toCli # <<>> /\ toCli' = Tail(toCli) /\ mode = "loop"
        /\ Fetched(1) /\ 1 \in DOMAIN toCli
        /\ state \in {"GETTING_VERSION", "RUNNING"} /\ Rest(Reply) \in Seq(Waiting)
    BY <1>1, MessageFetched
  <1>3. fd' = fd /\ mode' = mode /\ ReadIssued("ctrl", fd["ctrl"])
    BY <1>1 DEF CtrlRead
  <1> DEFINE f == Cached(io_read, "ctrl", fd["ctrl"])
  <1>4. f \in Nat /\ io_read'["ctrl"] = f /\ f <= srvFnum["ctrl"]
    <2>1. f \in Nat /\ io_read'["ctrl"] = f
      BY <1>0, <1>3 DEF ReadIssued, Cached
    <2>2. f \in {fd["ctrl"], io_read["ctrl"]}
      BY DEF Cached
    <2>3. fd["ctrl"] <= srvFnum["ctrl"] /\ io_read["ctrl"] <= srvFnum["ctrl"]
      BY DEF GivenInv
    <2> QED BY <2>1, <2>2, <2>3
  <1>5. state = "GETTING_VERSION" => f = fd["ctrl"]
    <2>1. state = "GETTING_VERSION" => io_read["ctrl"] \in {0, fd["ctrl"]}
      BY DEF GivenInv
    <2> QED BY <2>1 DEF Cached
  <1>6. /\ NextRead \in Wired(account) /\ OnCtrl(NextRead, "read") /\ NextRead.fnum = f
    BY <1>0, OwnRequestType DEF NextRead, async_read, Request, OnCtrl
  <1> HIDE DEF f
  <1>7. state = "GETTING_VERSION" => NoneFetched' /\ "ctrl" \notin parked /\ NoneLive
    <2>1. ASSUME OneFetched PROVE NoneFetched'
      BY <1>0, <1>2, <2>1, FetchedTail
    <2> QED BY <1>2, <2>1 DEF ReadInv, OneRead, NoneFetched
  <1>8. \A i \in DOMAIN toCli' : Given(toCli[i])'
    <2>1. \A i \in DOMAIN toCli' : i + 1 \in DOMAIN toCli /\ toCli'[i] = toCli[i + 1]
      BY <1>0, <1>2, FetchedTail
    <2> QED BY <1>0, <2>1 DEF GivenInv, Given, OnCtrl
  <1>9. ASSUME state' # "OPENING",
               \A i \in DOMAIN toSrv' : OnCtrl(toSrv'[i], "read") => toSrv'[i].fnum <= srvFnum'["ctrl"],
               state' = "GETTING_VERSION" => state = "GETTING_VERSION"
        PROVE  GivenInv'
    <2>1. fd["ctrl"] <= srvFnum["ctrl"]
      BY DEF GivenInv
    <2> QED BY <1>0, <1>2, <1>3, <1>4, <1>5, <1>8, <1>9, <2>1 DEF GivenInv
  \* One read takes the place of the other.
  <1>10. ASSUME NEW rs \in Seq(Wired(account)), Adds(rs), NEW m \in Nat,
                \A j \in DOMAIN rs : OnCtrl(rs[j], "read") => j = m /\ rs[j] = NextRead,
                state' \in {state, "RUNNING"}
         PROVE  ReadInv' /\ GivenInv'
    <2>1. \A i \in DOMAIN toSrv' : OnCtrl(toSrv'[i], "read") => toSrv'[i].fnum <= srvFnum'["ctrl"]
      <3>1. \A j \in DOMAIN rs : OnCtrl(rs[j], "read") => rs[j].fnum <= srvFnum["ctrl"]
        BY <1>4, <1>6, <1>10
      <3> QED BY <1>10, <3>1, AddsGiven
    <2>2. GivenInv'
      BY <1>2, <1>9, <1>10, <2>1
    <2>3. state = "GETTING_VERSION" => OneRead'
      <3>1. ASSUME NoneLive PROVE OneLive'
        <4>1. \A j \in DOMAIN rs : OnCtrl(rs[j], "read") => j = m
          BY <1>10
        <4> QED BY <1>0, <1>10, <3>1, <4>1, AddsOneRead
      <3> QED BY <1>0, <1>7, <3>1 DEF OneRead, NoneFetched, OneFetched
    <2>4. ReadInv'
      BY <1>2, <1>10, <2>3 DEF ReadInv
    <2> QED BY <2>2, <2>4
  \* No other request is a read of the control pipe.
  <1>11. <<NextRead>> \in Seq(Wired(account)) /\ DOMAIN <<NextRead>> = {1} /\ <<NextRead>>[1] = NextRead
    BY <1>6
  <1>12. ASSUME Send(Rest(Reply), <<NextRead>>), state' = state
         PROVE  ReadInv' /\ GivenInv'
    BY <1>10, <1>11, <1>12, SendAdds DEF Send
  <1>13. ASSUME NEW u, CtrlRead(u), state = "GETTING_VERSION", CloseForReinstall
         PROVE  ReadInv' /\ GivenInv'
    <2> DEFINE c == async_close("ctrl")
               rs == <<c, NextRead>>
    <2>1. c \in Wired(account) /\ OnCtrl(c, "close") /\ ~OnCtrl(c, "read") /\ c.fnum = fd["ctrl"]
      BY <1>0, OwnRequestType DEF async_close, Request, OnCtrl
    <2>2. Adds(rs) /\ state' = "CLOSING_FOR_REINSTALL"
      BY <1>13, SendAdds DEF CloseForReinstall, Send
    <2> HIDE DEF c
    <2>3. rs \in Seq(Wired(account)) /\ DOMAIN rs = {1, 2} /\ rs[1] = c /\ rs[2] = NextRead
      BY <1>6, <2>1
    <2> HIDE DEF rs
    <2>4. \A j \in DOMAIN rs : OnCtrl(rs[j], "read") =>
             \E i \in DOMAIN rs : i < j /\ OnCtrl(rs[i], "close") /\ rs[i].fnum = rs[j].fnum
      BY <1>5, <1>6, <1>13, <2>1, <2>3
    <2>5. NoneLive => NoneLive'
      BY <1>0, <2>2, <2>3, <2>4, AddsNoRead
    <2>6. \A i \in DOMAIN toSrv' : OnCtrl(toSrv'[i], "read") => toSrv'[i].fnum <= srvFnum'["ctrl"]
      <3>1. \A j \in DOMAIN rs : OnCtrl(rs[j], "read") => rs[j].fnum <= srvFnum["ctrl"]
        BY <1>4, <1>6, <2>1, <2>3
      <3> QED BY <2>2, <2>3, <3>1, AddsGiven
    <2>7. GivenInv'
      BY <1>9, <2>2, <2>6
    <2> QED BY <1>0, <1>7, <1>13, <2>2, <2>5, <2>7 DEF ReadInv, QuietCtrl
  <1>14. CASE OnStdIoErr
    <2> DEFINE rs == <<async_open("in"), async_open("out"), async_open("err"), NextRead>>
    <2>1. /\ async_open("in") \in Wired(account) /\ ~OnCtrl(async_open("in"), "read")
          /\ async_open("out") \in Wired(account) /\ ~OnCtrl(async_open("out"), "read")
          /\ async_open("err") \in Wired(account) /\ ~OnCtrl(async_open("err"), "read")
      <3>1. "in" \in Pipe /\ "out" \in Pipe /\ "err" \in Pipe
        BY DEF Pipe
      <3>2. \A p \in Pipe : async_open(p) \in Wired(account)
        BY <1>0, OwnRequestType
      <3>3. \A p : ~OnCtrl(async_open(p), "read")
        BY DEF async_open, Request, OnCtrl
      <3> QED BY <3>1, <3>2, <3>3
    <2>2. rs \in Seq(Wired(account))
      BY <1>6, <2>1
    <2>3. \A j \in DOMAIN rs : OnCtrl(rs[j], "read") => j = 4 /\ rs[j] = NextRead
      <3>1. DOMAIN rs = {1, 2, 3, 4}
        OBVIOUS
      <3>2. rs[1] = async_open("in") /\ rs[2] = async_open("out") /\ rs[3] = async_open("err") /\ rs[4] = NextRead
        OBVIOUS
      <3> HIDE DEF rs
      <3> QED BY <2>1, <3>1, <3>2
    <2>4. Adds(rs) /\ state' = state
      BY <1>14, SendAdds DEF OnStdIoErr, Send
    <2> HIDE DEF rs
    <2>5. PICK m \in Nat : \A j \in DOMAIN rs : OnCtrl(rs[j], "read") => j = m /\ rs[j] = NextRead
      BY <2>3
    <2>6. state' \in {state, "RUNNING"}
      BY <2>4
    <2> QED BY <1>10, <2>2, <2>4, <2>5, <2>6
  <1>15. CASE OnReturnCode
    BY <1>12, <1>15 DEF OnReturnCode
  <1>16. CASE OnVersion
    <2> DEFINE w == async_write("ctrl", fd["ctrl"], RunCommand)
               rs == <<w, NextRead>>
    <2>1. w \in Wired(account) /\ ~OnCtrl(w, "read")
      BY <1>0, OwnRequestType DEF async_write, Request, OnCtrl, RunCommand
    <2>2. Adds(rs) /\ state' = "RUNNING"
      BY <1>16, SendAdds DEF OnVersion, Send
    <2> HIDE DEF w
    <2>3. rs \in Seq(Wired(account)) /\ DOMAIN rs = {1, 2} /\ rs[1] = w /\ rs[2] = NextRead
      BY <1>6, <2>1
    <2> HIDE DEF rs
    <2>4. \A j \in DOMAIN rs : OnCtrl(rs[j], "read") => j = 2 /\ rs[j] = NextRead
      BY <2>1, <2>3
    <2> QED BY <1>10, <2>2, <2>3, <2>4
  <1>17. CASE OnBadVersion
    <2>1. state = "GETTING_VERSION" /\ CloseForReinstall /\ CtrlRead("version")
      BY <1>17, BadVersionGetting DEF OnBadVersion
    <2> QED BY <1>13, <2>1
  <1>18. CASE OnServiceError
    <2>1. CASE state = "GETTING_VERSION"
      <3>1. CloseForReinstall /\ CtrlRead("error")
        BY <1>18, <2>1 DEF OnServiceError
      <3> QED BY <1>13, <2>1, <3>1
    <2>2. CASE state # "GETTING_VERSION"
      BY <1>12, <1>18, <2>2 DEF OnServiceError
    <2> QED BY <2>1, <2>2
  <1>19. CASE OnUnknown
    BY <1>12, <1>19 DEF OnUnknown
  <1> QED BY <1>14, <1>15, <1>16, <1>17, <1>18, <1>19 DEF CtrlMessage

\* A step keeps the opens of the control pipe, or takes some away.
Kept(q) == (OneOpen(pending) => OneOpen(q)) /\ (NoOpen(pending) => NoOpen(q))

LEMMA RemovedOpens ==
  ASSUME ClientTypeOK, OpenInv, NEW i \in DOMAIN pending
  PROVE  /\ RemoveAt(pending, i) \in Seq(Waiting) /\ Kept(RemoveAt(pending, i))
         /\ pending[i].pipe \in Pipe
         /\ OnCtrl(pending[i], "open") => NoOpen(RemoveAt(pending, i)) /\ state = "OPENING"
  <1>1. pending \in Seq(Waiting) /\ OneOpen(pending)
    BY DEF ClientTypeOK, OpenInv
  <1>2. RemoveAt(pending, i) \in Seq(Waiting) /\ pending[i] \in Waiting
    BY <1>1, RemoveAtType
  <1>3. NoOpen(pending) => NoOpen(RemoveAt(pending, i))
    BY <1>1, RemoveAtWithin, WithinNoOpen
  <1>4. OneOpen(RemoveAt(pending, i)) /\ (OnCtrl(pending[i], "open") => NoOpen(RemoveAt(pending, i)))
    BY <1>1, RemoveAtOpens
  <1>5. OnCtrl(pending[i], "open") => state = "OPENING"
    BY DEF OpenInv, NoOpen
  <1> QED BY <1>2, <1>3, <1>4, <1>5 DEF Kept, Waiting

LEMMA RestOpens ==
  ASSUME ClientTypeOK, OpenInv, NEW r, Matching(r) # {}
  PROVE  /\ Rest(r) \in Seq(Waiting) /\ Kept(Rest(r))
         /\ OnCtrl(r, "open") => NoOpen(Rest(r)) /\ state = "OPENING"
  <1>1. Matched(r) \in DOMAIN pending /\ Matched(r) \in Matching(r)
    BY MatchedPending DEF ClientTypeOK
  <1>2. OnCtrl(r, "open") => OnCtrl(pending[Matched(r)], "open")
    BY <1>1 DEF Matching, OnCtrl
  <1> QED BY <1>1, <1>2, RemovedOpens DEF Rest

\* Without its last request a sequence is one with a request taken out.
LEMMA FrontRemoved ==
  ASSUME NEW S, NEW q \in Seq(S), q # <<>>
  PROVE  /\ Front(q) = RemoveAt(q, Len(q)) /\ Last(q) = q[Len(q)]
         /\ Len(q) \in DOMAIN q /\ Len(q) \in Nat
  <1>1. Len(q) \in DOMAIN q /\ Len(q) \in Nat
    <2>1. Len(q) \in Nat /\ Len(q) # 0
      BY EmptySeq
    <2> QED BY <2>1
  <1>2. Front(q) = RemoveAt(q, Len(q))
    <2>1. SubSeq(q, Len(q) + 1, Len(q)) = <<>>
      BY <1>1
    <2>2. SubSeq(q, 1, Len(q) - 1) \in Seq(S)
      <3>1. Front(q) \in Seq(S)
        BY FrontElements
      <3> QED BY <3>1 DEF Front
    <2>3. SubSeq(q, 1, Len(q) - 1) \o <<>> = SubSeq(q, 1, Len(q) - 1)
      BY <2>2
    <2> QED BY <2>1, <2>3 DEF Front, RemoveAt
  <1> QED BY <1>1, <1>2 DEF Last

LEMMA LastOpens ==
  ASSUME ClientTypeOK, OpenInv, pending # <<>>
  PROVE  /\ Front(pending) \in Seq(Waiting) /\ Kept(Front(pending))
         /\ Last(pending).pipe \in Pipe
         /\ OnCtrl(Last(pending), "open") => NoOpen(Front(pending)) /\ state = "OPENING"
  <1>1. pending \in Seq(Waiting)
    BY DEF ClientTypeOK
  <1>2. /\ Front(pending) = RemoveAt(pending, Len(pending)) /\ Len(pending) \in DOMAIN pending
        /\ Last(pending) = pending[Len(pending)]
    BY <1>1, FrontRemoved
  <1> QED BY <1>2, RemovedOpens

LEMMA MoreOpens ==
  ASSUME ClientTypeOK, NEW link, NEW rest \in Seq(Waiting), Kept(rest),
         NEW rs \in Seq(Wired(account)), SendOn(link, rest, rs),
         \A j \in DOMAIN rs : ~OnCtrl(rs[j], "open")
  PROVE  Kept(pending')
  <1>1. reqTimeout \in BOOLEAN
    BY DEF ClientTypeOK
  <1> QED BY <1>1, SentOpens DEF Kept

LEMMA OneMoreOpens ==
  ASSUME ClientTypeOK, NEW link, NEW rest \in Seq(Waiting), Kept(rest),
         NEW r \in Wired(account), SendOn(link, rest, <<r>>), ~OnCtrl(r, "open")
  PROVE  Kept(pending')
  <1>1. <<r>> \in Seq(Wired(account)) /\ \A j \in DOMAIN <<r>> : <<r>>[j] = r
    OBVIOUS
  <1> QED BY <1>1, MoreOpens

LEMMA SameOpens ==
  ASSUME OpenInv, Kept(pending'), state' = state, mode' = mode \/ mode' \in {"exiting", "exited", "killed"}
  PROVE  OpenInv'
  BY DEF OpenInv, Kept, OneOpen, NoOpen

LEMMA SamePending ==
  ASSUME pending' = pending
  PROVE  Kept(pending')
  BY DEF Kept

LEMMA FailOpens ==
  ASSUME ClientTypeOK, OpenInv, mode = "loop", NEW link, NEW op, NEW p \in Pipe, NEW status,
         NEW rest \in Seq(Waiting), Kept(rest), Fail(link, op, p, status, rest),
         status = "notfound" => op = "open",
         op = "open" /\ p = "ctrl" => NoOpen(rest) /\ state = "OPENING"
  PROVE  OpenInv'
  <1>1. CASE p = "ctrl"
    <2>1. OnCtrlError(op, status, rest) /\ UNCHANGED state
      BY <1>1 DEF Fail
    <2>2. pending' = rest /\ ((mode' = "install" /\ op = "open") \/ mode' = "exiting" \/ mode' = mode)
      BY <2>1 DEF OnCtrlError, exit_program
    <2>3. Kept(pending')
      BY <2>2
    <2>4. CASE mode' = "install" /\ op = "open"
      <3>1. NoOpen(pending') /\ state' = "OPENING"
        BY <1>1, <2>1, <2>2, <2>4
      <3>2. OneOpen(pending')
        BY <3>1 DEF NoOpen, OneOpen
      <3> QED BY <2>4, <3>1, <3>2 DEF OpenInv, NoOpen, OneOpen
    <2> QED BY <2>1, <2>2, <2>3, <2>4, SameOpens
  <1>2. CASE p # "ctrl"
    <2>1. SendOn(link, Undestroyed(p, rest), <<async_close(p)>>) /\ UNCHANGED <<mode, state>>
      BY <1>2 DEF Fail, OnStdError
    <2>2. async_close(p) \in Wired(account) /\ ~OnCtrl(async_close(p), "open")
      <3>1. fd[p] \in Nat
        BY DEF ClientTypeOK
      <3>2. async_close(p) \in Wired(account)
        BY <3>1, OwnRequestType
      <3> QED BY <3>2 DEF async_close, Request, OnCtrl
    <2>3. Undestroyed(p, rest) \in Seq(Waiting) /\ Kept(Undestroyed(p, rest))
      BY UndestroyedType, UndestroyedOpens DEF Kept
    <2>4. Kept(pending')
      BY <2>1, <2>2, <2>3, OneMoreOpens
    <2> QED BY <2>1, <2>4, SameOpens
  <1> QED BY <1>1, <1>2

LEMMA CloseDoneOpens ==
  ASSUME OpenInv, mode = "loop", NEW p, NEW rest, Kept(rest), CloseDone(p, rest)
  PROVE  OpenInv'
  <1>1. /\ pending' = rest /\ UNCHANGED state
        /\ mode' = IF p = "ctrl" /\ state = "CLOSING_FOR_REINSTALL" THEN "reinstall" ELSE mode
    BY DEF CloseDone
  <1>2. Kept(pending')
    BY <1>1
  <1>3. CASE mode' = mode
    BY <1>1, <1>2, <1>3, SameOpens
  <1>4. CASE mode' = "reinstall" /\ state = "CLOSING_FOR_REINSTALL"
    BY <1>1, <1>2, <1>4 DEF OpenInv, Kept, NoOpen, OneOpen
  <1> QED BY <1>1, <1>3, <1>4

\* The open that installing or reinstalling ends with is the only one.
LEMMA OpenAgain ==
  ASSUME ClientTypeOK, OpenInv, mode \in {"install", "reinstall"},
         Send(pending, <<async_open("ctrl")>>), state' = "OPENING", mode' = "loop"
  PROVE  OpenInv'
  <1>1. /\ pending \in Seq(Waiting) /\ reqTimeout \in BOOLEAN /\ "ctrl" \in Pipe
        /\ NoOpen(pending) /\ fd["ctrl"] \in Nat
    BY DEF ClientTypeOK, OpenInv, Pipe
  <1>2. async_open("ctrl") \in Wired(account)
    BY <1>1, OwnRequestType
  <1>3. <<async_open("ctrl")>> \in Seq(Wired(account)) /\ Len(<<async_open("ctrl")>>) = 1
    BY <1>2
  <1>4. OneOpen(pending')
    BY <1>1, <1>3, SentOpens DEF Send
  <1> QED BY <1>4 DEF OpenInv, NoOpen, OneOpen

LEMMA ClientOpens ==
  ASSUME SessTypeOK, ReadInv, VersionInv, OpenInv, PlainStep \/ CtrlOpened \/ CtrlMessage
  PROVE  OpenInv'
  <1>0. /\ ClientTypeOK /\ pending \in Seq(Waiting) /\ "ctrl" \in Pipe /\ "in" \in Pipe
        /\ "out" \in Pipe /\ "err" \in Pipe /\ fd["ctrl"] \in Nat /\ fd["in"] \in Nat
    BY DEF SessTypeOK, ClientTypeOK, Pipe
  <1>1. CASE DropReply \/ (\E s \in Signals : Signal(s)) \/ Exit
    <2>1. pending' = pending /\ state' = state /\ mode' \in {mode, "killed", "exited"}
      BY <1>1 DEF DropReply, Signal, Exit, stateVars, reqVars
    <2> QED BY <2>1, SamePending, SameOpens
  <1>2. CASE StdOpened \/ OutputRead
    <2>1. PICK op, ok : Receive(op, ok)
      BY <1>2 DEF StdOpened, OutputRead
    <2>2. /\ Reply.pipe \in Pipe /\ Reply.fnum \in Nat /\ fd[Reply.pipe] \in Nat
          /\ Matching(Reply) # {}
      BY <1>0, <2>1, ReceiveType DEF Receive, ClientTypeOK
    <2>3. PICK f \in Nat : Send(Rest(Reply), <<async_read(Reply.pipe, f)>>) /\ UNCHANGED stateVars
      BY <1>2, <2>2 DEF StdOpened, OutputRead
    <2>4. async_read(Reply.pipe, f) \in Wired(account)
      BY <1>0, <2>2, OwnRequestType
    <2>5. ~OnCtrl(async_read(Reply.pipe, f), "open")
      BY DEF async_read, Request, OnCtrl
    <2>6. Kept(pending')
      BY <1>0, <2>2, <2>3, <2>4, <2>5, RestOpens, OneMoreOpens DEF Send
    <2> QED BY <2>3, <2>6, SameOpens DEF stateVars
  <1>3. CASE Written
    <2>1. pending' = Rest(Reply) /\ UNCHANGED <<state, mode>> /\ Matching(Reply) # {}
      BY <1>3 DEF Written, Receive, stateVars
    <2>2. Kept(pending')
      BY <1>0, <2>1, RestOpens
    <2> QED BY <2>1, <2>2, SameOpens
  <1>4. CASE Closed
    <2>1. PICK ok \in BOOLEAN : Receive("close", ok)
      BY <1>4 DEF Closed
    <2>2. Kept(Rest(Reply)) /\ mode = "loop"
      BY <1>0, <2>1, RestOpens DEF Receive, Receiving
    <2> QED BY <1>4, <2>2, CloseDoneOpens DEF Closed
  <1>5. CASE ErrorReply
    <2>1. PICK op \in {"open", "read", "write"} : Receive(op, FALSE)
      BY <1>5 DEF ErrorReply
    <2>2. /\ Reply.pipe \in Pipe /\ mode = "loop" /\ Matching(Reply) # {} /\ Reply \in Replied
      BY <1>0, <2>1, ReceiveType DEF Receive, Receiving
    <2>3. Reply.status = "notfound" => Reply.op = "open"
      BY <2>2 DEF Replied
    <2>4. Rest(Reply) \in Seq(Waiting) /\ Kept(Rest(Reply))
          /\ (Reply.op = "open" /\ Reply.pipe = "ctrl" => NoOpen(Rest(Reply)) /\ state = "OPENING")
      BY <1>0, <2>2, RestOpens DEF OnCtrl
    <2>5. Fail(net, Reply.op, Reply.pipe, Reply.status, Rest(Reply))
      BY <1>5 DEF ErrorReply
    <2> QED BY <1>0, <2>2, <2>3, <2>4, <2>5, FailOpens
  <1>6. CASE RequestTimeout
    <2>1. PICK i \in DOMAIN pending :
             Fail(net, pending[i].op, pending[i].pipe, "timeout", RemoveAt(pending, i))
      BY <1>6 DEF RequestTimeout
    <2>2. /\ RemoveAt(pending, i) \in Seq(Waiting) /\ Kept(RemoveAt(pending, i)) /\ pending[i].pipe \in Pipe
          /\ pending[i].op = "open" /\ pending[i].pipe = "ctrl" =>
                NoOpen(RemoveAt(pending, i)) /\ state = "OPENING"
      BY <1>0, RemovedOpens DEF OnCtrl
    <2>3. mode = "loop"
      BY <1>6 DEF RequestTimeout
    <2> QED BY <1>0, <2>1, <2>2, <2>3, FailOpens
  <1>7. CASE TransportDead
    <2>0. mode = "loop"
      BY <1>7 DEF TransportDead
    <2>1. CASE pending = <<>>
      <3>1. UNCHANGED <<pending, state, mode>>
        BY <1>7, <2>1 DEF TransportDead, stateVars, reqVars
      <3> QED BY <3>1, SamePending, SameOpens
    <2>2. CASE pending # <<>>
      <3>1. /\ Front(pending) \in Seq(Waiting) /\ Kept(Front(pending)) /\ Last(pending).pipe \in Pipe
            /\ Last(pending).op = "open" /\ Last(pending).pipe = "ctrl" =>
                  NoOpen(Front(pending)) /\ state = "OPENING"
        BY <1>0, <2>2, LastOpens DEF OnCtrl
      <3>2. \/ CloseDone(Last(pending).pipe, Front(pending))
            \/ Fail("dead", Last(pending).op, Last(pending).pipe, "network", Front(pending))
        BY <1>7, <2>2 DEF TransportDead
      <3>3. CASE CloseDone(Last(pending).pipe, Front(pending))
        BY <2>0, <3>1, <3>3, CloseDoneOpens
      <3>4. CASE Fail("dead", Last(pending).op, Last(pending).pipe, "network", Front(pending))
        BY <1>0, <2>0, <3>1, <3>4, FailOpens
      <3> QED BY <3>2, <3>3, <3>4
    <2> QED BY <2>1, <2>2
  <1>8. CASE StdinRead
    <2> DEFINE q == async_write("in", fd["in"], Input)
    <2>1. q \in Wired(account) /\ ~OnCtrl(q, "open")
      BY <1>0, OwnRequestType DEF async_write, Request, OnCtrl
    <2>2. SendOn(net, pending, <<q>>) /\ UNCHANGED <<state, mode>>
      BY <1>8 DEF StdinRead, Send, stateVars
    <2> HIDE DEF q
    <2>3. Kept(pending)
      BY DEF Kept
    <2>4. Kept(pending')
      BY <1>0, <2>1, <2>2, <2>3, OneMoreOpens
    <2> QED BY <2>2, <2>4, SameOpens
  <1>9. CASE Timer
    <2> DEFINE q == async_write("ctrl", fd["ctrl"], Abort)
    <2>1. q \in Wired(account) /\ ~OnCtrl(q, "open")
      BY <1>0, OwnRequestType DEF async_write, Request, OnCtrl
    <2>2. SendOn(net, pending, <<q>>) /\ UNCHANGED <<state, mode>>
      BY <1>9 DEF Timer, Send, stateVars
    <2> HIDE DEF q
    <2>3. Kept(pending)
      BY DEF Kept
    <2>4. Kept(pending')
      BY <1>0, <2>1, <2>2, <2>3, OneMoreOpens
    <2> QED BY <2>2, <2>4, SameOpens
  <1>10. ASSUME NEW ok \in BOOLEAN, Installed(ok)
         PROVE  OpenInv'
    <2>1. mode = "install" /\ state' = state /\ state = "OPENING"
      BY <1>10 DEF Installed, OpenInv
    <2>2. CASE ok
      BY <1>0, <1>10, <2>1, <2>2, OpenAgain DEF Installed
    <2>3. CASE ~ok
      <3>1. pending' = pending /\ mode' = "exiting"
        BY <1>10, <2>3 DEF Installed, exit_program, reqVars
      <3> QED BY <2>1, <3>1, SamePending, SameOpens
    <2> QED BY <2>2, <2>3
  <1>11. CASE Reinstalled
    BY <1>0, <1>11, OpenAgain DEF Reinstalled
  <1>12. CASE CtrlOpened
    <2>1. /\ Receive("open", TRUE) /\ Reply.pipe = "ctrl" /\ mode = "loop" /\ Matching(Reply) # {}
          /\ OnCtrl(Reply, "open") /\ Reply.fnum \in Nat
      BY <1>0, <1>12, ReceiveType DEF CtrlOpened, Receive, Receiving, OnCtrl
    <2>2. Rest(Reply) \in Seq(Waiting) /\ Kept(Rest(Reply)) /\ NoOpen(Rest(Reply))
      BY <1>0, <2>1, RestOpens
    <2> DEFINE w == async_write("ctrl", Reply.fnum, GetVersion)
               r == async_read("ctrl", Reply.fnum)
    <2>3. w \in Wired(account) /\ r \in Wired(account)
      BY <1>0, <2>1, OwnRequestType
    <2>4. ~OnCtrl(w, "open") /\ ~OnCtrl(r, "open")
      BY DEF async_write, async_read, Request, OnCtrl
    <2>5. SendOn(net, Rest(Reply), <<w, r>>) /\ mode' = mode /\ state' = "GETTING_VERSION"
      BY <1>12 DEF CtrlOpened, Send
    <2> HIDE DEF w, r
    <2>6. <<w, r>> \in Seq(Wired(account)) /\ \A j \in DOMAIN <<w, r>> : ~OnCtrl(<<w, r>>[j], "open")
      BY <2>3, <2>4
    <2>7. NoOpen(pending')
      <3>1. reqTimeout \in BOOLEAN
        BY <1>0 DEF ClientTypeOK
      <3> QED BY <2>2, <2>5, <2>6, <3>1, SentOpens
    <2> QED BY <2>1, <2>5, <2>7 DEF OpenInv, NoOpen, OneOpen
  <1>13. CASE CtrlMessage
    <2>1. PICK type : CtrlRead(type)
      BY <1>13 DEF CtrlMessage, OnStdIoErr, OnReturnCode, OnVersion, OnBadVersion, OnServiceError, OnUnknown
    <2>2. /\ mode = "loop" /\ state \in {"GETTING_VERSION", "RUNNING"} /\ mode' = mode /\ Matching(Reply) # {}
      BY <2>1, MessageFetched DEF CtrlRead, Receive
    <2>3. Rest(Reply) \in Seq(Waiting) /\ Kept(Rest(Reply)) /\ NoOpen(pending)
      BY <1>0, <2>2, RestOpens DEF OpenInv
    <2>4. ASSUME Kept(pending'), state' # "OPENING"
          PROVE  OpenInv'
      BY <2>2, <2>3, <2>4 DEF OpenInv, Kept, NoOpen, OneOpen
    <2>5. NextRead \in Wired(account) /\ ~OnCtrl(NextRead, "open")
      BY <1>0, OwnRequestType DEF NextRead, async_read, Request, OnCtrl
    <2>6. ASSUME Send(Rest(Reply), <<NextRead>>), state' = state
          PROVE  OpenInv'
      <3>1. Kept(pending')
        BY <1>0, <2>3, <2>5, <2>6, OneMoreOpens DEF Send
      <3> QED BY <2>2, <2>4, <2>6, <3>1
    <2>7. ASSUME CloseForReinstall
          PROVE  OpenInv'
      <3> DEFINE c == async_close("ctrl")
      <3>1. c \in Wired(account) /\ ~OnCtrl(c, "open")
        BY <1>0, OwnRequestType DEF async_close, Request, OnCtrl
      <3>2. SendOn(net, Rest(Reply), <<c, NextRead>>) /\ state' = "CLOSING_FOR_REINSTALL"
        BY <2>7 DEF CloseForReinstall, Send
      <3> HIDE DEF c
      <3>3. <<c, NextRead>> \in Seq(Wired(account))
            /\ \A j \in DOMAIN <<c, NextRead>> : ~OnCtrl(<<c, NextRead>>[j], "open")
        BY <2>5, <3>1
      <3>4. Kept(pending')
        BY <1>0, <2>3, <3>2, <3>3, MoreOpens
      <3> QED BY <2>4, <3>2, <3>4
    <2>8. CASE OnStdIoErr
      <3> DEFINE rs == <<async_open("in"), async_open("out"), async_open("err"), NextRead>>
      <3>1. /\ async_open("in") \in Wired(account) /\ ~OnCtrl(async_open("in"), "open")
            /\ async_open("out") \in Wired(account) /\ ~OnCtrl(async_open("out"), "open")
            /\ async_open("err") \in Wired(account) /\ ~OnCtrl(async_open("err"), "open")
        <4>1. \A p \in Pipe : async_open(p) \in Wired(account)
          BY <1>0, OwnRequestType
        <4>2. \A p : p # "ctrl" => ~OnCtrl(async_open(p), "open")
          BY DEF async_open, Request, OnCtrl
        <4> QED BY <1>0, <4>1, <4>2
      <3>2. rs \in Seq(Wired(account))
        BY <2>5, <3>1
      <3>3. \A j \in DOMAIN rs : ~OnCtrl(rs[j], "open")
        <4>1. DOMAIN rs = {1, 2, 3, 4}
          OBVIOUS
        <4>2. rs[1] = async_open("in") /\ rs[2] = async_open("out") /\ rs[3] = async_open("err") /\ rs[4] = NextRead
          OBVIOUS
        <4> HIDE DEF rs
        <4> QED BY <2>5, <3>1, <4>1, <4>2
      <3>4. SendOn(net, Rest(Reply), rs) /\ state' = state
        BY <2>8 DEF OnStdIoErr, Send
      <3> HIDE DEF rs
      <3>5. Kept(pending')
        BY <1>0, <2>3, <3>2, <3>3, <3>4, MoreOpens
      <3> QED BY <2>2, <2>4, <3>4, <3>5
    <2>9. CASE OnReturnCode
      BY <2>6, <2>9 DEF OnReturnCode
    <2>10. CASE OnVersion
      <3> DEFINE w == async_write("ctrl", fd["ctrl"], RunCommand)
      <3>1. w \in Wired(account) /\ ~OnCtrl(w, "open")
        BY <1>0, OwnRequestType DEF async_write, Request, OnCtrl, RunCommand
      <3>2. SendOn(net, Rest(Reply), <<w, NextRead>>) /\ state' = "RUNNING"
        BY <2>10 DEF OnVersion, Send
      <3> HIDE DEF w
      <3>3. <<w, NextRead>> \in Seq(Wired(account)) /\ \A j \in DOMAIN <<w, NextRead>> : ~OnCtrl(<<w, NextRead>>[j], "open")
        BY <2>5, <3>1
      <3>4. Kept(pending')
        BY <1>0, <2>3, <3>2, <3>3, MoreOpens
      <3> QED BY <2>4, <3>2, <3>4
    <2>11. CASE OnBadVersion
      BY <2>7, <2>11 DEF OnBadVersion
    <2>12. CASE OnServiceError \/ OnUnknown
      BY <2>6, <2>7, <2>12 DEF OnServiceError, OnUnknown
    <2> QED BY <1>13, <2>8, <2>9, <2>10, <2>11, <2>12 DEF CtrlMessage
  <1> QED
    BY <1>1, <1>2, <1>3, <1>4, <1>5, <1>6, <1>7, <1>8, <1>9, <1>10, <1>11, <1>12, <1>13 DEF PlainStep

\* Where the thread goes, and what it says, before and after it starts a
\* process.
Early == {"idle", "hgets", "finish", "unserved", "done"}
Says(s, t) ==
    \/ t = s \/ t = <<>>
    \/ \E m \in Message : /\ m.type = "version" => m.val = ver
                          /\ m.type = "error:" => "malloc" \in MayFail
                          /\ t = Append(s, m)

LEMMA UnaskedTail ==
  ASSUME NEW S, NEW q \in Seq(S), q # <<>>, Unasked(q)
  PROVE  Unasked(Tail(q)) /\ Head(q).verb # "run"
  <1>1. 1 \in DOMAIN q /\ Head(q) = q[1] /\ \A k \in DOMAIN Tail(q) : k + 1 \in DOMAIN q /\ Tail(q)[k] = q[k + 1]
    BY TailElements
  <1> QED BY <1>1 DEF Unasked

LEMMA ThreadEarly ==
  ASSUME PipeTypeOK, Loc \in Early, cont # "flush", Unasked(c2s["ctrl"]), ThreadNext
  PROVE  Loc' \in Early /\ Unasked(c2s'["ctrl"]) /\ pc # "spawn"
  <1> DEFINE q == c2s["ctrl"]
  <1>1. /\ c2s \in [Pipe -> Seq(Line \union {Chunk})] /\ "ctrl" \in Pipe
        /\ q \in Seq(Line \union {Chunk})
        /\ q # <<>> => Unasked(Tail(q)) /\ Head(q).verb # "run"
    <2>1. c2s \in [Pipe -> Seq(Line \union {Chunk})] /\ "ctrl" \in Pipe
      BY DEF PipeTypeOK, Pipe
    <2>2. q \in Seq(Line \union {Chunk})
      BY <2>1
    <2> QED BY <2>1, <2>2, UnaskedTail
  <1>2. Unasked(<<>>)
    BY DEF Unasked
  <1> HIDE DEF Unasked
  <1>3. pc # "spawn"
    BY DEF Loc, Early
  <1>4. CASE HprintfReturn
    BY <1>3, <1>4 DEF HprintfReturn, Goto, pipeVars, Loc, Early
  <1>5. CASE Accept
    BY <1>3, <1>5 DEF Accept, pipeVars, Loc, Early
  <1>6. CASE AcceptFails
    BY <1>1, <1>2, <1>3, <1>6 DEF AcceptFails, Disconnect, Goto, Loc, Early
  <1>7. CASE HgetsFails
    BY <1>1, <1>3, <1>7 DEF HgetsFails, NextLine, ReadFile, Goto, pipeVars, Loc, Early
  <1>8. CASE Unknown
    BY <1>1, <1>3, <1>8 DEF Unknown, NextLine, ReadAndReply, Loc, Early
  <1>9. CASE cmd_get
    BY <1>1, <1>3, <1>9 DEF cmd_get, NextLine, ReadFile, ReadAndReply, Goto, Loc, Early
  <1>10. CASE cmd_set
    BY <1>1, <1>3, <1>10 DEF cmd_set, NextLine, ReadFile, ReadAndReply, Goto, Loc, Early
  <1>11. CASE cmd_run
    BY <1>1, <1>11 DEF cmd_run, NextLine
  <1>12. CASE Finish
    BY <1>1, <1>2, <1>3, <1>12 DEF Finish, ClosePipe, Disconnect, Loc, Early
  <1>13. pc \in Early \union {"flush"}
    BY DEF Loc, Early
  <1>14. CASE AcceptUnserved
    BY <1>3, <1>14 DEF AcceptUnserved, hprintf, WriteFile, Loc, Early
  <1> QED
    BY <1>4, <1>5, <1>6, <1>7, <1>8, <1>9, <1>10, <1>11, <1>12, <1>13, <1>14
    DEF ThreadNext, TokenLogon, TokenOpenProcess, TokenImpersonate, TokenDuplicate, TokenCloseTmp,
        TokenRevert, MakePipes, MakePipe, SendStdIoErr, ConnectPipes, ConnectPipe, Spawn, Watch,
        WaitControl, WaitProcess, FlushOut, FlushErr, SendReturnCode, Release, DisconnectPipe,
        ClosePipe, CloseToken, Early

\* Once past the start of the process a thread does not come back to it.
LEMMA ThreadPasses ==
  ASSUME cont # "flush", ThreadNext
  PROVE  /\ Loc' \in BeforeSpawn => Loc \in BeforeSpawn /\ pc # "spawn"
         /\ pc = "spawn" => Loc \in BeforeSpawn
  <1> USE DEF Loc, BeforeSpawn
  <1>1. CASE HprintfReturn \/ Accept \/ AcceptFails \/ AcceptUnserved
    BY <1>1 DEF HprintfReturn, Accept, AcceptFails, AcceptUnserved, hprintf, Goto
  <1>2. CASE HgetsFails \/ Unknown \/ cmd_get \/ cmd_set \/ cmd_run
    BY <1>2 DEF HgetsFails, Unknown, cmd_get, cmd_set, cmd_run, NextLine
  <1>3. CASE TokenLogon \/ TokenOpenProcess \/ TokenImpersonate \/ TokenDuplicate \/ TokenCloseTmp \/ TokenRevert
    BY <1>3 DEF TokenLogon, TokenOpenProcess, TokenImpersonate, TokenDuplicate, TokenCloseTmp, TokenRevert
  <1>4. CASE MakePipes \/ SendStdIoErr \/ ConnectPipes
    BY <1>4 DEF MakePipes, MakePipe, SendStdIoErr, ConnectPipes, ConnectPipe
  <1>5. CASE Spawn
    BY <1>5 DEF Spawn, Fails, hprintf
  <1>6. CASE Watch \/ WaitControl \/ WaitProcess \/ FlushOut \/ FlushErr \/ SendReturnCode
    BY <1>6 DEF Watch, WaitControl, WaitProcess, FlushOut, FlushErr, SendReturnCode, hprintf, Goto
  <1>7. CASE Release \/ CloseToken \/ Finish
    BY <1>7 DEF Release, DisconnectPipe, ClosePipe, CloseToken, Finish, Goto
  <1> QED BY <1>1, <1>2, <1>3, <1>4, <1>5, <1>6, <1>7 DEF ThreadNext

\* The version in a message of the thread is its own.
LEMMA ThreadSays ==
  ASSUME PipeTypeOK, ThreadTypeOK, ThreadNext
  PROVE  ver' = ver /\ Says(s2c["ctrl"], s2c'["ctrl"])
  <1>1. s2c \in [Pipe -> Seq(Message)] /\ "ctrl" \in Pipe /\ "in" \in Pipe /\ "out" \in Pipe /\ "err" \in Pipe
        /\ ver \in Nat /\ ec \in Nat
    BY ConnectionAssumption DEF PipeTypeOK, ThreadTypeOK, Pipe, ConnectionAssumption
  <1> DEFINE True(m) == /\ m \in Message /\ (m.type = "version" => m.val = ver)
                        /\ m.type = "error:" => "malloc" \in MayFail
  <1>2. True(Error) /\ True(Msg("std_io_err", 0)) /\ True(Msg("return_code", ec)) /\ True(Msg("version", ver))
        /\ ("malloc" \in MayFail => True(NoMemory))
    BY <1>1 DEF Error, NoMemory, Msg, Message
  <1>3. ASSUME s2c'["ctrl"] \in {s2c["ctrl"], <<>>} PROVE Says(s2c["ctrl"], s2c'["ctrl"])
    BY <1>3 DEF Says
  <1>4. ASSUME NEW m, True(m),
               s2c' = IF inst["ctrl"] = "conn" THEN [s2c EXCEPT !["ctrl"] = Append(@, m)] ELSE s2c
        PROVE  Says(s2c["ctrl"], s2c'["ctrl"])
    <2>1. s2c'["ctrl"] = s2c["ctrl"] \/ s2c'["ctrl"] = Append(s2c["ctrl"], m)
      BY <1>1, <1>4
    <2> QED BY <1>4, <2>1 DEF Says
  <1> HIDE DEF True
  <1>5. ASSUME NEW m \in {Error, Msg("std_io_err", 0), Msg("return_code", ec)}, NEW l, hprintf(m, l)
        PROVE  Says(s2c["ctrl"], s2c'["ctrl"])
    BY <1>2, <1>4, <1>5 DEF hprintf, WriteFile
  <1>6. ASSUME NEW call, NEW l, Fails(call, l)
        PROVE  ver' = ver /\ Says(s2c["ctrl"], s2c'["ctrl"])
    BY <1>5, <1>6 DEF Fails, context
  <1>7. \A p \in Pipe : CreateNamedPipe(p) \/ Disconnect(p) => s2c'["ctrl"] \in {s2c["ctrl"], <<>>}
    BY <1>1 DEF CreateNamedPipe, Disconnect
  <1>8. ASSUME NEW m \in {Error, Msg("version", ver)}, NEW l, ReadAndReply(m, l)
        PROVE  Says(s2c["ctrl"], s2c'["ctrl"])
    BY <1>2, <1>4, <1>8 DEF ReadAndReply
  <1>9. \A p : ReadFile(p) => s2c'["ctrl"] = s2c["ctrl"]
    BY DEF ReadFile
  <1>10. UNCHANGED pipeVars => s2c'["ctrl"] = s2c["ctrl"]
    BY DEF pipeVars
  <1>11. CASE HprintfReturn \/ Accept \/ AcceptFails \/ AcceptUnserved
    BY <1>1, <1>2, <1>3, <1>4, <1>7, <1>10, <1>11
    DEF HprintfReturn, Accept, AcceptFails, AcceptUnserved, hprintf, WriteFile, Goto
  <1>12. CASE HgetsFails
    BY <1>3, <1>9, <1>10, <1>12 DEF HgetsFails, Goto
  <1>13. CASE Unknown
    BY <1>8, <1>13 DEF Unknown, context
  <1>14. CASE cmd_get
    BY <1>3, <1>8, <1>9, <1>14 DEF cmd_get, Goto, context
  <1>15. CASE cmd_set
    BY <1>3, <1>8, <1>9, <1>15 DEF cmd_set, Goto, context
  <1>16. CASE cmd_run
    BY <1>3, <1>9, <1>16 DEF cmd_run, Goto
  <1>17. CASE TokenLogon \/ TokenOpenProcess \/ TokenDuplicate \/ TokenCloseTmp \/ TokenRevert
    BY <1>3, <1>6, <1>10, <1>17 DEF TokenLogon, TokenOpenProcess, TokenDuplicate, TokenCloseTmp, TokenRevert
  <1>18. CASE TokenImpersonate
    BY <1>3, <1>5, <1>6, <1>10, <1>18 DEF TokenImpersonate
  <1>19. CASE MakePipes
    BY <1>1, <1>3, <1>6, <1>7, <1>19 DEF MakePipes, MakePipe
  <1>20. CASE SendStdIoErr \/ SendReturnCode
    BY <1>5, <1>20 DEF SendStdIoErr, SendReturnCode, context
  <1>21. CASE ConnectPipes
    BY <1>3, <1>5, <1>6, <1>10, <1>21 DEF ConnectPipes, ConnectPipe, Goto, context
  <1>22. CASE Spawn
    BY <1>3, <1>6, <1>10, <1>22 DEF Spawn
  <1>23. CASE Watch
    BY <1>3, <1>9, <1>10, <1>23 DEF Watch
  <1>24. CASE WaitControl \/ WaitProcess \/ FlushOut \/ FlushErr \/ CloseToken
    BY <1>3, <1>10, <1>24 DEF WaitControl, WaitProcess, FlushOut, FlushErr, CloseToken, Goto
  <1>25. CASE Release \/ Finish
    BY <1>1, <1>3, <1>7, <1>25 DEF Release, DisconnectPipe, ClosePipe, Finish, Goto
  <1> QED
    BY <1>11, <1>12, <1>13, <1>14, <1>15, <1>16, <1>17, <1>18, <1>19, <1>20, <1>21, <1>22, <1>23,
       <1>24, <1>25 DEF ThreadNext

LEMMA SaysTruly ==
  ASSUME NEW s \in Seq(Message), NEW t, Truly(s), Says(s, t), ver' = ver
  PROVE  \A k \in DOMAIN t : /\ t[k].type = "version" => t[k].val = ver'
                             /\ t[k].type = "error:" => "malloc" \in MayFail
  <1>1. ASSUME NEW m \in Message, m.type = "version" => m.val = ver, m.type = "error:" => "malloc" \in MayFail,
               t = Append(s, m), NEW k \in DOMAIN t
        PROVE  (t[k].type = "version" => t[k].val = ver) /\ (t[k].type = "error:" => "malloc" \in MayFail)
    <2>1. (k \in DOMAIN s /\ t[k] = s[k]) \/ t[k] = m
      BY <1>1
    <2> QED BY <1>1, <2>1 DEF Truly
  <1>2. t = <<>> => \A k \in DOMAIN t : FALSE
    OBVIOUS
  <1> QED BY <1>1, <1>2 DEF Says, Truly

\* What a step of the server leaves on the wire and in the control pipe.
LEMMA ServerSays ==
  ASSUME SessTypeOK, ServerNext, NEW i \in DOMAIN toCli', Fetched(i)'
  PROVE  (\E j \in DOMAIN toCli : toCli'[i] = toCli[j]) \/ toCli'[i].data = s2c["ctrl"]
  <1>0. ClientTypeOK /\ ServerTypeOK /\ toCli \in Seq(Replied) /\ parked \subseteq Pipe
        /\ srvFnum \in [Pipe -> Nat]
    BY DEF SessTypeOK, ClientTypeOK, ServerTypeOK
  <1>1. CASE toCli' = toCli
    BY <1>1
  <1>2. ASSUME NEW rs \in Seq(Replied), Answers(rs),
               \A j \in DOMAIN rs : OnCtrl(rs[j], "read") /\ rs[j].status = "ok" => rs[j].data = s2c["ctrl"]
        PROVE  (\E j \in DOMAIN toCli : toCli'[i] = toCli[j]) \/ toCli'[i].data = s2c["ctrl"]
    <2>1. \/ i \in DOMAIN toCli /\ toCli'[i] = toCli[i]
          \/ i - Len(toCli) \in DOMAIN rs /\ toCli'[i] = rs[i - Len(toCli)]
      BY <1>0, <1>2, FetchedMore
    <2>2. CASE i - Len(toCli) \in DOMAIN rs /\ toCli'[i] = rs[i - Len(toCli)]
      <3>1. OnCtrl(toCli'[i], "read") /\ toCli'[i].status = "ok"
        BY DEF Fetched, OnCtrl
      <3> QED BY <1>2, <2>2, <3>1
    <2> QED BY <2>1, <2>2
  <1>3. ASSUME NEW r \in Replied, Answers(<<r>>),
               OnCtrl(r, "read") /\ r.status = "ok" => r.data = s2c["ctrl"]
        PROVE  (\E j \in DOMAIN toCli : toCli'[i] = toCli[j]) \/ toCli'[i].data = s2c["ctrl"]
    <2>1. <<r>> \in Seq(Replied) /\ \A j \in DOMAIN <<r>> : <<r>>[j] = r
      OBVIOUS
    <2> QED BY <1>2, <1>3, <2>1
  <1>4. ASSUME toSrv # <<>>, NEW op \in ReqOp, NEW status \in {"ok", "notfound", "invalid", "broken"},
               Query.op = op, Result(status, <<>>), op = "read" => status # "ok", status = "notfound" => op = "open"
        PROVE  (\E j \in DOMAIN toCli : toCli'[i] = toCli[j]) \/ toCli'[i].data = s2c["ctrl"]
    <2> DEFINE r == Answer(Query.op, Query.pipe, Query.fnum, status, <<>>)
    <2>1. Query.pipe \in Pipe /\ Query.fnum \in Nat
      BY <1>0, <1>4, QueryType
    <2>2. r \in Replied /\ r.op = op /\ r.status = status
      BY <1>4, <2>1 DEF Answer, Replied
    <2>3. Answers(<<r>>)
      BY <1>4 DEF Result
    <2> HIDE DEF r
    <2> QED BY <1>3, <1>4, <2>2, <2>3 DEF OnCtrl
  <1>5. CASE ServeOpen
    <2>1. toSrv # <<>> /\ Query.op = "open" /\ "open" \in ReqOp
      BY <1>5 DEF ServeOpen, Serve, ReqOp
    <2>2. CASE Refuse("notfound")
      BY <1>4, <2>1, <2>2 DEF Refuse
    <2>3. CASE Answers(<<Answer("open", Query.pipe, srvFnum[Query.pipe] + 1, "ok", <<>>)>>)
      <3> DEFINE r == Answer("open", Query.pipe, srvFnum[Query.pipe] + 1, "ok", <<>>)
      <3>1. r \in Replied /\ r.op = "open"
        <4>1. Query.pipe \in Pipe
          BY <1>0, <2>1, QueryType
        <4>2. srvFnum[Query.pipe] + 1 \in Nat
          BY <1>0, <4>1
        <4> QED BY <2>1, <4>1, <4>2, AnswerType DEF Answer
      <3>2. Answers(<<r>>)
        BY <2>3
      <3> HIDE DEF r
      <3> QED BY <1>3, <3>1, <3>2 DEF OnCtrl
    <2> QED BY <1>5, <2>2, <2>3 DEF ServeOpen
  <1>6. CASE ServeWrite
    <2>1. toSrv # <<>> /\ Query.op = "write" /\ "write" \in ReqOp
      BY <1>6 DEF ServeWrite, Serve, ReqOp
    <2>2. \E status \in {"ok", "broken", "invalid"} : Result(status, <<>>)
      BY <1>6 DEF ServeWrite, Refuse
    <2> QED BY <1>4, <2>1, <2>2
  <1>7. CASE ServeRead
    <2>1. toSrv # <<>> /\ Query.op = "read" /\ "read" \in ReqOp
      BY <1>7 DEF ServeRead, Serve, ReqOp
    <2>2. toCli' = toCli \/ Result("invalid", <<>>)
      BY <1>7 DEF ServeRead, Refuse
    <2> QED BY <1>1, <1>4, <2>1, <2>2
  <1>8. CASE AnswerRead
    <2>1. PICK p \in parked :
             \/ ClientRead(p) /\ Answers(<<Answer("read", p, srvFnum[p], "ok", s2c[p])>>)
             \/ Answers(<<Answer("read", p, srvFnum[p], "broken", <<>>)>>)
      BY <1>8 DEF AnswerRead
    <2>2. p \in Pipe /\ srvFnum[p] \in Nat /\ "read" \in ReqOp
      BY <1>0 DEF ReqOp
    <2>3. CASE Answers(<<Answer("read", p, srvFnum[p], "broken", <<>>)>>)
      <3> DEFINE r == Answer("read", p, srvFnum[p], "broken", <<>>)
      <3>1. r \in Replied /\ r.status # "ok" /\ Answers(<<r>>)
        BY <2>2, <2>3, AnswerType DEF Answer
      <3> HIDE DEF r
      <3> QED BY <1>3, <3>1
    <2>4. CASE ClientRead(p) /\ Answers(<<Answer("read", p, srvFnum[p], "ok", s2c[p])>>)
      <3> DEFINE r == Answer("read", p, srvFnum[p], "ok", s2c[p])
      <3>1. s2c[p] \in Seq(Message) /\ s2c[p] # <<>>
        BY <2>2, <2>4 DEF SessTypeOK, ConnTypeOK, PipeTypeOK, ClientRead
      <3>2. r \in Replied /\ r.pipe = p /\ r.data = s2c[p] /\ Answers(<<r>>)
        BY <2>2, <2>4, <3>1, AnswerType DEF Answer
      <3> HIDE DEF r
      <3> QED BY <1>3, <3>2 DEF OnCtrl
    <2> QED BY <2>1, <2>3, <2>4
  <1>9. CASE ServeClose
    <2>1. toSrv # <<>> /\ Query.op = "close" /\ "close" \in ReqOp
      BY <1>9 DEF ServeClose, Serve, ReqOp
    <2>2. CASE Refuse("invalid")
      BY <1>4, <2>1, <2>2 DEF Refuse
    <2> DEFINE cancelled == Answer("read", Query.pipe, Query.fnum, "cancelled", <<>>)
               closed == Answer("close", Query.pipe, Query.fnum, "ok", <<>>)
               b == Query.pipe \in parked
               rs == (IF b THEN <<cancelled>> ELSE <<>>) \o <<closed>>
    <2>3. CASE Answers(rs)
      <3>1. /\ cancelled \in Replied /\ closed \in Replied
            /\ cancelled.status # "ok" /\ closed.op = "close"
        <4>1. Query.pipe \in Pipe /\ Query.fnum \in Nat
          BY <1>0, <2>1, QueryType
        <4> QED BY <4>1, AnswerType DEF ReqOp, Answer
      <3>2. Answers(rs) /\ b \in BOOLEAN
        BY <2>3
      <3> HIDE DEF cancelled, closed, b
      <3>4. rs \in Seq(Replied) /\ \A k \in DOMAIN rs : rs[k] \in {cancelled, closed}
        BY <3>1, <3>2, CloseAnswers
      <3> HIDE DEF rs
      <3> QED BY <1>2, <3>1, <3>2, <3>4 DEF OnCtrl
    <2> QED BY <1>9, <2>2, <2>3 DEF ServeClose
  <1>10. CASE Hangup
    BY <1>1, <1>10 DEF Hangup
  <1> QED BY <1>5, <1>6, <1>7, <1>8, <1>9, <1>10 DEF ServerNext

LEMMA ServerWrites ==
  ASSUME SessTypeOK, ServerNext
  PROVE  /\ s2c'["ctrl"] \in {s2c["ctrl"], <<>>}
         /\ \/ c2s'["ctrl"] = c2s["ctrl"]
            \/ toSrv # <<>> /\ OnCtrl(Query, "write") /\ c2s'["ctrl"] = c2s["ctrl"] \o Query.items
         /\ toSrv' = toSrv \/ (toSrv # <<>> /\ toSrv' = Tail(toSrv))
  <1>0. /\ s2c \in [Pipe -> Seq(Message)] /\ c2s \in [Pipe -> Seq(Line \union {Chunk})] /\ "ctrl" \in Pipe
        /\ parked \subseteq Pipe /\ (toSrv # <<>> => Query.pipe \in Pipe)
    BY QueryType DEF SessTypeOK, ConnTypeOK, PipeTypeOK, ServerTypeOK, Pipe
  <1>1. \A p \in Pipe : ClientOpen(p) \/ ClientRead(p) \/ ClientClose(p) \/ UNCHANGED pipeVars =>
           s2c'["ctrl"] \in {s2c["ctrl"], <<>>} /\ c2s'["ctrl"] = c2s["ctrl"]
    BY <1>0 DEF ClientOpen, ClientRead, ClientClose, pipeVars
  <1>2. CASE ServeOpen
    BY <1>0, <1>1, <1>2 DEF ServeOpen, Serve, Refuse
  <1>3. CASE ServeRead
    BY <1>0, <1>1, <1>3 DEF ServeRead, Serve, Refuse
  <1>4. CASE AnswerRead
    BY <1>0, <1>1, <1>4 DEF AnswerRead
  <1>5. CASE ServeClose
    BY <1>0, <1>1, <1>5 DEF ServeClose, Serve, Refuse
  <1>6. CASE ServeWrite
    <2>1. toSrv # <<>> /\ toSrv' = Tail(toSrv) /\ Query.op = "write"
      BY <1>6 DEF ServeWrite, Serve
    <2>2. CASE UNCHANGED pipeVars
      BY <1>0, <1>1, <2>1, <2>2
    <2>3. CASE ClientWrite(Query.pipe, Query.items)
      BY <1>0, <2>1, <2>3 DEF ClientWrite, OnCtrl
    <2> QED BY <1>6, <2>2, <2>3 DEF ServeWrite, Refuse
  <1>7. CASE Hangup
    <2>1. toSrv' = toSrv /\ ClientVanish(srvOpen)
      BY <1>7 DEF Hangup
    <2> QED BY <1>0, <2>1 DEF ClientVanish
  <1> QED BY <1>2, <1>3, <1>4, <1>5, <1>6, <1>7 DEF ServerNext

\* What keeps VersionInv and LaunchInv.
LEMMA VersionKept ==
  ASSUME SessTypeOK, VersionInv, ver' = ver, Says(s2c["ctrl"], s2c'["ctrl"]),
         \A i \in DOMAIN toCli' : Fetched(i)' =>
            (\E j \in DOMAIN toCli : toCli'[i] = toCli[j]) \/ toCli'[i].data = s2c["ctrl"],
         state' = "RUNNING" => state = "RUNNING" \/ Compatible(ver)
  PROVE  VersionInv'
  <1>1. Truly(s2c["ctrl"])'
    <2>1. s2c["ctrl"] \in Seq(Message) /\ Truly(s2c["ctrl"])
      BY DEF SessTypeOK, ConnTypeOK, PipeTypeOK, Pipe, VersionInv
    <2>2. \A k \in DOMAIN s2c'["ctrl"] :
             /\ s2c'["ctrl"][k].type = "version" => s2c'["ctrl"][k].val = ver'
             /\ s2c'["ctrl"][k].type = "error:" => "malloc" \in MayFail
      BY <2>1, SaysTruly
    <2> QED BY <2>2 DEF Truly
  <1>2. ASSUME NEW i \in DOMAIN toCli', Fetched(i)'
        PROVE  Truly(toCli[i].data)'
    <2>1. CASE toCli'[i].data = s2c["ctrl"]
      BY <2>1 DEF VersionInv, Truly
    <2>2. ASSUME NEW j \in DOMAIN toCli, toCli'[i] = toCli[j]
          PROVE  Truly(toCli[i].data)'
      <3>1. Fetched(j)
        BY <1>2, <2>2 DEF Fetched, OnCtrl
      <3>2. Truly(toCli[j].data)
        BY <3>1 DEF VersionInv
      <3> QED BY <2>2, <3>2 DEF Truly
    <2> QED BY <1>2, <2>1, <2>2
  <1>3. state' = "RUNNING" => Compatible(ver')
    BY DEF VersionInv
  <1> QED BY <1>1, <1>2, <1>3 DEF VersionInv, Compatible

\* No more was written that starts the command.
PlainWrites ==
    \E rs \in Seq(Wired(account)) :
        Adds(rs) /\ \A j \in DOMAIN rs : OnCtrl(rs[j], "write") => Unasked(rs[j].items)
NoRun(q) == \A i \in DOMAIN q : OnCtrl(q[i], "write") => Unasked(q[i].items)

LEMMA LaunchKept ==
  ASSUME LaunchInv, UNCHANGED <<pc, cont, launches>>, state = "RUNNING" => state' = "RUNNING",
         state' # "RUNNING" => Unasked(c2s'["ctrl"]) /\ NoRun(toSrv')
  PROVE  LaunchInv'
  BY DEF LaunchInv, NoRun, Unasked, Loc, OnCtrl

LEMMA UnaskedMore ==
  ASSUME NEW S, NEW s \in Seq(S), NEW t \in Seq(S), Unasked(s), Unasked(t)
  PROVE  Unasked(s \o t)
  <1> SUFFICES ASSUME NEW k \in DOMAIN (s \o t) PROVE (s \o t)[k].verb # "run"
    BY DEF Unasked
  <1>1. \/ k \in DOMAIN s /\ (s \o t)[k] = s[k]
        \/ k - Len(s) \in DOMAIN t /\ (s \o t)[k] = t[k - Len(s)]
    BY ConcatSplit
  <1> QED BY <1>1 DEF Unasked

LEMMA PlainNoRun ==
  ASSUME ClientTypeOK, PlainWrites, NoRun(toSrv)
  PROVE  NoRun(toSrv')
  <1>1. toSrv \in Seq(Wired(account))
    BY DEF ClientTypeOK
  <1>2. PICK rs \in Seq(Wired(account)) :
           Adds(rs) /\ \A j \in DOMAIN rs : OnCtrl(rs[j], "write") => Unasked(rs[j].items)
    BY DEF PlainWrites
  <1>3. ASSUME NEW i \in DOMAIN toSrv', OnCtrl(toSrv'[i], "write")
        PROVE  Unasked(toSrv'[i].items)
    <2>1. \/ i \in DOMAIN toSrv /\ toSrv'[i] = toSrv[i]
          \/ \E j \in DOMAIN rs : toSrv'[i] = rs[j]
      BY <1>1, <1>2, AddsElements
    <2> QED BY <1>2, <1>3, <2>1 DEF NoRun
  <1> QED BY <1>3 DEF NoRun

LEMMA ServerOnce ==
  ASSUME SessTypeOK, VersionInv, LaunchInv, ServerNext
  PROVE  VersionInv' /\ LaunchInv'
  <1>1. UNCHANGED <<pc, cont, ver, state, launches>>
    BY DEF ServerNext, threadVars, stateVars, histVars
  <1>2. VersionInv'
    <2>1. Says(s2c["ctrl"], s2c'["ctrl"])
      BY ServerWrites DEF Says
    <2>2. \A i \in DOMAIN toCli' : Fetched(i)' =>
             (\E j \in DOMAIN toCli : toCli'[i] = toCli[j]) \/ toCli'[i].data = s2c["ctrl"]
      BY ServerSays
    <2> QED BY <1>1, <2>1, <2>2, VersionKept
  <1>3. ASSUME state # "RUNNING"
        PROVE  Unasked(c2s'["ctrl"]) /\ NoRun(toSrv')
    <2>0. /\ toSrv \in Seq(Wired(account)) /\ c2s["ctrl"] \in Seq(Line \union {Chunk})
          /\ Unasked(c2s["ctrl"]) /\ NoRun(toSrv)
      BY <1>3 DEF SessTypeOK, ClientTypeOK, ConnTypeOK, PipeTypeOK, Pipe, LaunchInv, NoRun
    <2>1. NoRun(toSrv')
      <3>1. CASE toSrv # <<>> /\ toSrv' = Tail(toSrv)
        <4>1. \A i \in DOMAIN toSrv' : i + 1 \in DOMAIN toSrv /\ toSrv'[i] = toSrv[i + 1]
          BY <2>0, <3>1, TailElements
        <4> QED BY <2>0, <4>1 DEF NoRun
      <3>2. CASE toSrv' = toSrv
        BY <2>0, <3>2
      <3> QED BY <3>1, <3>2, ServerWrites
    <2>2. Unasked(c2s'["ctrl"])
      <3>1. CASE c2s'["ctrl"] = c2s["ctrl"]
        BY <2>0, <3>1
      <3>2. CASE toSrv # <<>> /\ OnCtrl(Query, "write") /\ c2s'["ctrl"] = c2s["ctrl"] \o Query.items
        <4>1. Query = toSrv[1] /\ 1 \in DOMAIN toSrv
          BY <2>0, <3>2, TailElements DEF Query
        <4>2. Unasked(Query.items)
          BY <2>0, <3>2, <4>1 DEF NoRun
        <4>3. Query \in Wired(account) /\ account \in Asked
          BY <3>2, QueryType DEF SessTypeOK, ClientTypeOK
        <4>4. Query.items \in {GetVersion, Abort, RunCommandOf(account)}
          BY <3>2, <4>3 DEF Wired, OnCtrl
        <4>5. Query.items \in Seq(Line)
          BY <4>3, <4>4, SessionAssumption, ConnectionAssumption DEF SessionAssumption, ConnectionAssumption
        <4>6. Query.items \in Seq(Line \union {Chunk})
          BY <4>5
        <4> QED BY <2>0, <3>2, <4>2, <4>6, UnaskedMore
      <3> QED BY <3>1, <3>2, ServerWrites
    <2> QED BY <2>1, <2>2
  <1>4. LaunchInv'
    BY <1>1, <1>3, LaunchKept
  <1> QED BY <1>2, <1>4

\* A command under way is not given up for another service, and no client runs
\* its command before it has met its own version.
LEMMA ClientPlace ==
  ASSUME SessTypeOK, ReadInv, VersionInv, OpenInv, PlainStep \/ CtrlOpened \/ CtrlMessage
  PROVE  /\ state = "RUNNING" => state' = "RUNNING"
         /\ state' = "RUNNING" => state = "RUNNING" \/ Compatible(ver)
         /\ state' # "RUNNING" => PlainWrites
         /\ Taken
  <1>0. /\ ClientTypeOK /\ "ctrl" \in Pipe /\ fd["ctrl"] \in Nat
    BY DEF SessTypeOK, ClientTypeOK, Pipe
  <1>1. Unasked(Abort) /\ Unasked(GetVersion)
    BY DEF Unasked, Abort, GetVersion, CommandLine
  <1>2. CASE PlainStep
    <2>1. Plain /\ Taken /\ SamePlace
      BY <1>0, <1>2, PlainSteps
    <2>2. PlainWrites
      BY <1>1, <2>1 DEF Plain, PlainWrites
    <2> QED BY <2>1, <2>2 DEF SamePlace, OpenInv
  <1>3. CASE CtrlOpened
    <2>1. /\ toCli # <<>> /\ toCli' = Tail(toCli) /\ Matching(Reply) # {} /\ OnCtrl(Reply, "open")
          /\ Reply.fnum \in Nat
      BY <1>0, <1>3, ReceiveType DEF CtrlOpened, Receive, OnCtrl
    <2>2. state = "OPENING"
      BY <1>0, <2>1, RestOpens
    <2> DEFINE w == async_write("ctrl", Reply.fnum, GetVersion)
               r == async_read("ctrl", Reply.fnum)
    <2>3. /\ w \in Wired(account) /\ r \in Wired(account)
          /\ w.items = GetVersion /\ ~OnCtrl(r, "write")
      BY <1>0, <2>1, OwnRequestType DEF async_write, async_read, Request, OnCtrl
    <2>4. Adds(<<w, r>>) /\ state' = "GETTING_VERSION"
      BY <1>3, SendAdds DEF CtrlOpened, Send
    <2> HIDE DEF w, r
    <2>5. <<w, r>> \in Seq(Wired(account)) /\ DOMAIN <<w, r>> = {1, 2} /\ <<w, r>>[1] = w /\ <<w, r>>[2] = r
      BY <2>3
    <2>6. \A j \in DOMAIN <<w, r>> : OnCtrl(<<w, r>>[j], "write") => Unasked(<<w, r>>[j].items)
      BY <1>1, <2>3, <2>5
    <2>7. PlainWrites
      BY <2>4, <2>5, <2>6 DEF PlainWrites
    <2> QED BY <2>1, <2>2, <2>4, <2>7 DEF Taken
  <1>4. CASE CtrlMessage
    <2>1. PICK type : CtrlRead(type)
      BY <1>4 DEF CtrlMessage, OnStdIoErr, OnReturnCode, OnVersion, OnBadVersion, OnServiceError, OnUnknown
    <2>2. toCli # <<>> /\ toCli' = Tail(toCli) /\ Taken
      BY <2>1, MessageFetched DEF Taken
    <2>3. NextRead \in Wired(account) /\ ~OnCtrl(NextRead, "write")
      BY <1>0, OwnRequestType DEF NextRead, async_read, Request, OnCtrl
    <2>4. ASSUME NEW rs \in Seq(Wired(account)), Adds(rs), \A j \in DOMAIN rs : ~OnCtrl(rs[j], "write")
          PROVE  PlainWrites
      BY <2>4 DEF PlainWrites
    <2>5. ASSUME Send(Rest(Reply), <<NextRead>>)
          PROVE  PlainWrites
      <3>1. <<NextRead>> \in Seq(Wired(account)) /\ \A j \in DOMAIN <<NextRead>> : <<NextRead>>[j] = NextRead
        BY <2>3
      <3>2. Adds(<<NextRead>>)
        BY <2>5, SendAdds DEF Send
      <3> QED BY <2>3, <2>4, <3>1, <3>2
    <2>6. ASSUME CloseForReinstall
          PROVE  PlainWrites /\ state' = "CLOSING_FOR_REINSTALL"
      <3> DEFINE c == async_close("ctrl")
      <3>1. c \in Wired(account) /\ ~OnCtrl(c, "write")
        BY <1>0, OwnRequestType DEF async_close, Request, OnCtrl
      <3>2. Adds(<<c, NextRead>>) /\ state' = "CLOSING_FOR_REINSTALL"
        BY <2>6, SendAdds DEF CloseForReinstall, Send
      <3> HIDE DEF c
      <3>3. <<c, NextRead>> \in Seq(Wired(account))
            /\ \A j \in DOMAIN <<c, NextRead>> : ~OnCtrl(<<c, NextRead>>[j], "write")
        BY <2>3, <3>1
      <3> QED BY <2>4, <3>2, <3>3
    <2>7. CASE OnStdIoErr
      <3> DEFINE rs == <<async_open("in"), async_open("out"), async_open("err"), NextRead>>
      <3>1. /\ async_open("in") \in Wired(account) /\ async_open("out") \in Wired(account)
            /\ async_open("err") \in Wired(account)
        <4>1. "in" \in Pipe /\ "out" \in Pipe /\ "err" \in Pipe
          BY DEF Pipe
        <4> QED BY <1>0, <4>1, OwnRequestType
      <3>2. \A p : ~OnCtrl(async_open(p), "write")
        BY DEF async_open, Request, OnCtrl
      <3>3. rs \in Seq(Wired(account))
        BY <2>3, <3>1
      <3>4. \A j \in DOMAIN rs : ~OnCtrl(rs[j], "write")
        <4>1. DOMAIN rs = {1, 2, 3, 4}
          OBVIOUS
        <4>2. rs[1] = async_open("in") /\ rs[2] = async_open("out") /\ rs[3] = async_open("err") /\ rs[4] = NextRead
          OBVIOUS
        <4> HIDE DEF rs
        <4> QED BY <2>3, <3>2, <4>1, <4>2
      <3>5. Adds(rs) /\ state' = state
        BY <2>7, SendAdds DEF OnStdIoErr, Send
      <3> HIDE DEF rs
      <3> QED BY <2>2, <2>4, <3>3, <3>4, <3>5
    <2>8. CASE OnReturnCode
      BY <2>2, <2>5, <2>8 DEF OnReturnCode
    <2>9. CASE OnVersion
      <3>1. Compatible(ver) /\ state' = "RUNNING"
        BY <2>9, MessageFetched DEF OnVersion
      <3> QED BY <2>2, <3>1
    <2>10. CASE OnBadVersion
      <3>1. state = "GETTING_VERSION" /\ CloseForReinstall
        BY <2>10, BadVersionGetting DEF OnBadVersion
      <3> QED BY <2>2, <2>6, <3>1
    <2>11. CASE OnServiceError \/ OnUnknown
      BY <2>2, <2>5, <2>6, <2>11 DEF OnServiceError, OnUnknown
    <2> QED BY <1>4, <2>7, <2>8, <2>9, <2>10, <2>11 DEF CtrlMessage
  <1> QED BY <1>2, <1>3, <1>4

LEMMA ClientOnce ==
  ASSUME SessTypeOK, ReadInv, VersionInv, OpenInv, LaunchInv, PlainStep \/ CtrlOpened \/ CtrlMessage,
         UNCHANGED <<connVars, launches>>
  PROVE  VersionInv' /\ LaunchInv'
  <1>1. /\ UNCHANGED <<pc, cont, ver, c2s, s2c, launches>> /\ toCli \in Seq(Replied) /\ ClientTypeOK
    BY DEF connVars, pipeVars, threadVars, SessTypeOK, ClientTypeOK
  <1>2. \A i \in DOMAIN toCli' : \E j \in DOMAIN toCli : toCli'[i] = toCli[j]
    <2>1. CASE toCli # <<>> /\ toCli' = Tail(toCli)
      BY <1>1, <2>1, FetchedTail
    <2> QED BY <2>1, ClientPlace DEF Taken
  <1>3. VersionInv'
    <2>1. Says(s2c["ctrl"], s2c'["ctrl"])
      BY <1>1 DEF Says
    <2> QED BY <1>1, <1>2, <2>1, ClientPlace, VersionKept
  <1>4. state = "RUNNING" => state' = "RUNNING"
    BY ClientPlace
  <1>5. ASSUME state' # "RUNNING"
        PROVE  Unasked(c2s'["ctrl"]) /\ NoRun(toSrv')
    <2>1. PlainWrites
      BY <1>5, ClientPlace
    <2>2. Unasked(c2s["ctrl"]) /\ NoRun(toSrv)
      BY <1>4, <1>5 DEF LaunchInv, NoRun
    <2> QED BY <1>1, <2>1, <2>2, PlainNoRun
  <1>6. LaunchInv'
    BY <1>1, <1>4, <1>5, LaunchKept
  <1> QED BY <1>3, <1>6

LEMMA SameOnce ==
  ASSUME ReadInv, GivenInv, OpenInv, UNCHANGED <<srvVars, stateVars, ioVars, reqVars, toCli>>
  PROVE  ReadInv' /\ GivenInv' /\ OpenInv'
  <1>1. UNCHANGED <<srvOpen, srvFnum, parked, state, mode, fd, io_read, pending, toSrv, toCli>>
    BY DEF srvVars, stateVars, ioVars, reqVars
  <1>2. ReadInv'
    BY <1>1 DEF ReadInv, QuietCtrl, OneRead, NoneFetched, OneFetched, Fetched, NoneLive, OneLive, Live
  <1>3. GivenInv'
    BY <1>1 DEF GivenInv, Given
  <1>4. OpenInv'
    BY <1>1 DEF OpenInv
  <1> QED BY <1>2, <1>3, <1>4

\* A step of the service, or of the process it runs.
LEMMA RemoteOnce ==
  ASSUME SessTypeOK, ServiceInv, OnceInv,
         ThreadStep \/ ProcWriteStep \/ ProcReadStep \/ ProcExitStep \/ ServerLoopReady
  PROVE  OnceInv'
  <1>0. /\ ReadInv /\ GivenInv /\ OpenInv /\ VersionInv /\ LaunchInv
        /\ UNCHANGED <<clientVars, srvVars>> /\ PipeTypeOK /\ ThreadTypeOK /\ cont # "flush"
    BY DEF OnceInv, ThreadStep, ProcWriteStep, ProcReadStep, ProcExitStep, ServerLoopReady,
           SessTypeOK, ConnTypeOK, ServiceInv, ConnInv
  <1>1. UNCHANGED <<state, toSrv, toCli>> /\ UNCHANGED <<srvVars, stateVars, ioVars, reqVars, toCli>>
    BY <1>0 DEF clientVars, stateVars, reqVars
  <1>2. ReadInv' /\ GivenInv' /\ OpenInv'
    BY <1>0, <1>1, SameOnce
  <1>3. ASSUME ver' = ver, Says(s2c["ctrl"], s2c'["ctrl"])
        PROVE  VersionInv'
    <2>1. \A i \in DOMAIN toCli' : \E j \in DOMAIN toCli : toCli'[i] = toCli[j]
      BY <1>1
    <2> QED BY <1>0, <1>1, <1>3, <2>1, VersionKept
  <1>4. state # "RUNNING" => Unasked(c2s["ctrl"]) /\ NoRun(toSrv)
    BY <1>0 DEF LaunchInv, NoRun
  <1>5. CASE ThreadStep
    <2>1. ThreadNext /\ launches' = IF pc = "spawn" THEN launches + 1 ELSE launches
      BY <1>5 DEF ThreadStep
    <2>2. ver' = ver /\ Says(s2c["ctrl"], s2c'["ctrl"])
      BY <1>0, <2>1, ThreadSays
    <2>3. /\ Loc' \in BeforeSpawn => Loc \in BeforeSpawn /\ pc # "spawn"
          /\ pc = "spawn" => Loc \in BeforeSpawn
      BY <1>0, <2>1, ThreadPasses
    <2>4. state # "RUNNING" => Loc' \in Early /\ Unasked(c2s'["ctrl"]) /\ pc # "spawn"
      BY <1>0, <2>1, ThreadEarly DEF LaunchInv, Early
    <2>5. LaunchInv'
      <3>1. /\ launches <= 1 /\ (Loc \in BeforeSpawn => launches = 0)
            /\ state # "RUNNING" => launches = 0
        BY <1>0 DEF LaunchInv
      <3>2. launches' <= 1 /\ (Loc' \in BeforeSpawn => launches' = 0)
        BY <2>1, <2>3, <3>1
      <3>3. state # "RUNNING" => launches' = 0
        BY <2>1, <2>4, <3>1
      <3> QED BY <1>1, <1>4, <2>4, <3>2, <3>3 DEF LaunchInv, Early, NoRun, OnCtrl, Unasked
    <2> QED BY <1>2, <1>3, <2>2, <2>5 DEF OnceInv
  <1>6. CASE ProcWriteStep \/ ProcReadStep \/ ProcExitStep \/ ServerLoopReady
    <2>1. UNCHANGED <<pc, cont, ver, launches>>
      BY <1>6 DEF ProcWriteStep, ProcReadStep, ProcExitStep, ServerLoopReady, ProcWrite, ProcRead,
                  ProcExit, threadVars, histVars
    <2>2. c2s'["ctrl"] = c2s["ctrl"] /\ s2c'["ctrl"] = s2c["ctrl"]
      BY <1>0, <1>6 DEF ProcWriteStep, ProcReadStep, ProcExitStep, ServerLoopReady, ProcWrite, ProcRead,
                        ProcExit, WriteFile, ReadFile, pipeVars, PipeTypeOK, Pipe
    <2>3. VersionInv'
      BY <1>3, <2>1, <2>2 DEF Says
    <2>4. LaunchInv'
      BY <1>0, <1>1, <1>4, <2>1, <2>2, LaunchKept
    <2> QED BY <1>2, <2>3, <2>4 DEF OnceInv
  <1> QED BY <1>5, <1>6

\* What was on the wire is lost.
LEMMA LossOnce ==
  ASSUME SessTypeOK, OnceInv, NetFail
  PROVE  OnceInv'
  <1>0. /\ ReadInv /\ GivenInv /\ OpenInv /\ VersionInv /\ LaunchInv
        /\ toSrv' \in {toSrv, <<>>} /\ toCli' \in {toCli, <<>>}
        /\ UNCHANGED <<connVars, stateVars, ioVars, pending, srvVars, histVars>>
    BY DEF OnceInv, NetFail
  <1>1. UNCHANGED <<srvOpen, srvFnum, parked, state, mode, fd, io_read, pending, pc, cont, ver, c2s, s2c, launches>>
    BY <1>0 DEF srvVars, stateVars, ioVars, connVars, pipeVars, threadVars, histVars
  <1>2. (NoneLive => NoneLive') /\ (OneLive => OneLive')
    BY <1>0, <1>1 DEF NoneLive, OneLive, Live
  <1>3. (NoneFetched => NoneFetched') /\ (OneFetched => OneFetched')
    BY <1>0 DEF NoneFetched, OneFetched, Fetched
  <1>4. ReadInv'
    BY <1>0, <1>1, <1>2, <1>3 DEF ReadInv, QuietCtrl, OneRead
  <1>5. GivenInv'
    <2>1. \A i \in DOMAIN toSrv' : OnCtrl(toSrv'[i], "read") => toSrv'[i].fnum <= srvFnum'["ctrl"]
      BY <1>0, <1>1 DEF GivenInv
    <2>2. \A i \in DOMAIN toCli' : Given(toCli[i])'
      BY <1>0, <1>1 DEF GivenInv, Given
    <2> QED BY <1>0, <1>1, <2>1, <2>2 DEF GivenInv
  <1>6. OpenInv'
    BY <1>0, <1>1 DEF OpenInv
  <1>7. VersionInv'
    <2>1. \A i \in DOMAIN toCli' : \E j \in DOMAIN toCli : toCli'[i] = toCli[j]
      BY <1>0
    <2>2. Says(s2c["ctrl"], s2c'["ctrl"])
      BY <1>1 DEF Says
    <2> QED BY <1>0, <1>1, <2>1, <2>2, VersionKept
  <1>8. LaunchInv'
    <2>1. state # "RUNNING" => Unasked(c2s'["ctrl"]) /\ NoRun(toSrv')
      BY <1>0, <1>1 DEF LaunchInv, NoRun
    <2> QED BY <1>0, <1>1, <2>1, LaunchKept
  <1> QED BY <1>4, <1>5, <1>6, <1>7, <1>8 DEF OnceInv

\* An event or a completion of the client.
LEMMA CallbackOnce ==
  ASSUME SessTypeOK, OnceInv, PlainStep \/ CtrlOpened \/ CtrlMessage, UNCHANGED Remote
  PROVE  OnceInv'
  <1>0. /\ ReadInv /\ GivenInv /\ OpenInv /\ VersionInv /\ LaunchInv
        /\ UNCHANGED <<connVars, launches>> /\ UNCHANGED srvVars /\ ClientTypeOK
    BY DEF OnceInv, Remote, histVars, SessTypeOK
  <1>1. ReadInv' /\ GivenInv'
    <2>1. CASE PlainStep
      BY <1>0, <2>1, PlainSteps, PlainReads
    <2> QED BY <1>0, <2>1, CtrlOpenedReads, MessageReads
  <1>2. OpenInv'
    BY <1>0, ClientOpens
  <1>3. VersionInv' /\ LaunchInv'
    BY <1>0, ClientOnce
  <1> QED BY <1>1, <1>2, <1>3 DEF OnceInv

\* A new service is met by a client that knows nothing of the old one.
LEMMA InstallOnce ==
  ASSUME SessTypeOK, OnceInv, InstallStep
  PROVE  OnceInv'
  <1>0. /\ ReadInv /\ GivenInv /\ OpenInv /\ VersionInv /\ LaunchInv /\ ClientTypeOK
        /\ UNCHANGED srvVars /\ launches' = launches
    BY DEF OnceInv, SessTypeOK, InstallStep, InstallOk, InstallFails, ReinstallOk, ReinstallFails, histVars
  <1>1. PlainStep /\ (mode = "install" \/ mode = "reinstall") /\ toCli' = toCli
        /\ (state' = state \/ state' = "OPENING")
    BY DEF PlainStep, InstallStep, InstallOk, InstallFails, ReinstallOk, ReinstallFails, Installed, Reinstalled
  <1>2. Plain /\ Taken /\ SamePlace
    BY <1>0, <1>1, PlainSteps
  <1>3. ReadInv' /\ GivenInv' /\ OpenInv'
    BY <1>0, <1>1, <1>2, PlainReads, ClientOpens
  <1>4. CASE UNCHANGED connVars
    BY <1>0, <1>1, <1>3, <1>4, ClientOnce DEF OnceInv
  <1>5. ASSUME NEW s, NEW v, Restart(s, v)
        PROVE  OnceInv'
    <2>1. state # "RUNNING" /\ state' # "RUNNING" /\ NoneFetched
      BY <1>0, <1>1 DEF OpenInv, ReadInv, QuietCtrl
    <2>2. NoneFetched'
      BY <1>1, <2>1 DEF NoneFetched, Fetched
    <2>3. c2s'["ctrl"] = <<>> /\ s2c'["ctrl"] = <<>> /\ pc' = "idle"
      BY <1>5 DEF Restart, Pipe
    <2>4. VersionInv'
      BY <2>1, <2>2, <2>3 DEF VersionInv, NoneFetched, Truly
    <2>5. NoRun(toSrv')
      <3>1. PlainWrites
        BY <1>0, <1>1, <2>1, ClientPlace
      <3>2. NoRun(toSrv)
        BY <1>0, <2>1 DEF LaunchInv, NoRun
      <3> QED BY <1>0, <3>1, <3>2, PlainNoRun
    <2>6. LaunchInv'
      BY <1>0, <2>1, <2>3, <2>5 DEF LaunchInv, NoRun, Unasked, Loc, OnCtrl
    <2> QED BY <1>3, <2>4, <2>6 DEF OnceInv
  <1>6. UNCHANGED connVars \/ \E s, v : Restart(s, v)
    BY DEF InstallStep, InstallOk, InstallFails, ReinstallOk, ReinstallFails
  <1> QED BY <1>4, <1>5, <1>6

LEMMA OnceStep ==
  ASSUME SessTypeOK, SessTypeOK', ServiceInv, OnceInv, [SessNext]_sessVars
  PROVE  OnceInv'
  <1>0. ReadInv /\ GivenInv /\ OpenInv /\ VersionInv /\ LaunchInv /\ ServerTypeOK'
    BY DEF OnceInv, SessTypeOK
  <1>1. CASE ServerNext
    <2>1. ReadInv' /\ GivenInv'
      BY <1>0, <1>1, ServerReads
    <2>2. VersionInv' /\ LaunchInv'
      BY <1>0, <1>1, ServerOnce
    <2>3. OpenInv'
      <3>1. UNCHANGED <<state, mode, pending>>
        BY <1>1 DEF ServerNext, stateVars
      <3> QED BY <1>0, <3>1 DEF OpenInv
    <2> QED BY <2>1, <2>2, <2>3 DEF OnceInv
  <1>2. CASE NetFail
    BY <1>2, LossOnce
  <1>3. CASE ThreadStep \/ ProcWriteStep \/ ProcReadStep \/ ProcExitStep \/ ServerLoopReady
    BY <1>3, RemoteOnce
  <1>4. CASE CompletionStep \/ TimeoutStep \/ DeadStep \/ StdinStep \/ TimerStep \/ SignalStep \/ ExitStep
    <2>1. (PlainStep \/ CtrlOpened \/ CtrlMessage) /\ UNCHANGED Remote
      BY <1>4 DEF CompletionStep, TimeoutStep, DeadStep, StdinStep, TimerStep, SignalStep, ExitStep,
                  Completion, PlainStep, CtrlMessage
    <2> QED BY <2>1, CallbackOnce
  <1>5. CASE InstallStep
    BY <1>5, InstallOnce
  <1>6. CASE UNCHANGED sessVars
    <2>1. UNCHANGED connVars /\ UNCHANGED <<srvVars, stateVars, ioVars, reqVars, toCli>> /\ launches' = launches
      BY <1>6 DEF sessVars, clientVars, histVars
    <2>2. ReadInv' /\ GivenInv' /\ OpenInv'
      BY <1>0, <2>1, SameOnce
    <2>3. UNCHANGED <<pc, cont, ver, c2s, s2c, launches, state, toSrv, toCli>>
      BY <2>1 DEF connVars, pipeVars, threadVars, stateVars, reqVars
    <2>4. VersionInv'
      BY <1>0, <2>3 DEF VersionInv, Truly, Fetched
    <2>5. LaunchInv'
      BY <1>0, <2>3 DEF LaunchInv, Loc
    <2> QED BY <2>2, <2>4, <2>5 DEF OnceInv
  <1> QED BY <1>1, <1>2, <1>3, <1>4, <1>5, <1>6 DEF SessNext

LEMMA InitOnce == SessInit => OnceInv
  <1> SUFFICES ASSUME SessInit PROVE OnceInv
    OBVIOUS
  <1>1. /\ state = "OPENING" /\ parked = {} /\ mode = "loop" /\ launches = 0 /\ pc = "idle"
        /\ fd["ctrl"] = 0 /\ io_read["ctrl"] = 0 /\ srvFnum["ctrl"] = 0
        /\ c2s["ctrl"] = <<>> /\ s2c["ctrl"] = <<>>
        /\ pending = <<[op |-> "open", pipe |-> "ctrl", fnum |-> 0, timed |-> TRUE]>>
        /\ toSrv = <<async_open("ctrl")>> /\ toCli = <<>>
    BY DEF SessInit, ClientInit, ThreadInit, Pipe, PipeName
  <1>2. \A i \in DOMAIN toSrv : toSrv[i].op = "open"
    <2>1. async_open("ctrl").op = "open"
      BY DEF async_open, Request
    <2> QED BY <1>1, <2>1
  <1>3. ReadInv
    BY <1>1, <1>2 DEF ReadInv, QuietCtrl, NoneFetched, NoneLive, Live, OnCtrl
  <1>4. GivenInv
    BY <1>1, <1>2 DEF GivenInv, OnCtrl
  <1>5. OpenInv
    BY <1>1 DEF OpenInv, OneOpen
  <1>6. VersionInv
    BY <1>1 DEF VersionInv, Truly
  <1>7. LaunchInv
    BY <1>1, <1>2 DEF LaunchInv, Loc, Unasked, OnCtrl
  <1> QED BY <1>3, <1>4, <1>5, <1>6, <1>7 DEF OnceInv

\* The service is made to start the command at most once, also across
\* reinstallations and after messages that arrive late: at most one read of the
\* control pipe can still bring a message before the version is known, and none
\* while the client opens or closes the pipe, so that what it learns of the
\* version is true of the service there is; it sends its command only to a
\* service of its own version, and gives that one up no more.
THEOREM RunAtMostOnceCorrect == SessSpec => []RunAtMostOnce
  <1>1. OnceInv /\ SessTypeOK /\ SessTypeOK' /\ ServiceInv /\ [SessNext]_sessVars => OnceInv'
    BY OnceStep
  <1>2. SessSpec => []OnceInv
    BY <1>1, InitOnce, SessInv, PTL DEF SessSpec
  <1>3. OnceInv => RunAtMostOnce
    BY DEF OnceInv, LaunchInv, RunAtMostOnce
  <1> QED BY <1>2, <1>3, PTL
=============================================================================
