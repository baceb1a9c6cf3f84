-------------------------- MODULE SessionRunProofs ---------------------------
(***************************************************************************)
(* Session implements RemoteRun: one run of winexe, with the service, the  *)
(* pipes and the server of the remote machine, and with any faults, is the *)
(* run of one command whose output and code the caller gets.               *)
(*                                                                         *)
(* RunInv follows the command line to the thread, the output back from the *)
(* process and the return code behind it.  Its parts are kept by the       *)
(* thread and the process first, then by the server, then by the callbacks *)
(* of the client; at the end each step of Session is mapped to one of      *)
(* RemoteRun or to none.                                                   *)
(***************************************************************************)
EXTENDS SessionStoreProofs

\* The end of the command, and what is told of it.

\* The caller interrupted the command, or cannot be reached.
Cut == abortSent \/ net # "up" \/ mode \in Gone
Up == Staying /\ net = "up"

\* Nothing runs for a client that has not sent its command, and only the
\* server opens a pipe for the client.
IdleInv ==
    /\ state # "RUNNING" => proc = "none"
    /\ proc = "none" => pcode = 0
    /\ \A p \in Pipe : inst[p] = "conn" => p \in srvOpen

\* Lines of one kind: none, at most one, only as the last.
Free(q, verb) == \A i \in DOMAIN q : q[i].verb # verb
Single(q, verb) == \A i, j \in DOMAIN q : q[i].verb = verb /\ q[j].verb = verb => i = j
LastOnly(q, verb) == \A i \in DOMAIN q : q[i].verb = verb => i = Len(q)

\* The version is asked for once on a file: in a request, in the pipe, or in
\* what is answered.
Mentions(m, type) == \E k \in DOMAIN m : m[k].type = type
Queries(i) == Alive(i, "write", "ctrl") /\ toSrv[i].items = GetVersion
Versioned(i) == Fetched(i) /\ Mentions(toCli[i].data, "version")
NoneQueries == \A i \in DOMAIN toSrv : ~Queries(i)
NoneVersion == \A i \in DOMAIN toCli : ~Versioned(i)
QuietVersion == NoneQueries /\ Free(c2s["ctrl"], "get") /\ ~Mentions(s2c["ctrl"], "version")
OneVersion ==
    /\ \A i, j \in DOMAIN toSrv : Queries(i) /\ Queries(j) => i = j
    /\ Single(c2s["ctrl"], "get")
    /\ NoneQueries \/ (Free(c2s["ctrl"], "get") /\ ~Mentions(s2c["ctrl"], "version") /\ NoneVersion)
    /\ Free(c2s["ctrl"], "get") \/ (~Mentions(s2c["ctrl"], "version") /\ NoneVersion)
    /\ ~Mentions(s2c["ctrl"], "version") \/ NoneVersion
AskInv ==
    Up => /\ state = "OPENING" => QuietVersion
          /\ state = "GETTING_VERSION" => OneVersion
          /\ state = "RUNNING" => QuietVersion /\ NoneVersion

\* The control pipe stays open for the thread.
Held == Loc \notin {"finish", "done"} => inst["ctrl"] = "conn"
HeldInv ==
    Up => /\ \A i \in DOMAIN toCli : Is(toCli[i], "open", "ctrl") /\ toCli[i].status = "ok" => Held
          /\ state = "GETTING_VERSION" => Held

\* Until the caller interrupts it, the command is the last that is written.
NoneWritten == NoneOf(toSrv, "write", "ctrl")
LineInv ==
    state = "RUNNING" /\ ~Cut =>
        /\ Held /\ NoneOf(toSrv, "close", "ctrl")
        /\ LastOnly(c2s["ctrl"], "run")
        /\ Free(c2s["ctrl"], "run") \/ NoneWritten
        /\ \A i, j \in DOMAIN toSrv :
              Is(toSrv[i], "write", "ctrl") /\ toSrv[i].items = RunCommandOf(account) /\ Is(toSrv[j], "write", "ctrl")
                => j <= i
        /\ Loc \notin Early => c2s["ctrl"] = <<>> /\ NoneWritten
        /\ pc = "wait" => ovl = "pending"

\* Every return code that is on its way is ec.
CodeIs(m) == \A k \in DOMAIN m : m[k].type = "return_code" => m[k].val = ec
Coder(i) == Fetched(i) /\ Mentions(toCli[i].data, "return_code")
CodeDue == Mentions(s2c["ctrl"], "return_code") \/ (\E i \in DOMAIN toCli : Coder(i)) \/ codeSeen
Released == ReleaseLabels \union {"finish", "done"}
CodeInv ==
    /\ CodeIs(s2c["ctrl"]) /\ \A i \in DOMAIN toCli : Fetched(i) => CodeIs(toCli[i].data)
    /\ CodeDue => /\ proc = "exited" /\ Loc \in Released
                  /\ s2c["out"] = <<>> /\ s2c["err"] = <<>>
    /\ CodeDue \/ Loc \in {"flushout", "flusherr", "report"} => ec = pcode \/ (ec = Aborted /\ Cut)
    /\ codeSeen => state = "RUNNING" /\ return_code = ec
    /\ Staying /\ ~codeSeen => return_code = InitialCode

\* One read of an output pipe at a time, which the client waits for.
Outputs == {"out", "err"}
OutRead(p) ==
    /\ OneUnderway("read", p) /\ (p \in parked => NoneUnderway("read", p))
    /\ \A q \in {toSrv, toCli, pending} : \A i \in DOMAIN q : Is(q[i], "read", p) => q[i].fnum = 1
    /\ NoneOf(pending, "write", p)
    /\ Known("read", p) \/ (NoneUnderway("read", p) /\ p \notin parked)
    /\ fd[p] = 0 => NoneUnderway("read", p) /\ p \notin parked
    /\ net = "up" =>
          /\ NoneOf(toSrv, "close", p) \/ inst[p] # "conn"
          /\ \A i \in DOMAIN toCli : toCli[i].op \in {"read", "open"} /\ toCli[i].pipe = p /\ toCli[i].status # "ok"
                => inst[p] # "conn"
OutReadInv == \A p \in Outputs : OutRead(p)

\* What was written is shown, on its way, or still in the pipe.
Flow(p) ==
    /\ shown[p] <= wrote[p]
    /\ \A i \in DOMAIN toCli : Good(i, "read", p) => shown[p] + Len(toCli[i].data) <= wrote[p]
    /\ net = "up" =>
          /\ \A i \in DOMAIN toCli : Good(i, "read", p) =>
                shown[p] + Len(toCli[i].data) + Len(s2c[p]) = wrote[p]
          /\ NoneGood("read", p) => shown[p] + Len(s2c[p]) = wrote[p]
    /\ \A i \in DOMAIN toCli : Coder(i) =>
          /\ \A j \in DOMAIN toCli : Good(j, "read", p) => j < i /\ shown[p] + Len(toCli[j].data) = wrote[p]
          /\ NoneGood("read", p) => shown[p] = wrote[p]
    /\ codeSeen => shown[p] = wrote[p] /\ NoneGood("read", p)
FlowInv == \A p \in Outputs : Flow(p)

\* All of it, in every state of a session.
RunInv ==
    /\ IdleInv /\ AskInv /\ HeldInv /\ LineInv /\ CodeInv
    /\ Staying => OutReadInv /\ FlowInv

-----------------------------------------------------------------------------
\* Lines and messages in sequences that change.

\* The lines that a client writes at once.
LEMMA OwnLines ==
  /\ Free(GetVersion, "run") /\ Free(Abort, "run") /\ Free(Abort, "get") /\ Single(GetVersion, "get")
  /\ \A a : Free(RunCommandOf(a), "get") /\ LastOnly(RunCommandOf(a), "run")
  /\ Abort # GetVersion /\ \A a : RunCommandOf(a) # GetVersion /\ RunCommandOf(a) # Abort
  <1>1. /\ DOMAIN GetVersion = {1} /\ GetVersion[1].verb = "get"
        /\ DOMAIN Abort = {1} /\ Abort[1].verb = "unknown"
    BY DEF GetVersion, Abort, CommandLine
  <1>2. ASSUME NEW a
        PROVE  LET q == RunCommandOf(a) IN
               \/ DOMAIN q = {1} /\ Len(q) = 1 /\ q[1].verb = "run"
               \/ DOMAIN q = {1, 2} /\ Len(q) = 2 /\ q[1].verb = "set" /\ q[2].verb = "run"
    <2>1. CASE a = "runas"
      BY <2>1 DEF RunCommandOf, CommandLine
    <2>2. CASE a = "system"
      BY <2>2 DEF RunCommandOf, CommandLine
    <2>3. CASE a \notin {"runas", "system"}
      BY <2>3 DEF RunCommandOf, CommandLine
    <2> QED BY <2>1, <2>2, <2>3
  <1>3. \A a : Free(RunCommandOf(a), "get") /\ LastOnly(RunCommandOf(a), "run")
    <2> SUFFICES ASSUME NEW a PROVE Free(RunCommandOf(a), "get") /\ LastOnly(RunCommandOf(a), "run")
      OBVIOUS
    <2>1. CASE DOMAIN RunCommandOf(a) = {1}
      BY <1>2, <2>1 DEF Free, LastOnly
    <2>2. CASE DOMAIN RunCommandOf(a) # {1}
      <3>1. /\ DOMAIN RunCommandOf(a) = {1, 2} /\ Len(RunCommandOf(a)) = 2
            /\ RunCommandOf(a)[1].verb = "set" /\ RunCommandOf(a)[2].verb = "run"
        BY <1>2, <2>2
      <3> QED BY <3>1 DEF Free, LastOnly
    <2> QED BY <2>1, <2>2
  <1>4. \A a : RunCommandOf(a) # GetVersion /\ RunCommandOf(a) # Abort
    BY <1>1, <1>2
  <1> QED BY <1>1, <1>3, <1>4 DEF Free, Single

\* Lines that are read from the front, ...
LEMMA LinesTail ==
  ASSUME NEW S, NEW q \in Seq(S), q # <<>>, NEW verb
  PROVE  /\ Free(q, verb) => Free(Tail(q), verb) /\ Head(q).verb # verb
         /\ Single(q, verb) => Single(Tail(q), verb)
         /\ Single(q, verb) /\ Head(q).verb = verb => Free(Tail(q), verb)
         /\ LastOnly(q, verb) => LastOnly(Tail(q), verb)
         /\ LastOnly(q, verb) /\ Head(q).verb = verb => Tail(q) = <<>>
  <1> DEFINE t == Tail(q)
  <1>1. /\ Len(t) = Len(q) - 1 /\ Len(q) \in Nat /\ Len(q) > 0
        /\ DOMAIN q = 1..Len(q) /\ DOMAIN t = 1..(Len(q) - 1) /\ Head(q) = q[1] /\ 1 \in DOMAIN q
        /\ \A k \in DOMAIN t : k + 1 \in DOMAIN q /\ t[k] = q[k + 1]
    BY TailElements
  <1>2. Len(q) = 1 => t = <<>>
    <2>1. t \in Seq(S)
      OBVIOUS
    <2> QED BY <1>1, <2>1, EmptySeq
  <1> HIDE DEF t
  <1>3. \A i, j \in DOMAIN t : i + 1 = j + 1 => i = j
    BY <1>1
  <1>4. \A i \in DOMAIN t : i \in Nat /\ i + 1 # 1 /\ (i + 1 = Len(q) => i = Len(t))
    BY <1>1
  <1>5. Free(q, verb) => Free(t, verb) /\ Head(q).verb # verb
    BY <1>1 DEF Free
  <1>6. ASSUME Single(q, verb)
        PROVE  Single(t, verb) /\ (Head(q).verb = verb => Free(t, verb))
    BY <1>1, <1>3, <1>4, <1>6 DEF Free, Single
  <1>7. ASSUME LastOnly(q, verb)
        PROVE  LastOnly(t, verb) /\ (Head(q).verb = verb => t = <<>>)
    BY <1>1, <1>2, <1>4, <1>7 DEF LastOnly
  <1> QED BY <1>5, <1>6, <1>7 DEF t

\* ... and lines that are written behind others.
LEMMA LinesMore ==
  ASSUME NEW S, NEW q \in Seq(S), NEW t \in Seq(S), NEW verb
  PROVE  /\ Free(q, verb) /\ Free(t, verb) => Free(q \o t, verb)
         /\ Free(q, verb) /\ Single(t, verb) => Single(q \o t, verb)
         /\ Single(q, verb) /\ Free(t, verb) => Single(q \o t, verb)
         /\ Free(q, verb) /\ LastOnly(t, verb) => LastOnly(q \o t, verb)
  <1> DEFINE s == q \o t
  <1>1. /\ Len(s) = Len(q) + Len(t) /\ Len(q) \in Nat /\ Len(t) \in Nat
        /\ DOMAIN q = 1..Len(q) /\ DOMAIN t = 1..Len(t)
    BY ConcatElements
  <1>2. \A k \in DOMAIN s : \/ k \in DOMAIN q /\ s[k] = q[k]
                            \/ k - Len(q) \in DOMAIN t /\ k = Len(q) + (k - Len(q)) /\ s[k] = t[k - Len(q)]
    BY ConcatSplit
  <1> HIDE DEF s
  <1>3. Free(q, verb) /\ Free(t, verb) => Free(s, verb)
    BY <1>2 DEF Free
  <1>4. ASSUME Free(q, verb), Single(t, verb) PROVE Single(s, verb)
    <2> SUFFICES ASSUME NEW i \in DOMAIN s, NEW j \in DOMAIN s, s[i].verb = verb, s[j].verb = verb
                 PROVE  i = j
      BY DEF Single
    <2>1. /\ i - Len(q) \in DOMAIN t /\ i = Len(q) + (i - Len(q)) /\ s[i] = t[i - Len(q)]
          /\ j - Len(q) \in DOMAIN t /\ j = Len(q) + (j - Len(q)) /\ s[j] = t[j - Len(q)]
      BY <1>2, <1>4 DEF Free
    <2>2. i - Len(q) = j - Len(q)
      BY <1>4, <2>1 DEF Single
    <2> QED BY <2>1, <2>2
  <1>5. Single(q, verb) /\ Free(t, verb) => Single(s, verb)
    BY <1>2 DEF Free, Single
  <1>6. ASSUME Free(q, verb), LastOnly(t, verb) PROVE LastOnly(s, verb)
    <2> SUFFICES ASSUME NEW i \in DOMAIN s, s[i].verb = verb
                 PROVE  i = Len(s)
      BY DEF LastOnly
    <2>1. i - Len(q) \in DOMAIN t /\ i = Len(q) + (i - Len(q)) /\ s[i] = t[i - Len(q)]
      BY <1>2, <1>6 DEF Free
    <2>2. i - Len(q) = Len(t)
      BY <1>6, <2>1 DEF LastOnly
    <2> QED BY <1>1, <2>1, <2>2
  <1> QED BY <1>3, <1>4, <1>5, <1>6 DEF s

\* Messages: one that is added, or none.
LEMMA MentionsMore ==
  ASSUME NEW s \in Seq(Message), NEW m \in Message, NEW type
  PROVE  /\ Mentions(Append(s, m), type) => Mentions(s, type) \/ m.type = type
         /\ CodeIs(s) /\ (m.type = "return_code" => m.val = ec) => CodeIs(Append(s, m))
  <1>1. \A k \in DOMAIN Append(s, m) : (k \in DOMAIN s /\ Append(s, m)[k] = s[k]) \/ Append(s, m)[k] = m
    OBVIOUS
  <1> QED BY <1>1 DEF Mentions, CodeIs

\* In an empty sequence there is nothing of a kind.
LEMMA NothingMentioned ==
  /\ \A type : ~Mentions(<<>>, type)
  /\ CodeIs(<<>>)
  /\ \A verb : Free(<<>>, verb) /\ Single(<<>>, verb) /\ LastOnly(<<>>, verb)
  BY DEF Mentions, CodeIs, Free, Single, LastOnly

-----------------------------------------------------------------------------
\* Steps of the thread.

\* What it does with the control pipe and with the lines in it.
LEMMA ThreadReads ==
  ASSUME PipeTypeOK, cont \notin {"flush", "wait"}, ThreadNext
  PROVE  /\ \/ c2s'["ctrl"] = c2s["ctrl"] \/ c2s'["ctrl"] = <<>>
            \/ c2s["ctrl"] # <<>> /\ c2s'["ctrl"] = Tail(c2s["ctrl"])
         /\ Loc \in Early => \/ Loc' \in Early
                             \/ NextLine("run") /\ c2s'["ctrl"] = Tail(c2s["ctrl"])
         /\ Loc \in {"finish", "done"} => Loc' \in {"finish", "done"}
         /\ inst'["ctrl"] = inst["ctrl"] \/ Loc' = "done"
         /\ pc' = "wait" => /\ pc = "watch"
                            /\ c2s["ctrl"] = <<>> /\ inst["ctrl"] = "conn" => ovl' = "pending"
  <1>1. /\ c2s \in [Pipe -> Seq(Line \union {Chunk})] /\ inst \in [Pipe -> InstState]
        /\ "ctrl" \in Pipe /\ "in" \in Pipe /\ "out" \in Pipe /\ "err" \in Pipe
    BY DEF PipeTypeOK, Pipe
  <1> DEFINE Reads == \/ c2s'["ctrl"] = c2s["ctrl"] \/ c2s'["ctrl"] = <<>>
                      \/ c2s["ctrl"] # <<>> /\ c2s'["ctrl"] = Tail(c2s["ctrl"])
             Goes == /\ Loc \in Early => Loc' \in Early
                     /\ Loc \in {"finish", "done"} => Loc' \in {"finish", "done"}
                     /\ pc' # "wait"
             Keeps == c2s'["ctrl"] = c2s["ctrl"] /\ inst' = inst
  <1>2. UNCHANGED pipeVars => Keeps
    BY DEF pipeVars
  <1>3. \A m, l : hprintf(m, l) => Keeps /\ pc' = "flush" /\ cont' = l
    BY DEF hprintf, WriteFile
  <1>4. \A call, l : Fails(call, l) => Keeps /\ pc' = "flush" /\ cont' = l
    BY <1>3 DEF Fails
  <1>5. \A p \in Std : CreateNamedPipe(p) \/ Disconnect(p) =>
           c2s'["ctrl"] = c2s["ctrl"] /\ inst'["ctrl"] = inst["ctrl"]
    BY <1>1 DEF CreateNamedPipe, Disconnect, Std, Pipe
  <1>6. ASSUME HprintfReturn \/ Accept
        PROVE  Keeps /\ Goes
    BY <1>2, <1>6 DEF HprintfReturn, Accept, Goto, Loc, Early
  <1>17. ASSUME AcceptUnserved
         PROVE  Keeps /\ Goes
    BY <1>3, <1>17 DEF AcceptUnserved, Loc, Early
  <1>7. ASSUME AcceptFails \/ Finish
        PROVE  Reads /\ Goes /\ Loc' = "done"
    BY <1>1, <1>7 DEF AcceptFails, Finish, ClosePipe, Disconnect, Goto, Loc, Early
  <1>8. ASSUME HgetsFails \/ Unknown \/ cmd_get \/ cmd_set
        PROVE  Reads /\ inst' = inst /\ Goes
    <2>1. inst' = inst /\ Goes
      BY <1>8 DEF HgetsFails, Unknown, cmd_get, cmd_set, ReadFile, ReadAndReply, NextLine, Goto, pipeVars, Loc, Early
    <2>2. Reads
      BY <1>1, <1>8 DEF HgetsFails, Unknown, cmd_get, cmd_set, ReadFile, ReadAndReply, NextLine, pipeVars
    <2> QED BY <2>1, <2>2
  <1>9. ASSUME cmd_run
        PROVE  /\ NextLine("run") /\ c2s["ctrl"] # <<>> /\ c2s'["ctrl"] = Tail(c2s["ctrl"])
               /\ inst' = inst /\ pc = "hgets" /\ pc' # "wait"
    BY <1>1, <1>9 DEF cmd_run, ReadFile, NextLine, Goto
  <1>10. ASSUME \/ TokenLogon \/ TokenOpenProcess \/ TokenImpersonate \/ TokenDuplicate \/ TokenCloseTmp
                \/ TokenRevert \/ SendStdIoErr \/ ConnectPipes \/ Spawn
         PROVE  Keeps /\ pc \notin Early \union {"flush"} /\ pc' # "wait"
    BY <1>2, <1>3, <1>4, <1>10
    DEF TokenLogon, TokenOpenProcess, TokenImpersonate, TokenDuplicate, TokenCloseTmp, TokenRevert, SendStdIoErr,
        ConnectPipes, ConnectPipe, Spawn, Goto, Early
  <1>11. ASSUME WaitControl \/ WaitProcess \/ FlushOut \/ FlushErr \/ SendReturnCode \/ CloseToken
         PROVE  Keeps /\ pc \notin Early \union {"flush"} /\ pc' # "wait"
    BY <1>2, <1>3, <1>11
    DEF WaitControl, WaitProcess, FlushOut, FlushErr, SendReturnCode, CloseToken, Goto, Early
  <1>12. ASSUME MakePipes \/ Release
         PROVE  /\ c2s'["ctrl"] = c2s["ctrl"] /\ inst'["ctrl"] = inst["ctrl"]
                /\ pc \notin Early \union {"flush"} /\ pc' # "wait"
    <2>1. ASSUME MakePipes
          PROVE  /\ c2s'["ctrl"] = c2s["ctrl"] /\ inst'["ctrl"] = inst["ctrl"]
                 /\ pc \notin Early \union {"flush"} /\ pc' # "wait"
      BY <1>4, <1>5, <2>1 DEF MakePipes, MakePipe, Std, Early
    <2>2. ASSUME Release
          PROVE  /\ c2s'["ctrl"] = c2s["ctrl"] /\ inst'["ctrl"] = inst["ctrl"]
                 /\ pc \notin Early \union {"flush"} /\ pc' # "wait"
      BY <1>5, <2>2 DEF Release, DisconnectPipe, ClosePipe, Goto, Std, Early
    <2> QED BY <1>12, <2>1, <2>2
  <1>13. ASSUME Watch
         PROVE  /\ Reads /\ inst' = inst /\ pc = "watch"
                /\ c2s["ctrl"] = <<>> /\ inst["ctrl"] = "conn" => ovl' = "pending"
    BY <1>1, <1>13 DEF Watch, ReadFile, pipeVars
  <1>14. pc \notin Early \union {"flush"} => Loc \notin Early /\ Loc \notin {"finish", "done"}
    BY DEF Loc, Early
  <1>15. "watch" \notin Early \union {"flush"} /\ "hgets" \in Early /\ "hgets" # "flush"
    BY DEF Early
  <1>16. pc = "hgets" => Loc \notin {"finish", "done"}
    BY DEF Loc
  <1> QED
    BY <1>6, <1>7, <1>8, <1>9, <1>10, <1>11, <1>12, <1>13, <1>14, <1>15, <1>16, <1>17 DEF ThreadNext

\* What it says: a version when it was asked for one, a code at the end.
LEMMA ThreadAnswers ==
  ASSUME PipeTypeOK, ThreadTypeOK, ThreadNext
  PROVE  \/ s2c'["ctrl"] \in {s2c["ctrl"], <<>>}
         \/ \E m \in Message :
               /\ s2c'["ctrl"] = Append(s2c["ctrl"], m)
               /\ m.type = "version" => NextLine("get") /\ c2s'["ctrl"] = Tail(c2s["ctrl"])
               /\ m.type = "return_code" => pc = "report" /\ m.val = ec
  <1>1. s2c \in [Pipe -> Seq(Message)] /\ c2s \in [Pipe -> Seq(Line \union {Chunk})] /\ "ctrl" \in Pipe
        /\ "in" \in Pipe /\ "out" \in Pipe /\ "err" \in Pipe /\ ver \in Nat /\ ec \in Nat
    BY ConnectionAssumption DEF PipeTypeOK, ThreadTypeOK, Pipe, ConnectionAssumption
  <1> DEFINE Answers1(m) == /\ m.type = "version" => NextLine("get") /\ c2s'["ctrl"] = Tail(c2s["ctrl"])
                            /\ m.type = "return_code" => pc = "report" /\ m.val = ec
             Silent == s2c'["ctrl"] \in {s2c["ctrl"], <<>>}
             Speaks == Silent \/ \E m \in Message : s2c'["ctrl"] = Append(s2c["ctrl"], m) /\ Answers1(m)
  <1>2. ASSUME NEW m \in Message, Answers1(m),
               s2c' = IF inst["ctrl"] = "conn" THEN [s2c EXCEPT !["ctrl"] = Append(@, m)] ELSE s2c
        PROVE  Speaks
    <2>1. s2c'["ctrl"] = s2c["ctrl"] \/ s2c'["ctrl"] = Append(s2c["ctrl"], m)
      BY <1>1, <1>2
    <2> QED BY <1>2, <2>1
  <1>3. /\ Error \in Message /\ Answers1(Error)
        /\ NoMemory \in Message /\ Answers1(NoMemory)
        /\ Msg("std_io_err", 0) \in Message /\ Answers1(Msg("std_io_err", 0))
        /\ Msg("return_code", ec) \in Message /\ (pc = "report" => Answers1(Msg("return_code", ec)))
        /\ Msg("version", ver) \in Message
        /\ (NextLine("get") /\ c2s'["ctrl"] = Tail(c2s["ctrl"]) => Answers1(Msg("version", ver)))
    BY <1>1 DEF Error, NoMemory, Msg, Message
  <1> SUFFICES Speaks
    OBVIOUS
  <1> HIDE DEF Answers1, Speaks
  <1>4. ASSUME NEW m \in Message, NEW l, hprintf(m, l), Answers1(m)
        PROVE  Speaks
    BY <1>2, <1>4 DEF hprintf, WriteFile
  <1>5. \A call, l : Fails(call, l) => Speaks
    BY <1>3, <1>4 DEF Fails
  <1>6. ASSUME NEW m \in Message, NEW l, ReadAndReply(m, l),
               Answers1(m) \/ (NextLine("get") /\ m = Msg("version", ver))
        PROVE  Speaks
    <2>1. c2s'["ctrl"] = Tail(c2s["ctrl"])
      BY <1>1, <1>6 DEF ReadAndReply
    <2> QED BY <1>2, <1>3, <1>6, <2>1 DEF ReadAndReply
  <1>7. Silent => Speaks
    BY DEF Speaks
  <1>8. \A p \in Pipe : CreateNamedPipe(p) \/ Disconnect(p) => Speaks
    BY <1>1, <1>7 DEF CreateNamedPipe, Disconnect
  <1>9. UNCHANGED pipeVars \/ (\E p : ReadFile(p)) => Speaks
    BY <1>7 DEF pipeVars, ReadFile
  <1>11. CASE HprintfReturn \/ Accept \/ AcceptFails \/ AcceptUnserved \/ HgetsFails
    BY <1>1, <1>3, <1>4, <1>8, <1>9, <1>11 DEF HprintfReturn, Accept, AcceptFails, AcceptUnserved, HgetsFails
  <1>12. CASE Unknown \/ cmd_set
    BY <1>3, <1>6, <1>9, <1>12 DEF Unknown, cmd_set
  <1>13. CASE cmd_get
    BY <1>3, <1>6, <1>9, <1>13 DEF cmd_get
  <1>14. CASE cmd_run
    BY <1>9, <1>14 DEF cmd_run
  <1>15. CASE TokenLogon \/ TokenOpenProcess \/ TokenDuplicate \/ TokenCloseTmp \/ TokenRevert
    BY <1>5, <1>9, <1>15 DEF TokenLogon, TokenOpenProcess, TokenDuplicate, TokenCloseTmp, TokenRevert
  <1>16. CASE TokenImpersonate
    BY <1>3, <1>4, <1>5, <1>9, <1>16 DEF TokenImpersonate
  <1>17. CASE MakePipes
    BY <1>1, <1>5, <1>8, <1>17 DEF MakePipes, MakePipe
  <1>18. CASE SendStdIoErr
    BY <1>3, <1>4, <1>18 DEF SendStdIoErr
  <1>19. CASE ConnectPipes
    BY <1>3, <1>4, <1>5, <1>9, <1>19 DEF ConnectPipes, ConnectPipe
  <1>20. CASE Spawn \/ Watch
    BY <1>5, <1>9, <1>20 DEF Spawn, Watch
  <1>21. CASE WaitControl \/ WaitProcess \/ FlushOut \/ FlushErr \/ CloseToken
    BY <1>9, <1>21 DEF WaitControl, WaitProcess, FlushOut, FlushErr, CloseToken
  <1>22. CASE SendReturnCode
    BY <1>3, <1>4, <1>22 DEF SendReturnCode
  <1>23. CASE Release
    BY <1>1, <1>8, <1>23 DEF Release, DisconnectPipe, ClosePipe
  <1>24. CASE Finish
    BY <1>1, <1>8, <1>24 DEF Finish, ClosePipe
  <1> QED
    BY <1>11, <1>12, <1>13, <1>14, <1>15, <1>16, <1>17, <1>18, <1>19, <1>20, <1>21, <1>22, <1>23, <1>24
    DEF ThreadNext

\* The process starts at one place and its end is noticed at another.
Ending == {"flushout", "flusherr", "report"}
\* A step of the thread starts the process, notices its end, or leaves both alone.
LEMMA ThreadEnds ==
  ASSUME cont \notin Ending \union {"flush", "wait"}, ThreadNext
  PROVE  /\ \/ UNCHANGED <<proc, pcode, ec>>
            \/ pc = "spawn" /\ proc' = "running" /\ pc' = "watch" /\ UNCHANGED <<pcode, ec>>
            \/ /\ pc = "wait" /\ ControlSignalled /\ proc' = "exited" /\ ec' = Aborted
               /\ pcode' = IF proc = "running" THEN Aborted ELSE pcode
            \/ pc = "wait" /\ proc = "exited" /\ UNCHANGED <<proc, pcode>> /\ ec' = pcode
         /\ pc = "wait" => proc' = "exited" /\ (ec' = pcode' \/ (ec' = Aborted /\ ControlSignalled))
         /\ Loc' \in Ending => Loc \in Ending \union {"wait"}
         /\ Loc \in Released => Loc' \in Released
         /\ pc = "report" => Loc' \in Released
  <1> DEFINE Same == UNCHANGED <<proc, pcode, ec>>
             Goes == /\ Loc' \in Ending => Loc \in Ending \union {"wait"}
                     /\ Loc \in Released => Loc' \in Released
  <1>1. \A call, l : Fails(call, l) => Same /\ pc' = "flush" /\ cont' = l
    BY DEF Fails, hprintf, context
  <1>2. \A l : Goto(l) => Same /\ pc' = l /\ cont' = cont
    BY DEF Goto
  <1>3. ASSUME \/ HprintfReturn \/ Accept \/ AcceptFails \/ AcceptUnserved \/ HgetsFails
        PROVE  Same /\ Goes /\ pc \notin {"wait", "report"}
    BY <1>2, <1>3
    DEF HprintfReturn, Accept, AcceptFails, AcceptUnserved, hprintf, HgetsFails, Loc, Ending, Released, ReleaseLabels
  <1>4. ASSUME Unknown \/ cmd_get \/ cmd_set \/ cmd_run
        PROVE  Same /\ Goes /\ pc \notin {"wait", "report"}
    BY <1>2, <1>4
    DEF Unknown, cmd_get, cmd_set, cmd_run, NextLine, ReadAndReply, context, Loc, Ending, Released, ReleaseLabels
  <1>5. ASSUME TokenLogon \/ TokenOpenProcess \/ TokenImpersonate \/ TokenDuplicate \/ TokenCloseTmp \/ TokenRevert
        PROVE  Same /\ Goes /\ pc \notin {"wait", "report"}
    BY <1>1, <1>5
    DEF TokenLogon, TokenOpenProcess, TokenImpersonate, TokenDuplicate, TokenCloseTmp, TokenRevert,
        hprintf, Loc, Ending, Released, ReleaseLabels
  <1>6. ASSUME MakePipes \/ SendStdIoErr \/ ConnectPipes
        PROVE  Same /\ Goes /\ pc \notin {"wait", "report"}
    BY <1>1, <1>2, <1>6
    DEF MakePipes, MakePipe, SendStdIoErr, ConnectPipes, ConnectPipe, hprintf, context, Loc, Ending, Released, ReleaseLabels
  <1>7. ASSUME Spawn
        PROVE  /\ Same \/ (pc = "spawn" /\ proc' = "running" /\ pc' = "watch" /\ UNCHANGED <<pcode, ec>>)
               /\ Goes /\ pc \notin {"wait", "report"}
    BY <1>1, <1>7 DEF Spawn, Loc, Ending, Released, ReleaseLabels
  <1>8. ASSUME Watch \/ FlushOut \/ FlushErr
        PROVE  Same /\ Goes /\ pc \notin {"wait", "report"}
    BY <1>2, <1>8 DEF Watch, FlushOut, FlushErr, Loc, Ending, Released, ReleaseLabels
  <1>9. ASSUME WaitControl
        PROVE  /\ pc = "wait" /\ ControlSignalled /\ proc' = "exited" /\ ec' = Aborted
               /\ pcode' = IF proc = "running" THEN Aborted ELSE pcode
               /\ Goes
    BY <1>9 DEF WaitControl, Loc, Ending, Released, ReleaseLabels
  <1>10. ASSUME WaitProcess
         PROVE  pc = "wait" /\ proc = "exited" /\ proc' = proc /\ pcode' = pcode /\ ec' = pcode /\ Goes
    BY <1>10 DEF WaitProcess, Loc, Ending, Released, ReleaseLabels
  <1>11. ASSUME SendReturnCode
         PROVE  Same /\ Goes /\ pc # "wait" /\ Loc' \in Released
    BY <1>11 DEF SendReturnCode, hprintf, context, Loc, Ending, Released, ReleaseLabels
  <1>12. ASSUME Release \/ CloseToken \/ Finish
         PROVE  Same /\ Goes /\ pc \notin {"wait", "report"}
    BY <1>2, <1>12 DEF Release, DisconnectPipe, ClosePipe, CloseToken, Finish, Loc, Ending, Released, ReleaseLabels
  <1>13. CASE WaitControl \/ WaitProcess
    <2>1. pc = "wait" /\ proc' = "exited" /\ (ec' = pcode' \/ (ec' = Aborted /\ ControlSignalled)) /\ Goes
      <3>1. CASE WaitControl
        BY <1>9, <3>1
      <3>2. CASE WaitProcess
        BY <1>10, <3>2
      <3> QED BY <1>13, <3>1, <3>2
    <2>2. \/ /\ pc = "wait" /\ ControlSignalled /\ proc' = "exited" /\ ec' = Aborted
             /\ pcode' = IF proc = "running" THEN Aborted ELSE pcode
          \/ pc = "wait" /\ proc = "exited" /\ UNCHANGED <<proc, pcode>> /\ ec' = pcode
      BY <1>9, <1>10, <1>13
    <2> QED BY <2>1, <2>2
  <1>14. CASE Spawn
    BY <1>7, <1>14
  <1>15. CASE SendReturnCode
    BY <1>11, <1>15
  <1>16. (Same /\ Goes /\ pc \notin {"wait", "report"}) \/ Spawn \/ WaitControl \/ WaitProcess \/ SendReturnCode
    BY <1>3, <1>4, <1>5, <1>6, <1>8, <1>12 DEF ThreadNext
  <1> QED
    BY <1>13, <1>14, <1>15, <1>16

\* Of the output pipes it throws nothing away.
LEMMA ThreadOutputs ==
  ASSUME ConnTypeOK, ConnInv, ConnInv', ThreadNext
  PROVE  \A p \in Outputs : s2c'[p] = s2c[p]
  <1>1. /\ s2c \in [Pipe -> Seq(Message)] /\ "ctrl" \in Pipe /\ "in" \in Pipe /\ "out" \in Pipe /\ "err" \in Pipe
        /\ Outputs \subseteq Pipe /\ "ctrl" \notin Outputs
    BY DEF ConnTypeOK, PipeTypeOK, Pipe, Outputs
  <1>2. /\ \A p \in Pipe : inst[p] # "conn" => s2c[p] = <<>>
        /\ proc = "none" => \A p \in Outputs : s2c[p] = <<>>
        /\ pc \in {"mkin", "mkout", "mkerr"} => proc = "none"
        /\ ~discarded'
    BY DEF ConnInv, Loc, BeforeSpawn, Outputs
  <1> DEFINE Stays == \A p \in Outputs : s2c'[p] = s2c[p]
  <1>3. \A m : WriteFile("ctrl", m) => Stays
    BY <1>1 DEF WriteFile
  <1>4. \A m, l : hprintf(m, l) \/ ReadAndReply(m, l) => Stays
    BY <1>1, <1>3 DEF hprintf, ReadAndReply
  <1>5. \A call, l : Fails(call, l) => Stays
    BY <1>4 DEF Fails
  <1>6. UNCHANGED pipeVars \/ (\E p : ReadFile(p)) => Stays
    BY DEF pipeVars, ReadFile
  <1>7. \A p \in Pipe : Disconnect(p) => Stays
    BY <1>1, <1>2 DEF Disconnect, Flushed
  <1>8. \A p \in Pipe : CreateNamedPipe(p) /\ proc = "none" => Stays
    BY <1>1, <1>2 DEF CreateNamedPipe
  <1> SUFFICES Stays
    OBVIOUS
  <1> HIDE DEF Stays
  <1>9. CASE \/ HprintfReturn \/ Accept \/ AcceptFails \/ AcceptUnserved
             \/ HgetsFails \/ Unknown \/ cmd_get \/ cmd_set \/ cmd_run
    BY <1>1, <1>4, <1>6, <1>7, <1>9
    DEF HprintfReturn, Accept, AcceptFails, AcceptUnserved, HgetsFails, Unknown, cmd_get, cmd_set, cmd_run
  <1>10. CASE TokenLogon \/ TokenOpenProcess \/ TokenImpersonate \/ TokenDuplicate \/ TokenCloseTmp \/ TokenRevert
    BY <1>4, <1>5, <1>6, <1>10
    DEF TokenLogon, TokenOpenProcess, TokenImpersonate, TokenDuplicate, TokenCloseTmp, TokenRevert
  <1>11. CASE MakePipes
    BY <1>1, <1>2, <1>5, <1>8, <1>11 DEF MakePipes, MakePipe
  <1>12. CASE SendStdIoErr \/ ConnectPipes \/ Spawn \/ Watch
    BY <1>4, <1>5, <1>6, <1>12 DEF SendStdIoErr, ConnectPipes, ConnectPipe, Spawn, Watch
  <1>13. CASE WaitControl \/ WaitProcess \/ FlushOut \/ FlushErr \/ SendReturnCode \/ CloseToken
    BY <1>4, <1>6, <1>13 DEF WaitControl, WaitProcess, FlushOut, FlushErr, SendReturnCode, CloseToken
  <1>14. CASE Release \/ Finish
    BY <1>1, <1>7, <1>14 DEF Release, DisconnectPipe, ClosePipe, Finish
  <1> QED
    BY <1>9, <1>10, <1>11, <1>12, <1>13, <1>14 DEF ThreadNext

-----------------------------------------------------------------------------
\* Steps of the server.

\* The data of pipe p is read.
Hands(p) ==
    /\ inst[p] = "conn" /\ s2c[p] # <<>> /\ s2c' = [s2c EXCEPT ![p] = <<>>]
    /\ p \in parked /\ parked' = parked \ {p}
    /\ Answers(<<Answer("read", p, srvFnum[p], "ok", s2c[p])>>)
    /\ UNCHANGED <<inst, c2s, srvOpen, srvFnum, toSrv>>

\* The file is closed, or may be because the client cannot be reached.
Shut(p) == Took("close", p) \/ net # "up" \/ mode \in Gone

\* What may happen to pipe p, and what is told of it.
PipeMoves(p) ==
    /\ \/ inst'[p] = inst[p]
       \/ Took("open", p) /\ inst'[p] = "conn"
       \/ inst'[p] = "broken" /\ Shut(p)
    /\ \/ c2s'[p] = c2s[p]
       \/ Took("write", p) /\ Alive(1, "write", p) /\ c2s'[p] = c2s[p] \o Query.items
    /\ \/ s2c'[p] = s2c[p] \/ Hands(p)
       \/ s2c'[p] = <<>> /\ Shut(p)
    /\ inst'[p] = "conn" => p \in srvOpen' \/ (inst[p] = "conn" /\ p \notin srvOpen)

\* Whatever the server does, pipe p changes as PipeMoves says.
LEMMA ServerPipes ==
  ASSUME SessTypeOK, ServerNext, NEW p \in Pipe
  PROVE  PipeMoves(p)
  <1>1. /\ c2s \in [Pipe -> Seq(Line \union {Chunk})] /\ s2c \in [Pipe -> Seq(Message)]
        /\ inst \in [Pipe -> InstState] /\ toSrv \in Seq(Wired(account)) /\ parked \subseteq srvOpen /\ srvOpen \subseteq Pipe
    BY DEF SessTypeOK, ConnTypeOK, PipeTypeOK, ClientTypeOK, ServerTypeOK
  <1>2. /\ \A op : Serve(op) => Took(op, Query.pipe) /\ toSrv # <<>> /\ Query.op = op
        /\ toSrv # <<>> => Query.pipe \in Pipe /\ Query = toSrv[1] /\ 1 \in DOMAIN toSrv
    <2>1. toSrv # <<>> => Query.pipe \in Pipe
      BY QueryType DEF SessTypeOK
    <2>2. toSrv # <<>> => Query = toSrv[1] /\ 1 \in DOMAIN toSrv
      BY <1>1, TailElements DEF Query
    <2> QED BY <2>1, <2>2 DEF Serve, Took, Is
  <1>3. UNCHANGED <<pipeVars, srvOpen>> => PipeMoves(p)
    BY DEF pipeVars, PipeMoves
  <1>4. \A status : Refuse(status) => PipeMoves(p)
    BY <1>3 DEF Refuse, srvVars
  <1>5. CASE ServeOpen
    <2>1. ASSUME ClientOpen(Query.pipe), srvOpen' = srvOpen \union {Query.pipe}
          PROVE  PipeMoves(p)
      BY <1>1, <1>2, <1>5, <2>1 DEF ServeOpen, ClientOpen, PipeMoves
    <2> QED BY <1>4, <1>5, <2>1 DEF ServeOpen
  <1>6. CASE ServeWrite
    <2>1. ASSUME Valid, ClientWrite(Query.pipe, Query.items), UNCHANGED srvVars
          PROVE  PipeMoves(p)
      <3>1. CASE Query.pipe # p
        <4>1. c2s'[p] = c2s[p] /\ inst' = inst /\ s2c' = s2c /\ srvOpen' = srvOpen
          BY <1>1, <2>1, <3>1 DEF ClientWrite, srvVars
        <4> QED BY <4>1 DEF PipeMoves
      <3>2. CASE Query.pipe = p
        <4>1. c2s'[p] = c2s[p] \o Query.items /\ inst' = inst /\ s2c' = s2c /\ srvOpen' = srvOpen
          BY <1>1, <2>1, <3>2 DEF ClientWrite, srvVars
        <4>2. Took("write", p) /\ Alive(1, "write", p)
          BY <1>2, <1>6, <2>1, <3>2 DEF ServeWrite, Alive, Valid, Is, ClientWrite
        <4> QED BY <4>1, <4>2 DEF PipeMoves
      <3> QED BY <3>1, <3>2
    <2> QED BY <1>4, <1>6, <2>1 DEF ServeWrite
  <1>7. CASE ServeRead
    BY <1>3, <1>4, <1>7 DEF ServeRead
  <1>8. CASE AnswerRead
    <2>1. PICK q \in parked :
             /\ \/ ClientRead(q) /\ Answers(<<Answer("read", q, srvFnum[q], "ok", s2c[q])>>)
                \/ UNCHANGED pipeVars
             /\ parked' = parked \ {q}
      BY <1>8 DEF AnswerRead
    <2>2. UNCHANGED <<srvOpen, srvFnum, toSrv>>
      BY <1>8 DEF AnswerRead
    <2>3. CASE UNCHANGED pipeVars
      BY <1>3, <2>2, <2>3
    <2>4. CASE ClientRead(q) /\ Answers(<<Answer("read", q, srvFnum[q], "ok", s2c[q])>>)
      <3>1. q = p => Hands(p)
        BY <2>1, <2>2, <2>4 DEF ClientRead, Hands
      <3>2. q # p => s2c'[p] = s2c[p]
        BY <1>1, <2>1, <2>4 DEF ClientRead
      <3>3. inst' = inst /\ c2s' = c2s
        BY <2>4 DEF ClientRead
      <3> QED BY <2>2, <3>1, <3>2, <3>3 DEF PipeMoves
    <2> QED BY <2>1, <2>3, <2>4
  <1>9. CASE ServeClose
    <2>1. ASSUME Valid, srvOpen' = srvOpen \ {Query.pipe},
                 IF inst[Query.pipe] = "conn" THEN ClientClose(Query.pipe) ELSE UNCHANGED pipeVars
          PROVE  PipeMoves(p)
      <3>1. CASE Query.pipe = p /\ inst[p] = "conn"
        <4>1. inst'[p] = "broken" /\ s2c'[p] = <<>> /\ c2s'[p] = c2s[p]
          BY <1>1, <2>1, <3>1 DEF ClientClose
        <4>2. Shut(p)
          BY <1>2, <1>9, <3>1 DEF ServeClose, Shut
        <4> QED BY <4>1, <4>2 DEF PipeMoves
      <3>2. CASE Query.pipe = p /\ inst[p] # "conn"
        BY <2>1, <3>2 DEF PipeMoves, pipeVars
      <3>3. CASE Query.pipe # p
        <4>1. inst'[p] = inst[p] /\ s2c'[p] = s2c[p] /\ c2s' = c2s /\ (p \in srvOpen => p \in srvOpen')
          BY <1>1, <2>1, <3>3 DEF ClientClose, pipeVars
        <4> QED BY <4>1 DEF PipeMoves
      <3> QED BY <3>1, <3>2, <3>3
    <2> QED BY <1>4, <1>9, <2>1 DEF ServeClose
  <1>10. CASE Hangup
    <2>1. Shut(p)
      BY <1>10 DEF Hangup, Shut
    <2>2. /\ inst'[p] = IF p \in srvOpen /\ inst[p] = "conn" THEN "broken" ELSE inst[p]
          /\ s2c'[p] = IF p \in srvOpen THEN <<>> ELSE s2c[p]
          /\ c2s' = c2s
      BY <1>10 DEF Hangup, ClientVanish
    <2> QED BY <2>1, <2>2 DEF PipeMoves
  <1> QED BY <1>5, <1>6, <1>7, <1>8, <1>9, <1>10 DEF ServerNext

\* Replies stay, and new ones follow them.
Longer == \A i \in DOMAIN toCli : i \in DOMAIN toCli' /\ toCli'[i] = toCli[i]
\* Answers are put behind the replies that are on the wire.
LEMMA AnswersLonger ==
  ASSUME ClientTypeOK, NEW rs \in Seq(Replied), Answers(rs)
  PROVE  /\ Longer
         /\ \A i \in DOMAIN toCli' \ DOMAIN toCli :
               /\ net = "up" /\ mode \notin Gone
               /\ \E j \in DOMAIN rs : toCli'[i] = rs[j] /\ i = Len(toCli) + j
         /\ net = "up" /\ mode \notin Gone => toCli' = toCli \o rs
  <1>1. toCli \in Seq(Replied)
    BY DEF ClientTypeOK
  <1>2. CASE toCli' = toCli
    BY <1>1, <1>2 DEF Longer, Answers
  <1>3. CASE toCli' = toCli \o rs /\ net = "up" /\ mode \notin Gone
    <2>1. /\ DOMAIN (toCli \o rs) = 1..(Len(toCli) + Len(rs)) /\ DOMAIN toCli = 1..Len(toCli)
          /\ Len(toCli) \in Nat /\ Len(rs) \in Nat
          /\ \A i \in 1..(Len(toCli) + Len(rs)) :
                (toCli \o rs)[i] = IF i <= Len(toCli) THEN toCli[i] ELSE rs[i - Len(toCli)]
      BY <1>1, ConcatElements
    <2>2. \A i \in DOMAIN (toCli \o rs) : i \in DOMAIN toCli \/
             (i - Len(toCli) \in DOMAIN rs /\ i = Len(toCli) + (i - Len(toCli)) /\ (toCli \o rs)[i] = rs[i - Len(toCli)])
      BY <1>1, ConcatSplit
    <2>3. Longer
      BY <1>3, <2>1 DEF Longer
    <2> QED BY <1>3, <2>2, <2>3
  <1>4. net = "up" /\ mode \notin Gone => toCli' = toCli \o rs
    BY DEF Answers
  <1>5. toCli' = toCli \/ (toCli' = toCli \o rs /\ net = "up" /\ mode \notin Gone)
    BY DEF Answers
  <1> QED BY <1>2, <1>3, <1>4, <1>5

\* A reply with data comes from the pipe.
LEMMA ServerReplies ==
  ASSUME SessTypeOK, ServerNext
  PROVE  /\ Longer
         /\ \A i \in DOMAIN toCli' \ DOMAIN toCli, p \in Pipe :
               Good(i, "read", p)' => /\ Hands(p) /\ toCli'[i].data = s2c[p] /\ i = Len(toCli) + 1
                                      /\ net = "up" /\ mode \notin Gone
  <1>1. ClientTypeOK /\ s2c \in [Pipe -> Seq(Message)] /\ parked \subseteq Pipe
    BY DEF SessTypeOK, ConnTypeOK, PipeTypeOK, ServerTypeOK
  <1>2. PICK rs : Served(rs)
    BY ServerServes
  <1>3. rs \in Seq(Replied) /\ Answers(rs)
    BY <1>2 DEF Served
  <1>4. Longer
    BY <1>1, <1>3, AnswersLonger
  <1> SUFFICES ASSUME NEW i \in DOMAIN toCli' \ DOMAIN toCli, NEW p \in Pipe, Good(i, "read", p)'
               PROVE  /\ Hands(p) /\ toCli'[i].data = s2c[p] /\ i = Len(toCli) + 1
                      /\ net = "up" /\ mode \notin Gone
    BY <1>4
  <1>5. toCli'[i].op = "read" /\ toCli'[i].pipe = p /\ toCli'[i].status = "ok"
    BY DEF Good, Is
  <1>6. toCli' # toCli
    OBVIOUS
  <1>7. ASSUME NEW r \in Replied, Answers(<<r>>)
        PROVE  toCli'[i] = r /\ i = Len(toCli) + 1 /\ net = "up" /\ mode \notin Gone
    <2>1. <<r>> \in Seq(Replied) /\ DOMAIN <<r>> = {1} /\ <<r>>[1] = r
      OBVIOUS
    <2> QED BY <1>1, <1>7, <2>1, AnswersLonger
  <1>8. \A op \in ReqOp, f \in Nat, q \in Pipe, status \in {"notfound", "invalid", "broken", "cancelled"} :
           status # "notfound" \/ op = "open" => ~Answers(<<Answer(op, q, f, status, <<>>)>>)
    <2>1. SUFFICES ASSUME NEW op \in ReqOp, NEW f \in Nat, NEW q \in Pipe,
                          NEW status \in {"notfound", "invalid", "broken", "cancelled"},
                          status # "notfound" \/ op = "open", Answers(<<Answer(op, q, f, status, <<>>)>>)
                   PROVE  FALSE
      OBVIOUS
    <2>2. Answer(op, q, f, status, <<>>) \in Replied
      BY <2>1, AnswerType
    <2>3. toCli'[i].status = status
      BY <1>7, <2>1, <2>2 DEF Answer
    <2> QED BY <1>5, <2>3
  <1>9. \A op \in {"open", "write", "close"}, f \in Nat, q \in Pipe : ~Answers(<<Answer(op, q, f, "ok", <<>>)>>)
    <2>1. SUFFICES ASSUME NEW op \in {"open", "write", "close"}, NEW f \in Nat, NEW q \in Pipe,
                          Answers(<<Answer(op, q, f, "ok", <<>>)>>)
                   PROVE  FALSE
      OBVIOUS
    <2>2. Answer(op, q, f, "ok", <<>>) \in Replied
      BY <2>1, AnswerType DEF ReqOp
    <2>3. toCli'[i].op = op
      BY <1>7, <2>1, <2>2 DEF Answer
    <2> QED BY <1>5, <2>3
  <1>10. toSrv # <<>> => Query.pipe \in Pipe /\ Query.fnum \in Nat /\ srvFnum[Query.pipe] \in Nat
    BY <1>1, QueryType DEF SessTypeOK, ServerTypeOK
  <1>11. \A op \in ReqOp, status \in {"notfound", "invalid", "broken"} :
            Serve(op) /\ (status # "notfound" \/ op = "open") => ~Refuse(status)
    BY <1>8, <1>10 DEF Serve, Refuse, Result
  <1>12. CASE ServeOpen
    BY <1>9, <1>10, <1>11, <1>12 DEF ServeOpen, Serve, ReqOp
  <1>13. CASE ServeWrite
    BY <1>9, <1>10, <1>11, <1>13 DEF ServeWrite, Serve, ReqOp, Result
  <1>14. CASE ServeRead
    BY <1>6, <1>11, <1>14 DEF ServeRead, ReqOp
  <1>15. CASE AnswerRead
    <2>1. PICK q \in parked :
             /\ \/ ClientRead(q) /\ Answers(<<Answer("read", q, srvFnum[q], "ok", s2c[q])>>)
                \/ inst[q] # "conn" /\ Answers(<<Answer("read", q, srvFnum[q], "broken", <<>>)>>)
             /\ parked' = parked \ {q}
      BY <1>15 DEF AnswerRead
    <2>2. q \in Pipe /\ srvFnum[q] \in Nat /\ s2c[q] \in Seq(Message)
      BY <1>1 DEF SessTypeOK, ServerTypeOK
    <2>3. ClientRead(q) /\ Answers(<<Answer("read", q, srvFnum[q], "ok", s2c[q])>>)
      BY <1>8, <2>1, <2>2 DEF ReqOp
    <2>4. Answer("read", q, srvFnum[q], "ok", s2c[q]) \in Replied
      BY <2>2, <2>3, AnswerType DEF ReqOp, ClientRead
    <2>5. toCli'[i] = Answer("read", q, srvFnum[q], "ok", s2c[q]) /\ i = Len(toCli) + 1 /\ net = "up" /\ mode \notin Gone
      BY <1>7, <2>3, <2>4
    <2>6. q = p /\ toCli'[i].data = s2c[p]
      BY <1>5, <2>5 DEF Answer
    <2>7. Hands(p)
      BY <1>15, <2>1, <2>3, <2>6 DEF AnswerRead, ClientRead, Hands
    <2> QED BY <2>5, <2>6, <2>7
  <1>16. CASE ServeClose
    <2>1. Valid
      BY <1>11, <1>16 DEF ServeClose, ReqOp
    <2> DEFINE x == Answer("read", Query.pipe, Query.fnum, "cancelled", <<>>)
               y == Answer("close", Query.pipe, Query.fnum, "ok", <<>>)
               b == Query.pipe \in parked
    <2>2. x \in Replied /\ y \in Replied /\ x.status # "ok" /\ y.op # "read"
      <3>1. toSrv # <<>> /\ Query.pipe \in Pipe /\ Query.fnum \in Nat
        BY <1>10, <1>16 DEF ServeClose, Serve
      <3> QED BY <3>1, AnswerType DEF ReqOp, Answer
    <2>3. Answers((IF b THEN <<x>> ELSE <<>>) \o <<y>>)
      BY <1>16, <2>1 DEF ServeClose
    <2> HIDE DEF x, y, b
    <2>4. b \in BOOLEAN
      BY DEF b
    <2>5. /\ (IF b THEN <<x>> ELSE <<>>) \o <<y>> \in Seq(Replied)
          /\ \A k \in DOMAIN ((IF b THEN <<x>> ELSE <<>>) \o <<y>>) : ((IF b THEN <<x>> ELSE <<>>) \o <<y>>)[k] \in {x, y}
      BY <2>2, <2>4, CloseAnswers
    <2>6. toCli'[i] \in {x, y}
      BY <1>1, <2>3, <2>5, AnswersLonger
    <2> QED BY <1>5, <2>2, <2>6
  <1>17. CASE Hangup
    BY <1>6, <1>17 DEF Hangup
  <1> QED BY <1>12, <1>13, <1>14, <1>15, <1>16, <1>17 DEF ServerNext

-----------------------------------------------------------------------------
\* The version is asked for once.

\* Requests that are carried out leave the others as they were.
LEMMA ServedQueries ==
  ASSUME SessTypeOK, NumberInv, ServerNext
  PROVE  /\ NoneQueries => NoneQueries'
         /\ (\A i, j \in DOMAIN toSrv : Queries(i) /\ Queries(j) => i = j) =>
              /\ \A i, j \in DOMAIN toSrv' : Queries(i)' /\ Queries(j)' => i = j
              /\ toSrv # <<>> /\ toSrv' = Tail(toSrv) /\ Queries(1) => NoneQueries'
  <1>1. /\ toSrv \in Seq(Wired(account)) /\ "ctrl" \in Pipe /\ srvFnum["ctrl"] \in Nat
        /\ \A i \in DOMAIN toSrv : toSrv[i].fnum <= srvFnum[toSrv[i].pipe]
    BY DEF SessTypeOK, ClientTypeOK, ServerTypeOK, NumberInv, Pipe
  <1>2. PICK rs : Served(rs)
    BY ServerServes
  <1>3. /\ toSrv' = toSrv \/ (toSrv # <<>> /\ toSrv' = Tail(toSrv))
        /\ \/ /\ srvFnum'["ctrl"] = srvFnum["ctrl"] /\ ("ctrl" \in srvOpen' => "ctrl" \in srvOpen)
              /\ inst'["ctrl"] = "conn" => inst["ctrl"] = "conn"
           \/ srvFnum'["ctrl"] = srvFnum["ctrl"] + 1
    BY <1>1, <1>2 DEF Served, Settles
  <1>4. ASSUME NEW i \in DOMAIN toSrv', NEW k \in DOMAIN toSrv, toSrv'[i] = toSrv[k], Queries(i)'
        PROVE  Queries(k)
    <2>1. Is(toSrv[k], "write", "ctrl") /\ toSrv[k].fnum = srvFnum'["ctrl"] /\ toSrv[k].items = GetVersion
          /\ "ctrl" \in srvOpen' /\ inst'["ctrl"] = "conn"
      BY <1>4 DEF Queries, Alive
    <2>2. toSrv[k].pipe = "ctrl" /\ toSrv[k].fnum <= srvFnum["ctrl"]
      BY <1>1, <2>1 DEF Is
    <2>3. srvFnum'["ctrl"] # srvFnum["ctrl"] + 1
      BY <1>1, <2>1, <2>2
    <2> QED BY <1>3, <2>1, <2>3 DEF Queries, Alive
  <1>5. CASE toSrv' = toSrv
    <2>1. \A i \in DOMAIN toSrv' : Queries(i)' => Queries(i)
      BY <1>4, <1>5
    <2>2. ~(toSrv # <<>> /\ toSrv' = Tail(toSrv))
      <3>1. toSrv # <<>> => Len(Tail(toSrv)) # Len(toSrv)
        BY <1>1, TailElements
      <3> QED BY <1>5, <3>1
    <2> QED BY <1>5, <2>1, <2>2 DEF NoneQueries
  <1>6. CASE toSrv # <<>> /\ toSrv' = Tail(toSrv)
    <2>1. /\ \A i \in DOMAIN toSrv' : i \in Nat /\ i + 1 # 1 /\ i + 1 \in DOMAIN toSrv /\ toSrv'[i] = toSrv[i + 1]
          /\ 1 \in DOMAIN toSrv
      BY <1>1, <1>6, TailElements
    <2>2. \A i \in DOMAIN toSrv' : Queries(i)' => Queries(i + 1)
      BY <1>4, <2>1
    <2>3. \A i, j \in DOMAIN toSrv' : i + 1 = j + 1 => i = j
      BY <2>1
    <2> QED BY <2>1, <2>2, <2>3 DEF NoneQueries
  <1> QED BY <1>3, <1>5, <1>6

\* The server keeps it one version that is asked for.
LEMMA ServerAsk ==
  ASSUME SessTypeOK, NumberInv, AskInv, Up, ServerNext
  PROVE  AskInv'
  <1>1. /\ toSrv \in Seq(Wired(account)) /\ "ctrl" \in Pipe /\ c2s["ctrl"] \in Seq(Line \union {Chunk})
        /\ account \in Asked
    BY DEF SessTypeOK, ConnTypeOK, PipeTypeOK, ClientTypeOK, Pipe
  <1>2. UNCHANGED <<mode, net, state>>
    BY DEF ServerNext, stateVars
  <1> DEFINE Once == \A i, j \in DOMAIN toSrv : Queries(i) /\ Queries(j) => i = j
  <1>3. /\ NoneQueries => NoneQueries'
        /\ Once => Once'
        /\ Once /\ toSrv # <<>> /\ toSrv' = Tail(toSrv) /\ Queries(1) => NoneQueries'
    BY ServedQueries
  <1>4. PipeMoves("ctrl")
    BY <1>1, ServerPipes
  <1>5. s2c'["ctrl"] \in {s2c["ctrl"], <<>>}
    BY ServerWrites
  <1>6. ~Mentions(s2c["ctrl"], "version") => ~Mentions(s2c'["ctrl"], "version")
    BY <1>5, NothingMentioned
  <1>7. ASSUME NoneVersion, ~NoneVersion'
        PROVE  Mentions(s2c["ctrl"], "version") /\ ~Mentions(s2c'["ctrl"], "version") /\ c2s' = c2s
    <2>1. PICK i \in DOMAIN toCli' : Versioned(i)'
      BY <1>7 DEF NoneVersion
    <2>2. Longer /\ (i \in DOMAIN toCli' \ DOMAIN toCli /\ Good(i, "read", "ctrl")' => Hands("ctrl") /\ toCli'[i].data = s2c["ctrl"])
      BY <1>1, ServerReplies
    <2>3. i \notin DOMAIN toCli
      <3>1. i \in DOMAIN toCli => Versioned(i)
        BY <2>1, <2>2 DEF Longer, Versioned, Fetched
      <3> QED BY <1>7, <3>1 DEF NoneVersion
    <2>4. Good(i, "read", "ctrl")' /\ Mentions(toCli'[i].data, "version")
      BY <2>1 DEF Versioned, Fetched, OnCtrl, Good, Is
    <2>5. Hands("ctrl") /\ toCli'[i].data = s2c["ctrl"]
      BY <2>2, <2>3, <2>4
    <2>6. s2c'["ctrl"] = <<>> /\ c2s' = c2s
      BY <1>1, <2>5 DEF Hands, SessTypeOK, ConnTypeOK, PipeTypeOK
    <2> QED BY <2>4, <2>5, <2>6, NothingMentioned
  <1>8. \/ c2s'["ctrl"] = c2s["ctrl"]
        \/ /\ Free(c2s["ctrl"], "get") => Free(c2s'["ctrl"], "get")
           /\ Single(c2s["ctrl"], "get") => Single(c2s'["ctrl"], "get")
        \/ /\ Queries(1) /\ 1 \in DOMAIN toSrv /\ toSrv # <<>> /\ toSrv' = Tail(toSrv)
           /\ Free(c2s["ctrl"], "get") => Single(c2s'["ctrl"], "get")
    <2> SUFFICES ASSUME Took("write", "ctrl"), Alive(1, "write", "ctrl"), c2s'["ctrl"] = c2s["ctrl"] \o Query.items
                 PROVE  \/ /\ Free(c2s["ctrl"], "get") => Free(c2s'["ctrl"], "get")
                           /\ Single(c2s["ctrl"], "get") => Single(c2s'["ctrl"], "get")
                        \/ /\ Queries(1) /\ 1 \in DOMAIN toSrv /\ toSrv # <<>> /\ toSrv' = Tail(toSrv)
                           /\ Free(c2s["ctrl"], "get") => Single(c2s'["ctrl"], "get")
      BY <1>4 DEF PipeMoves
    <2>1. 1 \in DOMAIN toSrv /\ Query = toSrv[1] /\ toSrv[1] \in Wired(account) /\ toSrv # <<>> /\ toSrv' = Tail(toSrv)
          /\ Is(toSrv[1], "write", "ctrl")
      BY TookHead DEF SessTypeOK, Took
    <2>2. Query.items \in {GetVersion, Abort, RunCommandOf(account)}
      BY <2>1 DEF Wired, Is
    <2>3. Query.items \in Seq(Line \union {Chunk})
      <3>1. Query.items \in Writes
        BY <1>1, <2>2, SessionAssumption DEF SessionAssumption
      <3> QED BY <3>1, WritesAreItems
    <2>4. CASE Query.items = GetVersion
      BY <1>1, <2>1, <2>3, <2>4, LinesMore, OwnLines DEF Queries
    <2>5. CASE Query.items # GetVersion
      <3>1. Free(Query.items, "get")
        BY <2>2, <2>5, OwnLines
      <3> QED BY <1>1, <2>3, <3>1, LinesMore
    <2> QED BY <2>4, <2>5
  <1>9. QuietVersion => QuietVersion'
    BY <1>3, <1>6, <1>8 DEF QuietVersion, NoneQueries
  <1>10. ASSUME OneVersion PROVE OneVersion'
    <2>1. CASE ~NoneQueries
      <3>1. Free(c2s["ctrl"], "get") /\ ~Mentions(s2c["ctrl"], "version") /\ NoneVersion /\ Once
        BY <1>10, <2>1 DEF OneVersion
      <3>2. ~Mentions(s2c'["ctrl"], "version") /\ NoneVersion' /\ Once'
        BY <1>3, <1>6, <1>7, <3>1
      <3>3. /\ Single(c2s'["ctrl"], "get")
            /\ Free(c2s'["ctrl"], "get") \/ NoneQueries'
        BY <1>3, <1>8, <1>10, <3>1 DEF OneVersion
      <3> QED BY <3>2, <3>3 DEF OneVersion
    <2>2. CASE NoneQueries
      <3>2. NoneQueries' /\ Once'
        BY <1>3, <1>10, <2>2 DEF OneVersion
      <3>3. (Free(c2s["ctrl"], "get") => Free(c2s'["ctrl"], "get")) /\ Single(c2s'["ctrl"], "get")
        BY <1>8, <1>10, <2>2 DEF OneVersion, NoneQueries
      <3>4. CASE Mentions(s2c["ctrl"], "version")
        <4>1. Free(c2s["ctrl"], "get") /\ NoneVersion
          BY <1>10, <3>4 DEF OneVersion
        <4>2. ~Mentions(s2c'["ctrl"], "version") \/ NoneVersion'
          BY <1>7, <4>1
        <4> QED BY <3>2, <3>3, <4>1, <4>2 DEF OneVersion
      <3>5. CASE ~Mentions(s2c["ctrl"], "version")
        <4>1. NoneVersion => NoneVersion'
          BY <1>7, <3>5
        <4> QED BY <1>6, <1>10, <3>2, <3>3, <3>5, <4>1 DEF OneVersion
      <3> QED BY <3>4, <3>5
    <2> QED BY <2>1, <2>2
  <1>11. QuietVersion /\ NoneVersion => NoneVersion'
    BY <1>7 DEF QuietVersion
  <1> QED BY <1>2, <1>9, <1>10, <1>11 DEF AskInv, Up

-----------------------------------------------------------------------------
\* The control pipe stays open, and the command is the last that is written.

\* The request that is taken off the wire tells which step it is.
LEMMA TookServes ==
  ASSUME ClientTypeOK, ServerNext, NEW op, NEW p, Took(op, p)
  PROVE  /\ op = "open" => ServeOpen
         /\ op = "write" => ServeWrite
         /\ op = "read" => ServeRead
         /\ op = "close" => ServeClose
         /\ op \in ReqOp
  <1>1. Query.op = op /\ toSrv' # toSrv
    <2>1. toSrv # <<>> /\ toSrv' = Tail(toSrv) /\ Query.op = op /\ toSrv \in Seq(Wired(account))
      BY DEF Took, Is, ClientTypeOK
    <2>2. Len(Tail(toSrv)) # Len(toSrv)
      BY <2>1, TailElements
    <2> QED BY <2>1, <2>2
  <1>2. ~AnswerRead /\ ~Hangup
    BY <1>1 DEF AnswerRead, Hangup
  <1> QED BY <1>1, <1>2 DEF ServerNext, ServeOpen, ServeWrite, ServeRead, ServeClose, Serve, ReqOp

\* The answer of a step that gives one.
LEMMA AnsweredOne ==
  ASSUME ClientTypeOK, NEW r \in Replied, Answers(<<r>>), NEW i \in DOMAIN toCli' \ DOMAIN toCli
  PROVE  toCli'[i] = r /\ i = Len(toCli) + 1 /\ net = "up" /\ mode \notin Gone
  <1>1. <<r>> \in Seq(Replied) /\ DOMAIN <<r>> = {1} /\ <<r>>[1] = r
    OBVIOUS
  <1> QED BY <1>1, AnswersLonger

\* A pipe that is told to be open has been opened.
LEMMA ServerOpens ==
  ASSUME SessTypeOK, ServerNext, NEW p \in Pipe, NEW i \in DOMAIN toCli' \ DOMAIN toCli,
         Is(toCli'[i], "open", p), toCli'[i].status = "ok"
  PROVE  inst'[p] = "conn"
  <1>1. ClientTypeOK /\ inst \in [Pipe -> InstState]
    BY DEF SessTypeOK, ConnTypeOK, PipeTypeOK
  <1>2. PICK rs : Served(rs)
    BY ServerServes
  <1>3. PICK j \in DOMAIN rs : toCli'[i] = rs[j]
    BY <1>1, <1>2, ServedReply
  <1>4. Took("open", p)
    BY <1>2, <1>3 DEF Served, Due, Is
  <1>5. ServeOpen
    BY <1>1, <1>4, TookServes
  <1>6. toSrv # <<>> /\ Query.pipe = p /\ Query.fnum \in Nat
    BY <1>1, <1>4, QueryType DEF Took, Is
  <1>7. Answer("open", p, Query.fnum, "notfound", <<>>) \in Replied
    BY <1>6, AnswerType DEF ReqOp
  <1>8. ~Refuse("notfound")
    <2>1. SUFFICES ASSUME Refuse("notfound") PROVE FALSE
      OBVIOUS
    <2>2. Answers(<<Answer("open", p, Query.fnum, "notfound", <<>>)>>)
      BY <1>4, <1>6, <2>1 DEF Refuse, Result, Took, Is
    <2>3. toCli'[i] = Answer("open", p, Query.fnum, "notfound", <<>>)
      BY <1>1, <1>7, <2>2, AnsweredOne
    <2> QED BY <2>3 DEF Answer
  <1> QED BY <1>1, <1>5, <1>6, <1>8 DEF ServeOpen, ClientOpen

\* The server neither starts the process nor connects a pipe that it has not opened.
LEMMA ServerIdle ==
  ASSUME SessTypeOK, IdleInv, ServerNext
  PROVE  IdleInv'
  <1>1. UNCHANGED <<state, proc, pcode>>
    BY DEF ServerNext, stateVars, threadVars
  <1>2. ASSUME NEW p \in Pipe, inst'[p] = "conn" PROVE p \in srvOpen'
    BY <1>2, ServerPipes DEF PipeMoves, IdleInv
  <1> QED BY <1>1, <1>2 DEF IdleInv

\* The server leaves the control pipe to the thread while the client stays.
LEMMA ServerHeld ==
  ASSUME SessTypeOK, Stored, HeldInv, Up, ServerNext
  PROVE  HeldInv'
  <1>1. /\ ClientTypeOK /\ "ctrl" \in Pipe /\ UNCHANGED <<mode, net, state, pc, cont>>
        /\ mode \notin Gone /\ net = "up" /\ toSrv \in Seq(Wired(account))
    BY DEF ServerNext, stateVars, threadVars, SessTypeOK, Pipe, Up, Staying, Gone, ClientTypeOK
  <1>2. PipeMoves("ctrl")
    BY <1>1, ServerPipes
  <1>3. Took("close", "ctrl") => ~NoneOf(toSrv, "close", "ctrl")
    BY <1>1, TookHead
  <1>4. Held /\ ~Took("close", "ctrl") => Held'
    BY <1>1, <1>2 DEF PipeMoves, Held, Loc, Shut
  <1>5. ASSUME NEW i \in DOMAIN toCli', Is(toCli'[i], "open", "ctrl"), toCli'[i].status = "ok"
        PROVE  Held'
    <2>1. CASE i \notin DOMAIN toCli
      BY <1>1, <1>5, <2>1, ServerOpens DEF Held
    <2>2. CASE i \in DOMAIN toCli
      <3>1. toCli'[i] = toCli[i]
        BY <2>2, ServerReplies DEF Longer
      <3>2. NoneOf(toSrv, "close", "ctrl")
        BY <1>1, <1>5, <2>2, <3>1 DEF Stored, CloseInv, NoneUnderway, NoneOf
      <3> QED BY <1>3, <1>4, <1>5, <2>2, <3>1, <3>2 DEF HeldInv
    <2> QED BY <2>1, <2>2
  <1>6. state = "GETTING_VERSION" => Held'
    BY <1>1, <1>3, <1>4 DEF Stored, RoundInv, HeldInv
  <1> QED BY <1>1, <1>5, <1>6 DEF HeldInv

\* The server writes nothing behind the command that the client did not send.
LEMMA ServerLine ==
  ASSUME SessTypeOK, LineInv, ServerNext
  PROVE  LineInv'
  <1>1. UNCHANGED <<state, abortSent, net, mode, account, pc, cont, ovl>>
    BY DEF ServerNext, stateVars, sigVars, threadVars
  <1> SUFFICES ASSUME state = "RUNNING", ~Cut PROVE LineInv'
    BY <1>1 DEF LineInv, Cut
  <1>2. /\ ClientTypeOK /\ "ctrl" \in Pipe /\ toSrv \in Seq(Wired(account)) /\ account \in Asked
        /\ c2s["ctrl"] \in Seq(Line \union {Chunk})
    BY DEF SessTypeOK, Pipe, ClientTypeOK, ConnTypeOK, PipeTypeOK
  <1>3. /\ Held /\ NoneOf(toSrv, "close", "ctrl")
        /\ LastOnly(c2s["ctrl"], "run")
        /\ Free(c2s["ctrl"], "run") \/ NoneWritten
        /\ \A i, j \in DOMAIN toSrv :
              Is(toSrv[i], "write", "ctrl") /\ toSrv[i].items = RunCommandOf(account) /\ Is(toSrv[j], "write", "ctrl")
                => j <= i
        /\ Loc \notin Early => c2s["ctrl"] = <<>> /\ NoneWritten
        /\ pc = "wait" => ovl = "pending"
    BY DEF LineInv
  <1>4. PipeMoves("ctrl")
    BY <1>2, ServerPipes
  <1>5. PICK rs : Served(rs)
    BY ServerServes
  <1>6. /\ NoneOf(toSrv, "close", "ctrl") => NoneOf(toSrv', "close", "ctrl")
        /\ NoneWritten => NoneWritten'
    BY <1>2, <1>5, ServedOf DEF NoneWritten
  <1>7. Held'
    <2>1. ~Took("close", "ctrl")
      BY <1>2, <1>3, TookHead
    <2> QED BY <1>1, <1>3, <1>4, <2>1 DEF PipeMoves, Held, Loc, Shut, Cut
  <1>8. ASSUME NEW i \in DOMAIN toSrv', NEW j \in DOMAIN toSrv',
               Is(toSrv'[i], "write", "ctrl"), toSrv'[i].items = RunCommandOf(account), Is(toSrv'[j], "write", "ctrl")
        PROVE  j <= i
    <2>1. CASE toSrv' = toSrv
      BY <1>3, <1>8, <2>1
    <2>2. CASE toSrv # <<>> /\ toSrv' = Tail(toSrv)
      <3>1. /\ i \in Nat /\ i + 1 \in DOMAIN toSrv /\ toSrv'[i] = toSrv[i + 1]
            /\ j \in Nat /\ j + 1 \in DOMAIN toSrv /\ toSrv'[j] = toSrv[j + 1]
        BY <1>2, <2>2, TailElements
      <3>2. j + 1 <= i + 1
        BY <1>3, <1>8, <3>1
      <3> QED BY <3>1, <3>2
    <2> QED BY <1>5, <2>1, <2>2 DEF Served, Settles
  <1>9. CASE c2s'["ctrl"] = c2s["ctrl"]
    BY <1>1, <1>3, <1>6, <1>7, <1>8, <1>9 DEF LineInv, Loc
  <1>10. ASSUME Took("write", "ctrl"), c2s'["ctrl"] = c2s["ctrl"] \o Query.items
         PROVE  LineInv'
    <2>1. 1 \in DOMAIN toSrv /\ Query = toSrv[1] /\ toSrv[1] \in Wired(account) /\ toSrv # <<>> /\ toSrv' = Tail(toSrv)
          /\ Is(toSrv[1], "write", "ctrl")
      BY <1>2, <1>10, TookHead DEF Took
    <2>2. Query.items \in {GetVersion, Abort, RunCommandOf(account)}
      BY <2>1 DEF Wired, Is
    <2>3. Query.items \in Seq(Line \union {Chunk})
      <3>1. Query.items \in Writes
        BY <1>2, <2>2, SessionAssumption DEF SessionAssumption
      <3> QED BY <3>1, WritesAreItems
    <2>4. ~NoneWritten /\ Free(c2s["ctrl"], "run") /\ Loc \in Early
      BY <1>3, <2>1 DEF NoneWritten, NoneOf
    <2>5. LastOnly(c2s'["ctrl"], "run")
      <3>1. LastOnly(Query.items, "run")
        BY <2>2, OwnLines DEF Free, LastOnly
      <3> QED BY <1>2, <1>10, <2>3, <2>4, <3>1, LinesMore
    <2>6. Free(c2s'["ctrl"], "run") \/ NoneWritten'
      <3>1. CASE Query.items = RunCommandOf(account)
        <4>1. ASSUME NEW i \in DOMAIN toSrv', Is(toSrv'[i], "write", "ctrl") PROVE FALSE
          <5>1. i \in Nat /\ i + 1 \in DOMAIN toSrv /\ toSrv'[i] = toSrv[i + 1] /\ DOMAIN toSrv' = 1..(Len(toSrv) - 1)
            BY <1>2, <2>1, <4>1, TailElements
          <5>2. i + 1 <= 1
            BY <1>3, <2>1, <3>1, <4>1, <5>1
          <5> QED BY <4>1, <5>1, <5>2
        <4> QED BY <4>1 DEF NoneWritten, NoneOf
      <3>2. CASE Query.items # RunCommandOf(account)
        <4>1. Free(Query.items, "run")
          BY <2>2, <3>2, OwnLines
        <4> QED BY <1>2, <1>10, <2>3, <2>4, <4>1, LinesMore
      <3> QED BY <3>1, <3>2
    <2> QED BY <1>1, <1>3, <1>6, <1>7, <1>8, <2>4, <2>5, <2>6 DEF LineInv, Loc
  <1> QED BY <1>4, <1>9, <1>10 DEF PipeMoves

-----------------------------------------------------------------------------
\* Steps of the connection thread.

\* The thread starts the process only when it has read the command.
LEMMA ThreadIdle ==
  ASSUME SessTypeOK, ServiceInv, LaunchInv, IdleInv, ThreadStep
  PROVE  IdleInv'
  <1>1. /\ ThreadNext /\ UNCHANGED <<state, srvOpen>> /\ PipeTypeOK /\ ThreadTypeOK
        /\ cont \notin Ending \union {"flush", "wait"}
    BY DEF ThreadStep, clientVars, stateVars, srvVars, SessTypeOK, ConnTypeOK, ServiceInv, ConnInv, Ending
  <1>2. \A p \in Pipe : inst'[p] = "conn" => inst[p] = "conn"
    BY <1>1, ThreadTells
  <1>3. state # "RUNNING" => pc # "spawn" /\ pc # "wait"
    BY DEF LaunchInv, Loc
  <1>4. \/ UNCHANGED <<proc, pcode>>
        \/ pc \in {"spawn", "wait"} /\ proc' # "none"
    BY <1>1, ThreadEnds
  <1> QED BY <1>1, <1>2, <1>3, <1>4 DEF IdleInv

\* The thread answers the version once for each time it was asked.
LEMMA ThreadAsk ==
  ASSUME SessTypeOK, ServiceInv, AskInv, Up, ThreadStep
  PROVE  AskInv'
  <1>1. /\ cont \notin {"flush", "wait"} /\ ThreadNext /\ UNCHANGED <<state, mode, net, toSrv, toCli, srvOpen, srvFnum>>
        /\ PipeTypeOK /\ ThreadTypeOK /\ "ctrl" \in Pipe /\ c2s["ctrl"] \in Seq(Line \union {Chunk})
        /\ s2c["ctrl"] \in Seq(Message)
    BY DEF ThreadStep, clientVars, stateVars, reqVars, srvVars, SessTypeOK, ConnTypeOK, PipeTypeOK, Pipe,
           ServiceInv, ConnInv
  <1>2. \A p \in Pipe : inst'[p] = "conn" => inst[p] = "conn"
    BY <1>1, ThreadTells
  <1>3. /\ NoneQueries => NoneQueries'
        /\ \A i \in DOMAIN toSrv' : Queries(i)' => Queries(i)
    BY <1>1, <1>2 DEF NoneQueries, Queries, Alive
  <1>4. NoneVersion <=> NoneVersion'
    BY <1>1 DEF NoneVersion, Versioned, Fetched
  <1>5. /\ Free(c2s["ctrl"], "get") => Free(c2s'["ctrl"], "get")
        /\ Single(c2s["ctrl"], "get") => Single(c2s'["ctrl"], "get")
    <2>1. CASE c2s["ctrl"] # <<>> /\ c2s'["ctrl"] = Tail(c2s["ctrl"])
      BY <1>1, <2>1, LinesTail
    <2>2. CASE c2s'["ctrl"] \in {c2s["ctrl"], <<>>}
      BY <2>2, NothingMentioned
    <2> QED BY <1>1, <2>1, <2>2, ThreadReads
  <1>6. \/ ~Mentions(s2c["ctrl"], "version") => ~Mentions(s2c'["ctrl"], "version")
        \/ NextLine("get") /\ c2s'["ctrl"] = Tail(c2s["ctrl"])
    <2>1. CASE s2c'["ctrl"] \in {s2c["ctrl"], <<>>}
      BY <2>1, NothingMentioned
    <2>2. ASSUME NEW m \in Message, s2c'["ctrl"] = Append(s2c["ctrl"], m),
                 m.type = "version" => NextLine("get") /\ c2s'["ctrl"] = Tail(c2s["ctrl"])
          PROVE  \/ ~Mentions(s2c["ctrl"], "version") => ~Mentions(s2c'["ctrl"], "version")
                 \/ NextLine("get") /\ c2s'["ctrl"] = Tail(c2s["ctrl"])
      BY <1>1, <2>2, MentionsMore
    <2> QED BY <1>1, <2>1, <2>2, ThreadAnswers
  <1>7. NextLine("get") => ~Free(c2s["ctrl"], "get")
    BY <1>1, LinesTail DEF NextLine
  <1>8. NextLine("get") /\ c2s'["ctrl"] = Tail(c2s["ctrl"]) /\ Single(c2s["ctrl"], "get") => Free(c2s'["ctrl"], "get")
    BY <1>1, LinesTail DEF NextLine
  <1>9. QuietVersion => QuietVersion'
    BY <1>3, <1>5, <1>6, <1>7 DEF QuietVersion
  <1>10. OneVersion => OneVersion'
    <2> SUFFICES ASSUME OneVersion PROVE OneVersion'
      OBVIOUS
    <2>1. /\ \A i, j \in DOMAIN toSrv' : Queries(i)' /\ Queries(j)' => i = j
          /\ Single(c2s'["ctrl"], "get")
      BY <1>1, <1>3, <1>5 DEF OneVersion
    <2>2. CASE ~Mentions(s2c["ctrl"], "version") => ~Mentions(s2c'["ctrl"], "version")
      BY <1>3, <1>4, <1>5, <2>1, <2>2 DEF OneVersion
    <2>3. CASE NextLine("get") /\ c2s'["ctrl"] = Tail(c2s["ctrl"])
      <3>1. Free(c2s'["ctrl"], "get") /\ NoneVersion' /\ NoneQueries'
        BY <1>3, <1>4, <1>7, <1>8, <2>3 DEF OneVersion
      <3> QED BY <2>1, <3>1 DEF OneVersion
    <2> QED BY <1>6, <2>2, <2>3
  <1> QED BY <1>1, <1>4, <1>9, <1>10 DEF AskInv, Up

\* The thread keeps the control pipe until it finishes.
LEMMA ThreadHeld ==
  ASSUME SessTypeOK, ServiceInv, Held, ThreadNext
  PROVE  Held'
  <1>1. PipeTypeOK /\ cont \notin {"flush", "wait"}
    BY DEF SessTypeOK, ConnTypeOK, ServiceInv, ConnInv
  <1>2. /\ Loc \in {"finish", "done"} => Loc' \in {"finish", "done"}
        /\ inst'["ctrl"] = inst["ctrl"] \/ Loc' = "done"
    BY <1>1, ThreadReads
  <1> QED BY <1>2 DEF Held

\* The thread finds no line behind the command, so that it waits on a pending read.
LEMMA ThreadLine ==
  ASSUME SessTypeOK, ServiceInv, LineInv, ThreadStep
  PROVE  LineInv'
  <1>1. /\ ThreadNext /\ UNCHANGED <<state, mode, net, abortSent, account, toSrv>> /\ PipeTypeOK
        /\ cont \notin {"flush", "wait"} /\ "ctrl" \in Pipe /\ c2s["ctrl"] \in Seq(Line \union {Chunk})
    BY DEF ThreadStep, clientVars, stateVars, reqVars, sigVars, SessTypeOK, ConnTypeOK, PipeTypeOK, ServiceInv, ConnInv, Pipe
  <1> SUFFICES ASSUME state = "RUNNING", ~Cut PROVE LineInv'
    BY <1>1 DEF LineInv, Cut
  <1>2. /\ Held /\ NoneOf(toSrv, "close", "ctrl")
        /\ LastOnly(c2s["ctrl"], "run")
        /\ Free(c2s["ctrl"], "run") \/ NoneWritten
        /\ \A i, j \in DOMAIN toSrv :
              Is(toSrv[i], "write", "ctrl") /\ toSrv[i].items = RunCommandOf(account) /\ Is(toSrv[j], "write", "ctrl")
                => j <= i
        /\ Loc \notin Early => c2s["ctrl"] = <<>> /\ NoneWritten
        /\ pc = "wait" => ovl = "pending"
    BY DEF LineInv
  <1>3. Held' /\ (NoneWritten <=> NoneWritten')
    BY <1>1, <1>2, ThreadHeld DEF NoneWritten
  <1>4. \/ c2s'["ctrl"] \in {c2s["ctrl"], <<>>}
        \/ c2s["ctrl"] # <<>> /\ c2s'["ctrl"] = Tail(c2s["ctrl"])
    BY <1>1, ThreadReads
  <1>5. LastOnly(c2s'["ctrl"], "run") /\ (Free(c2s["ctrl"], "run") => Free(c2s'["ctrl"], "run"))
    BY <1>1, <1>2, <1>4, LinesTail, NothingMentioned
  <1>6. Loc' \notin Early => c2s'["ctrl"] = <<>> /\ NoneWritten
    <2>1. CASE Loc \notin Early
      BY <1>2, <1>4, <2>1
    <2>2. CASE NextLine("run") /\ c2s'["ctrl"] = Tail(c2s["ctrl"])
      <3>1. ~Free(c2s["ctrl"], "run")
        BY <1>1, <2>2, LinesTail DEF NextLine
      <3> QED BY <1>1, <1>2, <2>2, <3>1, LinesTail DEF NextLine
    <2> QED BY <1>1, <2>1, <2>2, ThreadReads
  <1>7. pc' = "wait" => ovl' = "pending"
    <2> SUFFICES ASSUME pc' = "wait" PROVE ovl' = "pending"
      OBVIOUS
    <2>1. pc = "watch" /\ (c2s["ctrl"] = <<>> /\ inst["ctrl"] = "conn" => ovl' = "pending")
      BY <1>1, ThreadReads
    <2> QED BY <1>2, <2>1 DEF Held, Loc, Early
  <1> QED BY <1>1, <1>2, <1>3, <1>5, <1>6, <1>7 DEF LineInv

\* The thread that waits for the process is interrupted by its client.
LEMMA SignalledCut ==
  ASSUME ServiceInv, IdleInv, LineInv, pc = "wait"
  PROVE  proc # "none" /\ (ControlSignalled => Cut)
  <1>1. Loc = "wait" /\ proc # "none"
    BY DEF Loc, ServiceInv, OwnInv
  <1>2. ASSUME ~Cut PROVE ~ControlSignalled
    <2>1. state = "RUNNING"
      BY <1>1 DEF IdleInv
    <2>2. c2s["ctrl"] = <<>> /\ Held /\ ovl = "pending"
      BY <1>1, <1>2, <2>1 DEF LineInv, Early
    <2> QED BY <1>1, <2>2 DEF ControlSignalled, Held
  <1> QED BY <1>1, <1>2

\* The code is reported once the process has ended and its output was read.
LEMMA ThreadCode ==
  ASSUME SessTypeOK, SessTypeOK', ServiceInv, ServiceInv', IdleInv, LineInv, CodeInv, ThreadStep
  PROVE  CodeInv'
  <1>1. /\ ThreadNext /\ UNCHANGED <<state, mode, net, abortSent, toCli, codeSeen, return_code>>
        /\ PipeTypeOK /\ ThreadTypeOK /\ ConnTypeOK /\ ConnInv /\ ConnInv'
        /\ cont \notin Ending \union {"flush", "wait"} /\ s2c["ctrl"] \in Seq(Message)
    BY DEF ThreadStep, clientVars, stateVars, sigVars, userVars, SessTypeOK, ConnTypeOK, ServiceInv, ConnInv, Ending,
           PipeTypeOK, Pipe
  <1>2. Cut' = Cut
    BY <1>1 DEF Cut
  <1>3. /\ CodeIs(s2c["ctrl"]) /\ \A i \in DOMAIN toCli : Fetched(i) => CodeIs(toCli[i].data)
        /\ CodeDue => /\ proc = "exited" /\ Loc \in Released
                      /\ s2c["out"] = <<>> /\ s2c["err"] = <<>>
        /\ CodeDue \/ Loc \in Ending => ec = pcode \/ (ec = Aborted /\ Cut)
        /\ codeSeen => state = "RUNNING" /\ return_code = ec
        /\ Staying /\ ~codeSeen => return_code = InitialCode
    BY DEF CodeInv, Ending
  <1>4. /\ \/ UNCHANGED <<proc, pcode, ec>>
           \/ pc \in {"spawn", "wait"}
        /\ pc = "spawn" => Loc' \notin Ending
        /\ pc = "wait" => proc' = "exited" /\ (ec' = pcode' \/ (ec' = Aborted /\ ControlSignalled))
        /\ Loc' \in Ending => Loc \in Ending \union {"wait"}
        /\ Loc \in Released => Loc' \in Released
        /\ pc = "report" => Loc' \in Released
    BY <1>1, ThreadEnds DEF Loc, Ending
  <1>5. \A p \in Outputs : s2c'[p] = s2c[p]
    BY <1>1, ThreadOutputs
  <1>6. pc \in {"spawn", "wait"} => ~CodeDue /\ Loc = pc
    BY <1>3 DEF Loc, Released, ReleaseLabels
  <1>7. pc = "report" => /\ Loc = "report" /\ UNCHANGED <<proc, pcode, ec>> /\ proc = "exited"
                         /\ s2c["out"] = <<>> /\ s2c["err"] = <<>>
    BY <1>1, <1>4 DEF ConnInv, Loc
  <1>8. Mentions(s2c'["ctrl"], "return_code") => Mentions(s2c["ctrl"], "return_code") \/ pc = "report"
    <2>1. CASE s2c'["ctrl"] \in {s2c["ctrl"], <<>>}
      BY <2>1, NothingMentioned
    <2>2. ASSUME NEW m \in Message, s2c'["ctrl"] = Append(s2c["ctrl"], m), m.type = "return_code" => pc = "report"
          PROVE  Mentions(s2c'["ctrl"], "return_code") => Mentions(s2c["ctrl"], "return_code") \/ pc = "report"
      BY <1>1, <2>2, MentionsMore
    <2> QED BY <1>1, <2>1, <2>2, ThreadAnswers
  <1>9. /\ CodeDue' => CodeDue \/ pc = "report"
        /\ CodeDue' => UNCHANGED <<proc, pcode, ec>>
    <2>1. CodeDue' => CodeDue \/ pc = "report"
      BY <1>1, <1>8 DEF CodeDue, Coder, Fetched
    <2> QED BY <1>4, <1>6, <1>7, <2>1
  <1>10. CodeIs(s2c["ctrl"])'
    <2>1. CASE ec' = ec
      <3>1. CASE s2c'["ctrl"] \in {s2c["ctrl"], <<>>}
        BY <1>3, <2>1, <3>1 DEF CodeIs
      <3>2. ASSUME NEW m \in Message, s2c'["ctrl"] = Append(s2c["ctrl"], m), m.type = "return_code" => m.val = ec
            PROVE  CodeIs(s2c["ctrl"])'
        <4>1. CodeIs(s2c'["ctrl"])
          BY <1>1, <1>3, <3>2, MentionsMore
        <4> QED BY <2>1, <4>1 DEF CodeIs
      <3> QED BY <1>1, <3>1, <3>2, ThreadAnswers
    <2>2. CASE ec' # ec
      <3>1. ~CodeDue'
        BY <1>9, <2>2
      <3> QED BY <3>1 DEF CodeDue, Mentions, CodeIs
    <2> QED BY <2>1, <2>2
  <1>11. \A i \in DOMAIN toCli' : Fetched(i)' => CodeIs(toCli[i].data)'
    <2>1. CASE ec' = ec
      BY <1>1, <1>3, <2>1 DEF Fetched, CodeIs
    <2>2. CASE ec' # ec
      BY <1>1, <1>9, <2>2 DEF CodeDue, Coder, Fetched, Mentions, CodeIs
    <2> QED BY <2>1, <2>2
  <1>12. CodeDue' => /\ proc' = "exited" /\ Loc' \in Released
                     /\ s2c'["out"] = <<>> /\ s2c'["err"] = <<>>
    BY <1>3, <1>4, <1>5, <1>7, <1>9 DEF Outputs
  <1>13. pc = "wait" /\ ControlSignalled => Cut
    BY SignalledCut
  <1>14. CodeDue' \/ Loc' \in Ending => ec' = pcode' \/ (ec' = Aborted /\ Cut')
    <2>1. CASE pc = "wait"
      BY <1>2, <1>4, <1>13, <2>1
    <2>2. CASE pc = "spawn"
      BY <1>4, <1>6, <1>9, <2>2
    <2>3. CASE UNCHANGED <<proc, pcode, ec>> /\ pc # "wait"
      <3>1. Loc # "wait"
        BY <1>1, <2>3 DEF Loc
      <3>2. CodeDue' \/ Loc' \in Ending => CodeDue \/ Loc \in Ending
        BY <1>4, <1>7, <1>9, <3>1 DEF Ending
      <3> QED BY <1>2, <1>3, <2>3, <3>2
    <2> QED BY <1>4, <2>1, <2>2, <2>3
  <1>15. /\ codeSeen' => state' = "RUNNING" /\ return_code' = ec'
         /\ Staying' /\ ~codeSeen' => return_code' = InitialCode
    BY <1>1, <1>3, <1>9 DEF CodeDue, Staying
  <1> QED BY <1>10, <1>11, <1>12, <1>14, <1>15 DEF CodeInv, Ending

-----------------------------------------------------------------------------
\* Other steps of the service, and the loss of the connection.

\* What was on the wire is lost, or nothing happens to it.
LEMMA FadesReads ==
  ASSUME OutReadInv, Fades
  PROVE  OutReadInv'
  <1>1. /\ UNCHANGED <<fd, pending, parked>>
        /\ toSrv' \in {toSrv, <<>>} /\ toCli' \in {toCli, <<>>}
        /\ UNCHANGED <<toSrv, toCli, net>> \/ (net = "up" /\ net' = "down")
        /\ \A p \in Pipe : inst'[p] = "conn" => inst[p] = "conn"
    BY DEF Fades, srvVars
  <1>2. /\ \A i \in DOMAIN toSrv' : i \in DOMAIN toSrv /\ toSrv'[i] = toSrv[i]
        /\ \A i \in DOMAIN toCli' : i \in DOMAIN toCli /\ toCli'[i] = toCli[i]
    BY <1>1
  <1>3. \A op, p : /\ NoneOf(toSrv, op, p) => NoneOf(toSrv', op, p)
                   /\ OnceOf(toSrv, op, p) => OnceOf(toSrv', op, p)
                   /\ NoneOf(toCli, op, p) => NoneOf(toCli', op, p)
                   /\ OnceOf(toCli, op, p) => OnceOf(toCli', op, p)
    BY <1>2 DEF NoneOf, OnceOf
  <1>4. \A op, p : /\ OneUnderway(op, p) => OneUnderway(op, p)'
                   /\ NoneUnderway(op, p) => NoneUnderway(op, p)'
                   /\ Known(op, p) => Known(op, p)'
    BY <1>1, <1>3 DEF OneUnderway, NoneUnderway, Known
  <1> SUFFICES ASSUME NEW p \in Outputs
               PROVE  /\ OneUnderway("read", p)' /\ (p \in parked' => NoneUnderway("read", p)')
                      /\ \A q \in {toSrv', toCli', pending'} : \A i \in DOMAIN q : Is(q[i], "read", p) => q[i].fnum = 1
                      /\ NoneOf(pending', "write", p)
                      /\ Known("read", p)' \/ (NoneUnderway("read", p)' /\ p \notin parked')
                      /\ fd'[p] = 0 => NoneUnderway("read", p)' /\ p \notin parked'
                      /\ net' = "up" =>
                            /\ NoneOf(toSrv', "close", p) \/ inst'[p] # "conn"
                            /\ \A i \in DOMAIN toCli' :
                                  toCli'[i].op \in {"read", "open"} /\ toCli'[i].pipe = p /\ toCli'[i].status # "ok"
                                    => inst'[p] # "conn"
    BY DEF OutReadInv, OutRead
  <1>5. p \in Pipe
    BY DEF Outputs, Pipe
  <1>6. /\ OneUnderway("read", p) /\ (p \in parked => NoneUnderway("read", p))
        /\ \A q \in {toSrv, toCli, pending} : \A i \in DOMAIN q : Is(q[i], "read", p) => q[i].fnum = 1
        /\ NoneOf(pending, "write", p)
        /\ Known("read", p) \/ (NoneUnderway("read", p) /\ p \notin parked)
        /\ fd[p] = 0 => NoneUnderway("read", p) /\ p \notin parked
        /\ net = "up" =>
              /\ NoneOf(toSrv, "close", p) \/ inst[p] # "conn"
              /\ \A i \in DOMAIN toCli : toCli[i].op \in {"read", "open"} /\ toCli[i].pipe = p /\ toCli[i].status # "ok"
                    => inst[p] # "conn"
    BY DEF OutReadInv, OutRead
  <1>7. \A q \in {toSrv', toCli', pending'} : \A i \in DOMAIN q : Is(q[i], "read", p) => q[i].fnum = 1
    BY <1>1, <1>2, <1>6
  <1>8. net' = "up" =>
          /\ NoneOf(toSrv', "close", p) \/ inst'[p] # "conn"
          /\ \A i \in DOMAIN toCli' :
                toCli'[i].op \in {"read", "open"} /\ toCli'[i].pipe = p /\ toCli'[i].status # "ok"
                  => inst'[p] # "conn"
    BY <1>1, <1>5, <1>6 DEF NoneOf
  <1> QED BY <1>1, <1>4, <1>6, <1>7, <1>8

\* Output that is not read any more is still output that was written.
LEMMA FadesFlow ==
  ASSUME FlowInv, Fades, UNCHANGED <<shown, wrote, codeSeen>>, \A p \in Outputs : s2c'[p] = s2c[p]
  PROVE  FlowInv'
  <1>1. /\ toCli' \in {toCli, <<>>}
        /\ UNCHANGED <<toCli, net>> \/ net' = "down"
    BY DEF Fades
  <1>2. CASE toCli' = toCli
    <2>1. /\ \A i, op, p : Good(i, op, p)' <=> Good(i, op, p)
          /\ \A i : Coder(i)' <=> Coder(i)
      BY <1>2 DEF Good, Coder, Fetched
    <2>2. \A op, p : NoneGood(op, p)' <=> NoneGood(op, p)
      BY <1>2, <2>1 DEF NoneGood
    <2> QED BY <1>1, <1>2, <2>1, <2>2 DEF FlowInv, Flow
  <1>3. CASE toCli' = <<>> /\ net' # "up"
    <2>1. \A op, p : NoneGood(op, p)'
      BY <1>3 DEF NoneGood
    <2>2. \A p \in Outputs : shown'[p] <= wrote'[p] /\ (codeSeen' => shown'[p] = wrote'[p])
      BY DEF FlowInv, Flow
    <2> QED BY <1>3, <2>1, <2>2 DEF FlowInv, Flow
  <1> QED BY <1>1, <1>2, <1>3

\* What the process does: it writes what will be read, and nothing is told
\* of its end yet.
LEMMA ProcessCode ==
  ASSUME SessTypeOK, ServiceInv, CodeInv, proc = "running",
         UNCHANGED <<pc, cont, ec, state, mode, toCli, codeSeen, return_code>>, s2c'["ctrl"] = s2c["ctrl"]
  PROVE  CodeInv'
  <1>1. ~CodeDue
    BY DEF CodeInv
  <1>2. pc \in {"watch", "wait"} /\ Loc \notin Ending /\ Loc' \notin Ending
    BY DEF ServiceInv, ConnInv, Loc, Ending
  <1>3. ~CodeDue'
    BY <1>1 DEF CodeDue, Coder, Fetched
  <1>4. /\ CodeIs(s2c["ctrl"])' /\ \A i \in DOMAIN toCli' : Fetched(i)' => CodeIs(toCli[i].data)'
        /\ Staying' /\ ~codeSeen' => return_code' = InitialCode
    BY DEF CodeInv, CodeIs, Fetched, Staying
  <1> QED BY <1>2, <1>3, <1>4 DEF CodeInv, Ending, CodeDue

\* What the process writes is in the pipe.
LEMMA ProcessFlow ==
  ASSUME SessTypeOK, CodeInv, FlowInv, ProcWriteStep
  PROVE  FlowInv'
  <1>1. /\ UNCHANGED <<shown, net, toCli, codeSeen>> /\ proc = "running"
        /\ s2c \in [Pipe -> Seq(Message)] /\ wrote \in [Outputs -> Nat] /\ shown \in [Outputs -> Nat]
        /\ Outputs \subseteq Pipe
    BY DEF ProcWriteStep, ProcWrite, clientVars, userVars, SessTypeOK, ConnTypeOK, PipeTypeOK, ClientTypeOK,
           ServerTypeOK, Outputs, Pipe
  <1>2. PICK o \in Outputs : ProcWrite(o) /\ wrote' = [wrote EXCEPT ![o] = @ + 1]
    BY DEF ProcWriteStep, Outputs
  <1>3. Data \in Message
    BY DEF Data, Msg, Message
  <1>4. s2c' = [s2c EXCEPT ![o] = Append(@, Data)]
    BY <1>2 DEF ProcWrite, WriteFile
  <1>5. ~codeSeen /\ \A i \in DOMAIN toCli : ~Coder(i)
    BY <1>1 DEF CodeInv, CodeDue
  <1>6. /\ \A i, op, p : Good(i, op, p)' <=> Good(i, op, p)
        /\ \A i : Coder(i)' <=> Coder(i)
        /\ \A op, p : NoneGood(op, p)' <=> NoneGood(op, p)
    BY <1>1 DEF Good, Coder, Fetched, NoneGood
  <1>7. \A p \in Outputs : \E d \in {0, 1} : wrote'[p] = wrote[p] + d /\ Len(s2c'[p]) = Len(s2c[p]) + d
    BY <1>1, <1>2, <1>3, <1>4
  <1>8. \A i \in DOMAIN toCli, p \in Outputs : Good(i, "read", p) => Len(toCli[i].data) \in Nat
    <2>1. \A i \in DOMAIN toCli : toCli[i] \in Replied
      BY DEF SessTypeOK, ClientTypeOK
    <2> QED BY <2>1 DEF Replied
  <1> SUFFICES ASSUME NEW p \in Outputs
               PROVE  /\ shown'[p] <= wrote'[p]
                      /\ \A i \in DOMAIN toCli' : Good(i, "read", p)' => shown'[p] + Len(toCli'[i].data) <= wrote'[p]
                      /\ net' = "up" =>
                            /\ \A i \in DOMAIN toCli' : Good(i, "read", p)' =>
                                  shown'[p] + Len(toCli'[i].data) + Len(s2c'[p]) = wrote'[p]
                            /\ NoneGood("read", p)' => shown'[p] + Len(s2c'[p]) = wrote'[p]
    BY <1>1, <1>5, <1>6 DEF FlowInv, Flow
  <1>9. /\ shown[p] <= wrote[p]
        /\ \A i \in DOMAIN toCli : Good(i, "read", p) => shown[p] + Len(toCli[i].data) <= wrote[p]
        /\ net = "up" =>
              /\ \A i \in DOMAIN toCli : Good(i, "read", p) =>
                    shown[p] + Len(toCli[i].data) + Len(s2c[p]) = wrote[p]
              /\ NoneGood("read", p) => shown[p] + Len(s2c[p]) = wrote[p]
    BY DEF FlowInv, Flow
  <1>10. PICK d \in {0, 1} : wrote'[p] = wrote[p] + d /\ Len(s2c'[p]) = Len(s2c[p]) + d
    BY <1>7
  <1>11. wrote[p] \in Nat /\ shown[p] \in Nat /\ Len(s2c[p]) \in Nat
    BY <1>1
  <1>12. shown'[p] <= wrote'[p]
    BY <1>1, <1>9, <1>10, <1>11
  <1>13. ASSUME NEW i \in DOMAIN toCli, Good(i, "read", p)
         PROVE  /\ shown[p] + Len(toCli[i].data) <= wrote'[p]
                /\ net = "up" => shown[p] + Len(toCli[i].data) + Len(s2c'[p]) = wrote'[p]
    <2>1. Len(toCli[i].data) \in Nat
      BY <1>8, <1>13
    <2>2. shown[p] + Len(toCli[i].data) <= wrote[p]
      BY <1>9, <1>13
    <2>3. net = "up" => shown[p] + Len(toCli[i].data) + Len(s2c[p]) = wrote[p]
      BY <1>9, <1>13
    <2>4. shown[p] + Len(toCli[i].data) <= wrote[p] + d
      BY <1>10, <1>11, <2>1, <2>2
    <2>5. net = "up" => shown[p] + Len(toCli[i].data) + (Len(s2c[p]) + d) = wrote[p] + d
      <3>1. \A a, b, c, w \in Nat : a + b + c = w => a + b + (c + d) = w + d
        OBVIOUS
      <3> QED BY <1>11, <2>1, <2>3, <3>1
    <2> QED BY <1>10, <2>4, <2>5
  <1>14. net = "up" /\ NoneGood("read", p) => shown[p] + Len(s2c'[p]) = wrote'[p]
    BY <1>9, <1>10, <1>11
  <1> QED BY <1>1, <1>6, <1>12, <1>13, <1>14

\* The invariant is kept when the service creates its pipe, ...
LEMMA ReadyRuns ==
  ASSUME SessTypeOK, ServiceInv, RunInv, ServerLoopReady
  PROVE  RunInv'
  <1>1. /\ UNCHANGED <<c2s, s2c, threadVars, clientVars, srvVars, histVars>> /\ inst' = NewPipes(TRUE)
        /\ inst = NewPipes(FALSE) /\ pc = "idle"
    BY DEF ServerLoopReady, ServiceInv, FreshInv
  <1>2. (\A p \in Pipe : inst[p] # "conn" /\ inst'[p] # "conn") /\ ~Held
    BY <1>1 DEF NewPipes, Held, Loc, Pipe
  <1>3. UNCHANGED <<state, mode, net, abortSent, account, return_code, codeSeen, shown, wrote, toSrv, toCli, pending, fd,
                    parked, srvOpen, srvFnum, pc, cont, ovl, proc, pcode, ec, c2s, s2c>>
    BY <1>1 DEF threadVars, clientVars, stateVars, sigVars, userVars, reqVars, ioVars, srvVars, histVars
  <1>4. IdleInv'
    BY <1>2, <1>3 DEF RunInv, IdleInv
  <1>5. (AskInv /\ Up) => AskInv'
    <2>1. /\ \A i \in DOMAIN toSrv : ~Queries(i) /\ ~Queries(i)'
          /\ \A i \in DOMAIN toCli : Versioned(i)' <=> Versioned(i)
      BY <1>2, <1>3 DEF Queries, Alive, Versioned, Fetched, Pipe
    <2>2. NoneQueries /\ NoneQueries' /\ (NoneVersion' <=> NoneVersion)
      BY <1>3, <2>1 DEF NoneQueries, NoneVersion
    <2>3. (QuietVersion => QuietVersion') /\ (OneVersion => OneVersion')
      BY <1>3, <2>1, <2>2 DEF QuietVersion, OneVersion
    <2> QED BY <1>3, <2>2, <2>3 DEF AskInv
  <1>6. Up' <=> Up
    BY <1>3 DEF Up, Staying
  <1>7. AskInv'
    BY <1>5, <1>6 DEF RunInv, AskInv
  <1>8. HeldInv'
    BY <1>2, <1>3, <1>6 DEF RunInv, HeldInv, Is
  <1>9. LineInv'
    BY <1>2, <1>3 DEF RunInv, LineInv, Cut
  <1>10. CodeInv'
    <2>1. (CodeDue' <=> CodeDue) /\ Loc' = Loc /\ (Cut' <=> Cut)
      BY <1>3 DEF CodeDue, Coder, Fetched, Loc, Cut
    <2> QED BY <1>3, <2>1 DEF RunInv, CodeInv, CodeIs, Fetched, Staying
  <1>11. Staying' => OutReadInv' /\ FlowInv'
    <2>1. Fades
      BY <1>1, <1>2, <1>3 DEF Fades, clientVars, ioVars, userVars
    <2> QED BY <1>3, <1>6, <2>1, FadesReads, FadesFlow DEF RunInv, Staying
  <1> QED BY <1>4, <1>7, <1>8, <1>9, <1>10, <1>11 DEF RunInv

\* ... by what the process does, ...
LEMMA ProcessRuns ==
  ASSUME SessTypeOK, ServiceInv, RunInv, ProcWriteStep \/ ProcReadStep \/ ProcExitStep
  PROVE  RunInv'
  <1>1. /\ UNCHANGED <<clientVars, srvVars, pc, cont, ec, ovl, inst>> /\ proc = "running" /\ proc' # "none"
        /\ c2s'["ctrl"] = c2s["ctrl"] /\ s2c'["ctrl"] = s2c["ctrl"]
        /\ ProcWriteStep \/ UNCHANGED <<wrote, s2c>>
    BY DEF ProcWriteStep, ProcReadStep, ProcExitStep, ProcWrite, ProcRead, ProcExit, WriteFile, ReadFile, pipeVars,
           threadVars, histVars, SessTypeOK, ConnTypeOK, PipeTypeOK, Pipe
  <1>2. UNCHANGED <<state, mode, net, abortSent, account, return_code, codeSeen, shown, toSrv, toCli, pending, fd,
                    srvOpen, srvFnum, pc, cont, ovl, ec, inst>>
    BY <1>1 DEF clientVars, stateVars, sigVars, userVars, reqVars, ioVars, srvVars
  <1>3. (Up' <=> Up) /\ (Cut' <=> Cut) /\ (Held' <=> Held) /\ (Staying' <=> Staying)
    BY <1>2 DEF Up, Staying, Cut, Held, Loc
  <1>4. IdleInv'
    BY <1>1, <1>2 DEF RunInv, IdleInv
  <1>5. AskInv'
    <2>1. (NoneQueries' <=> NoneQueries) /\ (NoneVersion' <=> NoneVersion)
      BY <1>2 DEF NoneQueries, NoneVersion, Queries, Alive, Versioned, Fetched
    <2>2. (QuietVersion => QuietVersion') /\ (OneVersion => OneVersion')
      BY <1>1, <1>2, <2>1 DEF QuietVersion, OneVersion, Queries, Alive
    <2> QED BY <1>2, <1>3, <2>1, <2>2 DEF RunInv, AskInv
  <1>6. HeldInv'
    BY <1>2, <1>3 DEF RunInv, HeldInv, Is
  <1>7. LineInv'
    BY <1>1, <1>2, <1>3 DEF RunInv, LineInv, NoneWritten, NoneOf, Is, Loc
  <1>8. CodeInv'
    BY <1>1, <1>2, ProcessCode DEF RunInv
  <1>9. Fades
    BY <1>1, <1>2 DEF Fades, clientVars, ioVars, userVars
  <1>10. Staying => FlowInv'
    <2>1. CASE ProcWriteStep
      BY <2>1, ProcessFlow DEF RunInv
    <2>2. CASE UNCHANGED <<wrote, s2c>>
      BY <1>2, <1>9, <2>2, FadesFlow DEF RunInv
    <2> QED BY <1>1, <2>1, <2>2
  <1> QED BY <1>3, <1>4, <1>5, <1>6, <1>7, <1>8, <1>9, <1>10, FadesReads DEF RunInv

\* ... and by every step of the thread.
LEMMA ThreadRuns ==
  ASSUME SessTypeOK, SessTypeOK', ServiceInv, ServiceInv', OnceInv, RunInv, ThreadStep
  PROVE  RunInv'
  <1>1. /\ ThreadNext /\ UNCHANGED <<clientVars, srvVars, wrote>> /\ PipeTypeOK /\ ThreadTypeOK /\ ConnTypeOK
        /\ ConnInv /\ ConnInv'
    BY DEF ThreadStep, SessTypeOK, ConnTypeOK, ServiceInv
  <1>2. UNCHANGED <<state, mode, net, shown, codeSeen, toCli, toSrv, pending, stdinEv, fd, io_read, io_write>>
    BY <1>1 DEF clientVars, stateVars, userVars, reqVars, ioVars
  <1>3. \A p \in Pipe : inst'[p] = "conn" => inst[p] = "conn"
    BY <1>1, ThreadTells
  <1>4. Fades
    BY <1>1, <1>2, <1>3 DEF Fades
  <1>5. \A p \in Outputs : s2c'[p] = s2c[p]
    BY <1>1, ThreadOutputs
  <1>6. (Up' <=> Up) /\ (Staying' <=> Staying)
    BY <1>2 DEF Up, Staying
  <1>7. Staying' => OutReadInv' /\ FlowInv'
    BY <1>1, <1>2, <1>4, <1>5, <1>6, FadesReads, FadesFlow DEF RunInv
  <1>8. HeldInv'
    BY <1>1, <1>2, <1>6, ThreadHeld DEF RunInv, HeldInv, Is
  <1>9. AskInv'
    <2>1. CASE Up
      BY <2>1, ThreadAsk DEF RunInv
    <2>2. CASE ~Up
      BY <1>6, <2>2 DEF AskInv
    <2> QED BY <2>1, <2>2
  <1> QED BY <1>7, <1>8, <1>9, ThreadIdle, ThreadLine, ThreadCode DEF RunInv, OnceInv

\* The connection is lost.
LEMMA LossRuns ==
  ASSUME RunInv, NetFail
  PROVE  RunInv'
  <1>1. /\ UNCHANGED <<connVars, srvVars, stateVars, ioVars, pending, sigVars, userVars, histVars>>
        /\ net = "up" /\ net' = "down" /\ toSrv' \in {toSrv, <<>>} /\ toCli' \in {toCli, <<>>}
    BY DEF NetFail
  <1>2. UNCHANGED <<state, mode, abortSent, return_code, codeSeen, shown, wrote, pending, fd, io_read, io_write, stdinEv,
                    srvOpen, pc, cont, proc, pcode, ec, inst, s2c>>
    BY <1>1 DEF connVars, pipeVars, threadVars, stateVars, sigVars, userVars, ioVars, srvVars, histVars
  <1>3. ~Up' /\ Cut' /\ (Staying' <=> Staying) /\ Loc' = Loc
    BY <1>1, <1>2 DEF Up, Cut, Staying, Loc
  <1>4. Fades
    BY <1>1, <1>2 DEF Fades
  <1>5. Staying' => OutReadInv' /\ FlowInv'
    BY <1>2, <1>3, <1>4, FadesReads, FadesFlow DEF RunInv
  <1>6. CodeInv'
    <2>1. \A i \in DOMAIN toCli' : i \in DOMAIN toCli /\ toCli'[i] = toCli[i]
      BY <1>1
    <2>2. CodeDue' => CodeDue
      BY <1>2, <2>1 DEF CodeDue, Coder, Fetched
    <2>3. \A i \in DOMAIN toCli' : Fetched(i)' => CodeIs(toCli[i].data)'
      BY <1>2, <2>1 DEF RunInv, CodeInv, CodeIs, Fetched
    <2> QED BY <1>2, <1>3, <2>2, <2>3 DEF RunInv, CodeInv, CodeIs
  <1> QED BY <1>2, <1>3, <1>5, <1>6 DEF RunInv, IdleInv, AskInv, HeldInv, LineInv

-----------------------------------------------------------------------------
\* Steps of the server: the code, and what the process wrote.

\* The server passes the return code on as it is.
LEMMA ServerCode ==
  ASSUME SessTypeOK, CodeInv, ServerNext
  PROVE  CodeInv'
  <1>1. /\ UNCHANGED <<pc, cont, ec, proc, pcode, state, mode, net, abortSent, codeSeen, return_code>>
        /\ "ctrl" \in Pipe /\ Outputs \subseteq Pipe
        /\ s2c \in [Pipe -> Seq(Message)]
    BY DEF ServerNext, stateVars, threadVars, sigVars, userVars, Outputs, Pipe, SessTypeOK, ConnTypeOK, PipeTypeOK
  <1>2. s2c'["ctrl"] \in {s2c["ctrl"], <<>>}
    BY ServerWrites
  <1>3. \A p \in Outputs : s2c'[p] \in {s2c[p], <<>>}
    BY <1>1, ServerPipes DEF PipeMoves, Hands
  <1>4. \A i \in DOMAIN toCli' : Fetched(i)' =>
           \/ i \in DOMAIN toCli /\ Fetched(i) /\ toCli'[i] = toCli[i]
           \/ toCli'[i].data = s2c["ctrl"]
    BY <1>1, ServerReplies DEF Longer, Fetched, Good, Is, OnCtrl
  <1>5. CodeDue' => CodeDue
    BY <1>1, <1>2, <1>4, NothingMentioned DEF CodeDue, Coder
  <1>6. CodeIs(s2c["ctrl"])' /\ \A i \in DOMAIN toCli' : Fetched(i)' => CodeIs(toCli[i].data)'
    <2>1. CodeIs(s2c["ctrl"]) /\ (\A i \in DOMAIN toCli : Fetched(i) => CodeIs(toCli[i].data)) /\ CodeIs(<<>>)
      BY NothingMentioned DEF CodeInv
    <2> QED BY <1>1, <1>2, <1>4, <2>1 DEF CodeIs
  <1>7. (Cut' <=> Cut) /\ Loc' = Loc /\ (Staying' <=> Staying)
    BY <1>1 DEF Cut, Loc, Staying
  <1>8. CodeDue' => s2c'["out"] = <<>> /\ s2c'["err"] = <<>>
    BY <1>3, <1>5 DEF CodeInv, Outputs
  <1> QED BY <1>1, <1>5, <1>6, <1>7, <1>8 DEF CodeInv

\* What is left in pipe p, when it can be told.
LEMMA ServerLeft ==
  ASSUME SessTypeOK, ConnInv, Staying, OutReadInv, net = "up", NEW p \in Outputs, ServerNext
  PROVE  s2c'[p] = s2c[p] \/ Hands(p)
  <1>1. p \in Pipe /\ mode \notin Gone
    BY DEF Outputs, Pipe, Staying, Gone
  <1>2. SUFFICES ASSUME s2c'[p] = <<>>, Took("close", p) PROVE s2c'[p] = s2c[p]
    BY <1>1, ServerPipes DEF PipeMoves, Shut
  <1>3. ~NoneOf(toSrv, "close", p)
    BY <1>2, TookHead DEF SessTypeOK
  <1>4. inst[p] # "conn"
    BY <1>3 DEF OutReadInv, OutRead
  <1> QED BY <1>1, <1>2, <1>4 DEF ConnInv

\* The server takes from the pipe what it answers, behind what it answered before.
LEMMA ServerFlow ==
  ASSUME SessTypeOK, ConnInv, Staying, CodeInv, OutReadInv, FlowInv, ServerNext
  PROVE  FlowInv'
  <1>1. /\ UNCHANGED <<mode, net, codeSeen, shown, wrote>> /\ Outputs \subseteq Pipe /\ "ctrl" \in Pipe
        /\ mode \notin Gone /\ s2c \in [Pipe -> Seq(Message)]
        /\ wrote \in [Outputs -> Nat] /\ shown \in [Outputs -> Nat]
    <2>1. UNCHANGED <<mode, net, codeSeen, shown, wrote>>
      BY DEF ServerNext, stateVars, userVars, histVars
    <2>2. Outputs \subseteq Pipe /\ "ctrl" \in Pipe /\ mode \notin Gone
      BY DEF Outputs, Pipe, Staying, Gone
    <2>3. s2c \in [Pipe -> Seq(Message)] /\ wrote \in [Outputs -> Nat] /\ shown \in [Outputs -> Nat]
      BY DEF Outputs, SessTypeOK, ConnTypeOK, PipeTypeOK, ClientTypeOK, ServerTypeOK
    <2> QED BY <2>1, <2>2, <2>3
  <1>2. Longer
    BY ServerReplies
  <1> SUFFICES ASSUME NEW p \in Outputs
               PROVE  /\ shown[p] <= wrote[p]
                      /\ \A i \in DOMAIN toCli' : Good(i, "read", p)' => shown[p] + Len(toCli'[i].data) <= wrote[p]
                      /\ net = "up" =>
                            /\ \A i \in DOMAIN toCli' : Good(i, "read", p)' =>
                                  shown[p] + Len(toCli'[i].data) + Len(s2c'[p]) = wrote[p]
                            /\ NoneGood("read", p)' => shown[p] + Len(s2c'[p]) = wrote[p]
                      /\ \A i \in DOMAIN toCli' : Coder(i)' =>
                            /\ \A j \in DOMAIN toCli' : Good(j, "read", p)' =>
                                  j < i /\ shown[p] + Len(toCli'[j].data) = wrote[p]
                            /\ NoneGood("read", p)' => shown[p] = wrote[p]
                      /\ codeSeen => shown[p] = wrote[p] /\ NoneGood("read", p)'
    BY <1>1 DEF FlowInv, Flow
  <1> DEFINE New(i) == i \in DOMAIN toCli' \ DOMAIN toCli
  <1>3. /\ shown[p] <= wrote[p]
        /\ \A i \in DOMAIN toCli : Good(i, "read", p) => shown[p] + Len(toCli[i].data) <= wrote[p]
        /\ net = "up" =>
              /\ \A i \in DOMAIN toCli : Good(i, "read", p) =>
                    shown[p] + Len(toCli[i].data) + Len(s2c[p]) = wrote[p]
              /\ NoneGood("read", p) => shown[p] + Len(s2c[p]) = wrote[p]
        /\ \A i \in DOMAIN toCli : Coder(i) =>
              /\ \A j \in DOMAIN toCli : Good(j, "read", p) => j < i /\ shown[p] + Len(toCli[j].data) = wrote[p]
              /\ NoneGood("read", p) => shown[p] = wrote[p]
        /\ codeSeen => shown[p] = wrote[p] /\ NoneGood("read", p)
    BY DEF FlowInv, Flow
  <1>4. p \in Pipe /\ wrote[p] \in Nat /\ shown[p] \in Nat /\ Len(s2c[p]) \in Nat /\ (s2c[p] = <<>> => Len(s2c[p]) = 0)
    BY <1>1
  <1>5. /\ \A i \in DOMAIN toCli : /\ Good(i, "read", p)' <=> Good(i, "read", p)
                                   /\ Coder(i)' <=> Coder(i)
                                   /\ toCli'[i] = toCli[i] /\ i \in DOMAIN toCli'
        /\ NoneGood("read", p)' => NoneGood("read", p)
    <2>1. \A i \in DOMAIN toCli : /\ Good(i, "read", p)' <=> Good(i, "read", p)
                                  /\ Coder(i)' <=> Coder(i)
                                  /\ toCli'[i] = toCli[i] /\ i \in DOMAIN toCli'
      BY <1>2 DEF Longer, Good, Coder, Fetched
    <2> QED BY <2>1 DEF NoneGood
  <1>6. \A i : New(i) /\ Good(i, "read", p)' =>
           Hands(p) /\ toCli'[i].data = s2c[p] /\ i = Len(toCli) + 1 /\ net = "up"
    BY <1>4, ServerReplies
  <1>7. Hands(p) => /\ s2c'[p] = <<>> /\ Len(s2c'[p]) = 0 /\ s2c[p] # <<>> /\ NoneGood("read", p)
                    /\ net = "up" => ~NoneGood("read", p)'
    <2> SUFFICES ASSUME Hands(p)
                 PROVE  /\ s2c'[p] = <<>> /\ s2c[p] # <<>> /\ NoneGood("read", p)
                        /\ net = "up" => ~NoneGood("read", p)'
      OBVIOUS
    <2>1. s2c'[p] = <<>> /\ s2c[p] # <<>> /\ p \in parked
      BY <1>1, <1>4 DEF Hands
    <2>2. NoneUnderway("read", p)
      BY <2>1 DEF OutReadInv, OutRead
    <2>3. NoneGood("read", p)
      BY <2>2 DEF NoneUnderway, NoneOf, NoneGood, Good
    <2>4. ASSUME net = "up" PROVE ~NoneGood("read", p)'
      <3> DEFINE r == Answer("read", p, srvFnum[p], "ok", s2c[p])
      <3>1. r \in Replied /\ Is(r, "read", p) /\ r.status = "ok"
        <4>1. srvFnum[p] \in Nat /\ s2c[p] \in Seq(Message)
          BY <1>1, <1>4 DEF SessTypeOK, ServerTypeOK
        <4> QED BY <1>4, <2>1, <4>1, AnswerType DEF ReqOp, Answer, Is
      <3>2. toCli' = toCli \o <<r>> /\ toCli \in Seq(Replied)
        BY <1>1, <2>4 DEF Hands, Answers, SessTypeOK, ClientTypeOK
      <3> HIDE DEF r
      <3>3. Len(toCli) + 1 \in DOMAIN toCli' /\ toCli'[Len(toCli) + 1] = r
        BY <3>1, <3>2
      <3> QED BY <3>1, <3>3 DEF NoneGood, Good
    <2> QED BY <2>1, <2>3, <2>4
  <1>8. net = "up" => s2c'[p] = s2c[p] \/ Hands(p)
    BY ServerLeft
  <1>9. CodeDue => s2c[p] = <<>> /\ Len(s2c[p]) = 0
    BY DEF CodeInv, Outputs
  <1>10. ASSUME NEW i \in DOMAIN toCli', Good(i, "read", p)'
         PROVE  /\ shown[p] + Len(toCli'[i].data) <= wrote[p]
                /\ net = "up" => shown[p] + Len(toCli'[i].data) + Len(s2c'[p]) = wrote[p]
    <2>1. CASE i \in DOMAIN toCli
      <3>1. Good(i, "read", p) /\ toCli'[i] = toCli[i]
        BY <1>5, <1>10, <2>1
      <3>2. ~Hands(p)
        BY <1>7, <2>1, <3>1 DEF NoneGood
      <3> QED BY <1>3, <1>8, <2>1, <3>1, <3>2
    <2>2. CASE i \notin DOMAIN toCli
      <3>1. Hands(p) /\ toCli'[i].data = s2c[p] /\ net = "up"
        BY <1>6, <1>10, <2>2
      <3>2. shown[p] + Len(s2c[p]) = wrote[p] /\ Len(s2c'[p]) = 0
        BY <1>3, <1>7, <3>1
      <3> QED BY <1>4, <3>1, <3>2
    <2> QED BY <2>1, <2>2
  <1>11. net = "up" /\ NoneGood("read", p)' => shown[p] + Len(s2c'[p]) = wrote[p]
    BY <1>3, <1>5, <1>7, <1>8
  <1>12. ASSUME NEW i \in DOMAIN toCli', Coder(i)'
         PROVE  /\ \A j \in DOMAIN toCli' : Good(j, "read", p)' =>
                      j < i /\ shown[p] + Len(toCli'[j].data) = wrote[p]
                /\ NoneGood("read", p)' => shown[p] = wrote[p]
    <2>1. CASE i \in DOMAIN toCli
      <3>1. Coder(i) /\ CodeDue
        BY <1>5, <1>12, <2>1 DEF CodeDue
      <3>2. \A j : New(j) => ~Good(j, "read", p)'
        BY <1>6, <1>7, <1>9, <3>1
      <3> QED BY <1>3, <1>5, <2>1, <3>1, <3>2
    <2>2. CASE i \notin DOMAIN toCli
      <3>1. Good(i, "read", "ctrl")' /\ Mentions(toCli'[i].data, "return_code")
        BY <1>12 DEF Coder, Fetched, OnCtrl, Good, Is
      <3>2. toCli'[i].data = s2c["ctrl"] /\ i = Len(toCli) + 1 /\ net = "up"
        BY <1>1, <2>2, <3>1, ServerReplies
      <3>3. CodeDue
        BY <3>1, <3>2 DEF CodeDue
      <3>4. \A j : New(j) => ~Good(j, "read", p)'
        BY <1>6, <1>7, <1>9, <3>3
      <3>5. \A j \in DOMAIN toCli : j < i /\ (Good(j, "read", p) => Len(toCli[j].data) \in Nat)
        <4>1. toCli \in Seq(Replied) /\ \A j \in DOMAIN toCli : toCli[j] \in Replied
          BY DEF SessTypeOK, ClientTypeOK
        <4> QED BY <3>2, <4>1 DEF Replied
      <3>6. ASSUME NEW j \in DOMAIN toCli', Good(j, "read", p)'
            PROVE  j < i /\ shown[p] + Len(toCli'[j].data) = wrote[p]
        <4>1. j \in DOMAIN toCli /\ Good(j, "read", p) /\ toCli'[j] = toCli[j]
          BY <1>5, <3>4, <3>6
        <4>2. shown[p] + Len(toCli[j].data) + Len(s2c[p]) = wrote[p] /\ Len(s2c[p]) = 0
          BY <1>3, <1>9, <3>2, <3>3, <4>1
        <4> QED BY <1>4, <3>5, <4>1, <4>2
      <3>7. NoneGood("read", p)' => shown[p] = wrote[p]
        <4>1. NoneGood("read", p)' => shown[p] + Len(s2c[p]) = wrote[p]
          BY <1>3, <1>5, <3>2
        <4> QED BY <1>4, <1>9, <3>3, <4>1
      <3> QED BY <3>6, <3>7
    <2> QED BY <2>1, <2>2
  <1>13. codeSeen => shown[p] = wrote[p] /\ NoneGood("read", p)'
    <2> SUFFICES ASSUME codeSeen PROVE shown[p] = wrote[p] /\ NoneGood("read", p)'
      OBVIOUS
    <2>1. \A j : New(j) => ~Good(j, "read", p)'
      BY <1>6, <1>7, <1>9 DEF CodeDue
    <2>2. shown[p] = wrote[p] /\ NoneGood("read", p)
      BY <1>3
    <2> QED BY <1>5, <2>1, <2>2 DEF NoneGood
  <1> QED BY <1>3, <1>10, <1>11, <1>12, <1>13

\* What a step of the server does to the reads of pipe p.
NewReads(p) == {i \in DOMAIN toCli' \ DOMAIN toCli : Is(toCli'[i], "read", p)}
ReadsMove(p) ==
    /\ \A i, j \in NewReads(p) : i = j
    /\ \A i \in NewReads(p) :
          \/ /\ Took("read", p) /\ ~Alive(1, "read", p) /\ inst'[p] = inst[p] /\ (p \in parked' => p \in parked)
             /\ toCli'[i].fnum = Query.fnum
          \/ /\ p \in parked /\ p \notin parked' /\ toCli'[i].fnum = srvFnum[p]
             /\ toCli'[i].status # "ok" => inst'[p] # "conn"
    /\ p \in parked' /\ p \notin parked => Took("read", p) /\ NewReads(p) = {}

\* Whatever the server does, the reads of p change as ReadsMove says.
LEMMA ServerReadsMove ==
  ASSUME SessTypeOK, ServerNext, NEW p \in Pipe
  PROVE  ReadsMove(p)
  <1>1. /\ ClientTypeOK /\ inst \in [Pipe -> InstState] /\ parked \subseteq srvOpen /\ srvOpen \subseteq Pipe
        /\ toCli \in Seq(Replied) /\ \A q \in Pipe : srvFnum[q] \in Nat /\ s2c[q] \in Seq(Message)
    BY DEF SessTypeOK, ConnTypeOK, PipeTypeOK, ServerTypeOK, ClientTypeOK
  <1>2. toSrv # <<>> => /\ Query.pipe \in Pipe /\ Query.fnum \in Nat
                        /\ 1 \in DOMAIN toSrv /\ Query = toSrv[1]
    <2>1. toSrv # <<>> => 1 \in DOMAIN toSrv /\ Query = toSrv[1]
      BY <1>1, TailElements DEF ClientTypeOK, Query
    <2> QED BY <1>1, <2>1, QueryType
  <1>3. ASSUME NewReads(p) = {}, p \in parked' => p \in parked
        PROVE  ReadsMove(p)
    BY <1>3 DEF ReadsMove
  <1>4. toCli' = toCli => NewReads(p) = {}
    BY DEF NewReads
  <1>5. ASSUME NEW r \in Replied, Answers(<<r>>)
        PROVE  /\ \A i \in NewReads(p) : toCli'[i] = r /\ i = Len(toCli) + 1 /\ Is(r, "read", p)
               /\ ~Is(r, "read", p) => NewReads(p) = {}
    BY <1>1, <1>5, AnsweredOne DEF NewReads
  <1>6. ASSUME NEW op \in ReqOp, Serve(op), NEW status \in {"notfound", "invalid", "broken"},
               status # "notfound" \/ op = "open", Refuse(status), ~(op = "read" /\ Query.pipe = p)
        PROVE  ReadsMove(p)
    <2> DEFINE r == Answer(op, Query.pipe, Query.fnum, status, <<>>)
    <2>1. r \in Replied /\ ~Is(r, "read", p)
      BY <1>2, <1>6, AnswerType DEF Serve, Answer, Is
    <2>2. Answers(<<r>>) /\ parked' = parked
      BY <1>6 DEF Refuse, Result, Serve, srvVars
    <2> HIDE DEF r
    <2> QED BY <1>3, <1>5, <2>1, <2>2
  <1>7. CASE ServeOpen
    <2>1. ASSUME Answers(<<Answer("open", Query.pipe, srvFnum[Query.pipe] + 1, "ok", <<>>)>>), parked' = parked
          PROVE  ReadsMove(p)
      <3> DEFINE r == Answer("open", Query.pipe, srvFnum[Query.pipe] + 1, "ok", <<>>)
      <3>1. r \in Replied /\ ~Is(r, "read", p)
        <4>1. Query.pipe \in Pipe /\ srvFnum[Query.pipe] + 1 \in Nat
          BY <1>1, <1>2, <1>7 DEF ServeOpen, Serve
        <4> QED BY <4>1, AnswerType DEF Answer, Is, ReqOp
      <3> HIDE DEF r
      <3> QED BY <1>3, <1>5, <2>1, <3>1 DEF r
    <2> QED BY <1>6, <1>7, <2>1 DEF ServeOpen, ReqOp
  <1>8. CASE ServeWrite
    <2>1. ASSUME Result("ok", <<>>), parked' = parked, Serve("write")
          PROVE  ReadsMove(p)
      <3> DEFINE r == Answer("write", Query.pipe, Query.fnum, "ok", <<>>)
      <3>1. r \in Replied /\ ~Is(r, "read", p)
        BY <1>2, <2>1, AnswerType DEF Serve, Answer, Is, ReqOp
      <3>2. Answers(<<r>>)
        BY <2>1 DEF Result, Serve
      <3> HIDE DEF r
      <3> QED BY <1>3, <1>5, <2>1, <3>1, <3>2
    <2> QED BY <1>6, <1>8, <2>1 DEF ServeWrite, ReqOp, srvVars
  <1>9. CASE ServeRead
    <2>1. CASE Valid /\ parked' = parked \union {Query.pipe} /\ UNCHANGED <<pipeVars, srvOpen, srvFnum, toCli>>
      <3>1. p \in parked' /\ p \notin parked => Took("read", p)
        BY <1>9, <2>1 DEF ServeRead, Serve, Took, Is
      <3> QED BY <1>4, <2>1, <3>1 DEF ReadsMove
    <2>2. CASE ~Valid /\ Refuse("invalid")
      <3>1. CASE Query.pipe = p
        <4> DEFINE r == Answer("read", Query.pipe, Query.fnum, "invalid", <<>>)
        <4>1. toSrv # <<>> /\ toSrv' = Tail(toSrv) /\ Query.op = "read"
          BY <1>9 DEF ServeRead, Serve
        <4>2. r \in Replied /\ r.fnum = Query.fnum
          BY <1>2, <4>1, AnswerType DEF Answer, ReqOp
        <4>3. Answers(<<r>>) /\ parked' = parked /\ inst' = inst
          BY <2>2, <4>1 DEF Refuse, Result, srvVars, pipeVars
        <4>4. Took("read", p) /\ ~Alive(1, "read", p)
          BY <1>2, <2>2, <3>1, <4>1 DEF Took, Is, Alive, Valid
        <4> HIDE DEF r
        <4>5. \A i \in NewReads(p) : toCli'[i] = r /\ i = Len(toCli) + 1
          BY <1>5, <4>2, <4>3
        <4> QED BY <4>2, <4>3, <4>4, <4>5 DEF ReadsMove
      <3>2. CASE Query.pipe # p
        BY <1>6, <1>9, <2>2, <3>2 DEF ServeRead, ReqOp
      <3> QED BY <3>1, <3>2
    <2> QED BY <1>9, <2>1, <2>2 DEF ServeRead
  <1>10. CASE AnswerRead
    <2>1. PICK q \in parked :
             /\ \/ ClientRead(q) /\ Answers(<<Answer("read", q, srvFnum[q], "ok", s2c[q])>>)
                \/ inst[q] # "conn" /\ Answers(<<Answer("read", q, srvFnum[q], "broken", <<>>)>>) /\ UNCHANGED pipeVars
             /\ parked' = parked \ {q}
      BY <1>10 DEF AnswerRead
    <2>2. q \in Pipe /\ srvFnum[q] \in Nat /\ s2c[q] \in Seq(Message)
      BY <1>1, <2>1
    <2>3. PICK r \in Replied : /\ Answers(<<r>>) /\ Is(r, "read", q) /\ r.fnum = srvFnum[q]
                               /\ r.status # "ok" => inst'[q] # "conn"
      <3>1. CASE ClientRead(q) /\ Answers(<<Answer("read", q, srvFnum[q], "ok", s2c[q])>>)
        <4>1. Answer("read", q, srvFnum[q], "ok", s2c[q]) \in Replied
          BY <2>2, <3>1, AnswerType DEF ClientRead, ReqOp
        <4> QED BY <3>1, <4>1 DEF Answer, Is
      <3>2. CASE inst[q] # "conn" /\ Answers(<<Answer("read", q, srvFnum[q], "broken", <<>>)>>) /\ UNCHANGED pipeVars
        <4>1. Answer("read", q, srvFnum[q], "broken", <<>>) \in Replied
          BY <2>2, AnswerType DEF ReqOp
        <4>2. inst'[q] # "conn"
          BY <3>2 DEF pipeVars
        <4> QED BY <3>2, <4>1, <4>2 DEF Answer, Is
      <3> QED BY <2>1, <3>1, <3>2
    <2>4. \A i \in NewReads(p) : toCli'[i] = r /\ i = Len(toCli) + 1 /\ p = q
      BY <1>5, <2>3 DEF Is
    <2> QED BY <2>1, <2>3, <2>4 DEF ReadsMove
  <1>11. CASE ServeClose
    <2>1. CASE ~Valid
      BY <1>6, <1>11, <2>1 DEF ServeClose, ReqOp
    <2>2. CASE Valid
      <3> DEFINE x == Answer("read", Query.pipe, Query.fnum, "cancelled", <<>>)
                 y == Answer("close", Query.pipe, Query.fnum, "ok", <<>>)
                 b == Query.pipe \in parked
      <3>1. /\ toSrv # <<>> /\ Query.pipe \in Pipe /\ Query.fnum \in Nat /\ Query.fnum = srvFnum[Query.pipe]
            /\ parked' = parked \ {Query.pipe}
            /\ IF inst[Query.pipe] = "conn" THEN ClientClose(Query.pipe) ELSE UNCHANGED pipeVars
        BY <1>2, <1>11, <2>2 DEF ServeClose, Serve, Valid
      <3>2. inst'[Query.pipe] # "conn"
        BY <1>1, <3>1 DEF ClientClose, pipeVars
      <3>3. /\ x \in Replied /\ y \in Replied /\ ~Is(y, "read", p) /\ x.fnum = Query.fnum /\ x.pipe = Query.pipe
        BY <3>1, AnswerType DEF ReqOp, Answer, Is
      <3>4. Answers((IF b THEN <<x>> ELSE <<>>) \o <<y>>)
        BY <1>11, <2>2 DEF ServeClose
      <3>7. b <=> Query.pipe \in parked
        OBVIOUS
      <3> HIDE DEF x, y, b
      <3>5. CASE b
        <4>1. <<x>> \o <<y>> \in Seq(Replied) /\ DOMAIN (<<x>> \o <<y>>) = {1, 2}
              /\ (<<x>> \o <<y>>)[1] = x /\ (<<x>> \o <<y>>)[2] = y
          BY <3>3
        <4>2. ASSUME NEW i \in NewReads(p) PROVE toCli'[i] = x /\ i = Len(toCli) + 1
          <5>1. i \in DOMAIN toCli' \ DOMAIN toCli /\ Is(toCli'[i], "read", p)
            BY <4>2 DEF NewReads
          <5>2. Answers(<<x>> \o <<y>>)
            BY <3>4, <3>5
          <5>3. PICK j \in DOMAIN (<<x>> \o <<y>>) : toCli'[i] = (<<x>> \o <<y>>)[j] /\ i = Len(toCli) + j
            BY <1>1, <4>1, <5>1, <5>2, AnswersLonger
          <5> QED BY <3>3, <4>1, <5>1, <5>3
        <4>3. \A i \in NewReads(p) : p = Query.pipe
          BY <3>3, <4>2 DEF NewReads, Is
        <4> QED BY <3>1, <3>2, <3>3, <3>5, <3>7, <4>2, <4>3 DEF ReadsMove
      <3>6. CASE ~b
        <4>1. Answers(<<y>>)
          BY <3>3, <3>4, <3>6
        <4> QED BY <1>3, <1>5, <3>1, <3>3, <4>1
      <3> QED BY <3>5, <3>6
    <2> QED BY <2>1, <2>2
  <1>12. CASE Hangup
    BY <1>3, <1>4, <1>12 DEF Hangup
  <1> QED BY <1>7, <1>8, <1>9, <1>10, <1>11, <1>12 DEF ServerNext

\* What the reads and the requests for pipe p are after a step of the server.
LEMMA ServerReadsUnder ==
  ASSUME SessTypeOK, ServerNext, NEW p \in Pipe,
         OneUnderway("read", p), p \in parked => NoneUnderway("read", p)
  PROVE  /\ OneUnderway("read", p)' /\ (p \in parked' => NoneUnderway("read", p)')
         /\ NoneUnderway("read", p) /\ p \notin parked => NoneUnderway("read", p)' /\ p \notin parked'
         /\ \A op : NoneOf(toSrv, op, p) => NoneOf(toSrv', op, p)
  <1>1. ClientTypeOK /\ ReadsMove(p) /\ toSrv \in Seq(Wired(account)) /\ toCli \in Seq(Replied)
    BY ServerReadsMove DEF SessTypeOK, ClientTypeOK
  <1>2. PICK rs : Served(rs)
    BY ServerServes
  <1>3. /\ \A op : NoneOf(toSrv, op, p) => NoneOf(toSrv', op, p)
        /\ OnceOf(toSrv, "read", p) => OnceOf(toSrv', "read", p)
    BY <1>1, <1>2, ServedOf
  <1>4. Longer
    BY ServerReplies
  <1>5. /\ \A i \in DOMAIN toCli' : Is(toCli'[i], "read", p) => i \in NewReads(p) \/ (i \in DOMAIN toCli /\ Is(toCli[i], "read", p))
        /\ \A i \in NewReads(p) : i \in DOMAIN toCli'
    BY <1>4 DEF Longer, NewReads
  <1>6. NewReads(p) = {} => /\ NoneOf(toCli, "read", p) => NoneOf(toCli', "read", p)
                            /\ OnceOf(toCli, "read", p) => OnceOf(toCli', "read", p)
    BY <1>4, <1>5 DEF NoneOf, OnceOf, Longer
  <1>7. NoneOf(toCli, "read", p) => OnceOf(toCli', "read", p)
    <2>1. \A i, j \in NewReads(p) : i = j
      BY <1>1 DEF ReadsMove
    <2> QED BY <1>5, <2>1 DEF NoneOf, OnceOf
  <1>8. Took("read", p) => /\ ~NoneOf(toSrv, "read", p) /\ NoneOf(toCli, "read", p) /\ NoneOf(toSrv', "read", p)
                           /\ p \notin parked
    BY <1>1, TookHead DEF OneUnderway, NoneUnderway
  <1>9. CASE NewReads(p) = {} /\ (p \in parked' => p \in parked)
    BY <1>3, <1>6, <1>9 DEF OneUnderway, NoneUnderway
  <1>10. CASE NewReads(p) = {} /\ p \in parked' /\ p \notin parked
    <2>1. Took("read", p)
      BY <1>1, <1>10 DEF ReadsMove
    <2>2. NoneUnderway("read", p)'
      BY <1>6, <1>8, <1>10, <2>1 DEF NoneUnderway
    <2> QED BY <1>3, <1>6, <1>8, <1>10, <2>1, <2>2 DEF OneUnderway, NoneUnderway, NoneOf, OnceOf
  <1>11. CASE NewReads(p) # {}
    <2>1. \/ Took("read", p) /\ (p \in parked' => p \in parked)
          \/ p \in parked /\ p \notin parked'
      BY <1>1, <1>11 DEF ReadsMove
    <2>2. CASE Took("read", p) /\ (p \in parked' => p \in parked)
      BY <1>3, <1>7, <1>8, <2>2 DEF OneUnderway, NoneUnderway, NoneOf, OnceOf
    <2>3. CASE p \in parked /\ p \notin parked'
      BY <1>3, <1>7, <2>3 DEF OneUnderway, NoneUnderway, NoneOf, OnceOf
    <2> QED BY <2>1, <2>2, <2>3
  <1> QED BY <1>9, <1>10, <1>11

\* The server leaves one read of each output pipe at most.
LEMMA ServerReadsOut ==
  ASSUME SessTypeOK, SessTypeOK', Staying, Stored, IdleInv, OutReadInv, ServerNext
  PROVE  OutReadInv'
  <1>1. /\ ClientTypeOK /\ toSrv \in Seq(Wired(account)) /\ toCli \in Seq(Replied) /\ parked \subseteq srvOpen
        /\ NumberInv /\ RoundInv /\ CloseInv /\ StdInv /\ \A q \in Pipe : srvFnum[q] \in Nat
    BY DEF SessTypeOK, ClientTypeOK, ServerTypeOK, Stored
  <1>2. PICK rs : Served(rs)
    BY ServerServes
  <1>3. NumberInv' /\ UNCHANGED <<pending, fd, net>>
    <2>1. Stored'
      BY <1>2, ServedStored
    <2> QED BY <1>2, <2>1 DEF Stored, Served, Settles
  <1> SUFFICES ASSUME NEW p \in Outputs
               PROVE  (/\ OneUnderway("read", p) /\ (p \in parked => NoneUnderway("read", p))
                       /\ \A q \in {toSrv, toCli, pending} : \A i \in DOMAIN q : Is(q[i], "read", p) => q[i].fnum = 1
                       /\ NoneOf(pending, "write", p)
                       /\ Known("read", p) \/ (NoneUnderway("read", p) /\ p \notin parked)
                       /\ fd[p] = 0 => NoneUnderway("read", p) /\ p \notin parked
                       /\ net = "up" =>
                             /\ NoneOf(toSrv, "close", p) \/ inst[p] # "conn"
                             /\ \A i \in DOMAIN toCli : toCli[i].op \in {"read", "open"} /\ toCli[i].pipe = p
                                                           /\ toCli[i].status # "ok"
                                   => inst[p] # "conn")'
    BY DEF OutReadInv, OutRead
  <1>4. p \in Pipe /\ p \in Std
    BY DEF Outputs, Pipe, Std
  <1>5. /\ OneUnderway("read", p) /\ (p \in parked => NoneUnderway("read", p))
        /\ \A q \in {toSrv, toCli, pending} : \A i \in DOMAIN q : Is(q[i], "read", p) => q[i].fnum = 1
        /\ NoneOf(pending, "write", p)
        /\ Known("read", p) \/ (NoneUnderway("read", p) /\ p \notin parked)
        /\ fd[p] = 0 => NoneUnderway("read", p) /\ p \notin parked
        /\ net = "up" =>
              /\ NoneOf(toSrv, "close", p) \/ inst[p] # "conn"
              /\ \A i \in DOMAIN toCli : toCli[i].op \in {"read", "open"} /\ toCli[i].pipe = p /\ toCli[i].status # "ok"
                    => inst[p] # "conn"
    BY DEF OutReadInv, OutRead
  <1>6. /\ OneUnderway("read", p)' /\ (p \in parked' => NoneUnderway("read", p)')
        /\ NoneUnderway("read", p) /\ p \notin parked => NoneUnderway("read", p)' /\ p \notin parked'
        /\ \A op : NoneOf(toSrv, op, p) => NoneOf(toSrv', op, p)
    BY <1>4, <1>5, ServerReadsUnder
  <1>7. /\ Known("read", p)' \/ (NoneUnderway("read", p)' /\ p \notin parked')
        /\ fd'[p] = 0 => NoneUnderway("read", p)' /\ p \notin parked'
    BY <1>3, <1>5, <1>6 DEF Known
  <1>8. ReadsMove(p) /\ PipeMoves(p) /\ Longer
    BY <1>4, ServerReadsMove, ServerPipes, ServerReplies
  <1>9. p \in srvOpen => srvFnum[p] = 1
    BY <1>1, <1>4 DEF NumberInv, StdInv
  <1>10. Took("read", p) => Query.fnum = 1 /\ Query = toSrv[1] /\ Is(toSrv[1], "read", p)
    BY <1>1, <1>5, TookHead
  <1>11. /\ \A i \in DOMAIN toSrv' : \E k \in DOMAIN toSrv : toSrv'[i] = toSrv[k]
         /\ \A i \in DOMAIN toCli' : Is(toCli'[i], "read", p) =>
               i \in NewReads(p) \/ (i \in DOMAIN toCli /\ toCli'[i] = toCli[i])
    BY <1>1, <1>2, <1>8, ServedOf DEF Longer, NewReads
  <1>12. \A i \in NewReads(p) : toCli'[i].fnum = 1
    <2>1. \A i \in NewReads(p) : \/ Took("read", p) /\ toCli'[i].fnum = Query.fnum
                                 \/ p \in parked /\ toCli'[i].fnum = srvFnum[p]
      BY <1>8 DEF ReadsMove
    <2> QED BY <1>1, <1>9, <1>10, <2>1
  <1>13. \A q \in {toSrv', toCli', pending'} : \A i \in DOMAIN q : Is(q[i], "read", p) => q[i].fnum = 1
    BY <1>3, <1>5, <1>11, <1>12
  <1>14. ASSUME net' = "up"
         PROVE  NoneOf(toSrv', "close", p) \/ inst'[p] # "conn"
    <2>1. CASE NoneOf(toSrv, "close", p)
      BY <1>6, <2>1
    <2>2. CASE ~NoneOf(toSrv, "close", p)
      <3>1. NoneUnderway("open", p) /\ inst[p] # "conn"
        BY <1>1, <1>3, <1>4, <1>5, <1>14, <2>2 DEF CloseInv, NoneOf
      <3>2. ~Took("open", p)
        BY <1>1, <3>1, TookHead DEF NoneUnderway
      <3> QED BY <1>8, <3>1, <3>2 DEF PipeMoves
    <2> QED BY <2>1, <2>2
  <1>15. ASSUME net' = "up", NEW i \in DOMAIN toCli', toCli'[i].op \in {"read", "open"}, toCli'[i].pipe = p,
                toCli'[i].status # "ok"
         PROVE  inst'[p] # "conn"
    <2>1. CASE i \in DOMAIN toCli
      <3>1. toCli'[i] = toCli[i] /\ inst[p] # "conn"
        BY <1>3, <1>5, <1>8, <1>15, <2>1 DEF Longer
      <3>2. ~Took("open", p)
        <4>1. ASSUME Took("open", p) PROVE FALSE
          <5>1. ~NoneOf(toSrv, "open", p)
            BY <1>1, <4>1, TookHead
          <5>2. OneUnderway("open", p) /\ fd[p] = 0
            BY <1>1, <1>4, <5>1 DEF RoundInv, StdInv, NoneUnderway
          <5>3. NoneOf(toCli, "open", p) /\ NoneOf(toCli, "read", p)
            BY <1>5, <5>1, <5>2 DEF OneUnderway, NoneUnderway
          <5> QED BY <1>15, <2>1, <3>1, <5>3 DEF NoneOf, Is
        <4> QED BY <4>1
      <3> QED BY <1>8, <3>1, <3>2 DEF PipeMoves
    <2>2. CASE i \notin DOMAIN toCli /\ toCli'[i].op = "read"
      <3>1. i \in NewReads(p)
        BY <1>15, <2>2 DEF NewReads, Is
      <3>2. \/ Took("read", p) /\ ~Alive(1, "read", p) /\ inst'[p] = inst[p]
            \/ inst'[p] # "conn"
        BY <1>8, <1>15, <3>1 DEF ReadsMove
      <3>3. ASSUME Took("read", p), ~Alive(1, "read", p), inst[p] = "conn" PROVE FALSE
        <4>1. p \in srvOpen
          BY <1>4, <3>3 DEF IdleInv
        <4> QED BY <1>9, <1>10, <3>3, <4>1 DEF Alive
      <3> QED BY <3>2, <3>3
    <2>3. CASE i \notin DOMAIN toCli /\ toCli'[i].op = "open"
      <3>1. PICK j \in DOMAIN rs : toCli'[i] = rs[j]
        BY <1>1, <1>2, <2>3, ServedReply
      <3>2. Took("open", p) /\ srvFnum'[p] = srvFnum[p]
        BY <1>2, <1>15, <2>3, <3>1 DEF Served, Due
      <3>3. srvFnum[p] = 0
        BY <1>1, <1>4, <3>2, TookHead DEF StdInv
      <3>4. p \notin srvOpen /\ p \notin srvOpen'
        BY <1>1, <1>3, <1>4, <3>2, <3>3 DEF NumberInv
      <3>5. inst[p] # "conn"
        BY <1>4, <3>4 DEF IdleInv
      <3> QED BY <1>8, <3>4, <3>5 DEF PipeMoves
    <2> QED BY <1>15, <2>1, <2>2, <2>3
  <1>16. NoneOf(pending', "write", p)
    BY <1>3, <1>5
  <1> QED BY <1>6, <1>7, <1>13, <1>14, <1>15, <1>16

\* The invariant is kept by the server.
LEMMA ServerRuns ==
  ASSUME SessTypeOK, SessTypeOK', ServiceInv, StoreInv, RunInv, ServerNext
  PROVE  RunInv'
  <1>1. /\ IdleInv /\ AskInv /\ HeldInv /\ LineInv /\ CodeInv
        /\ Staying => OutReadInv /\ FlowInv /\ Stored
    BY DEF RunInv, StoreInv
  <1>2. mode' = mode /\ net' = net
    BY DEF ServerNext, stateVars
  <1>3. IdleInv' /\ CodeInv'
    BY <1>1, ServerIdle, ServerCode
  <1>4. AskInv' /\ HeldInv'
    <2>1. CASE Up
      BY <1>1, <2>1, ServerAsk, ServerHeld DEF Up, Stored
    <2>2. CASE ~Up
      BY <1>2, <2>2 DEF Up, Staying, AskInv, HeldInv
    <2> QED BY <2>1, <2>2
  <1>5. LineInv'
    BY <1>1, ServerLine
  <1>6. ASSUME Staying' PROVE OutReadInv' /\ FlowInv'
    <2>1. Staying
      BY <1>2, <1>6 DEF Staying
    <2> QED BY <1>1, <2>1, ServerReadsOut, ServerFlow DEF ServiceInv
  <1> QED BY <1>3, <1>4, <1>5, <1>6 DEF RunInv

-----------------------------------------------------------------------------
\* Steps of the client, for an output pipe p.

\* What becomes of the wire and of the pipe.
PipeStays(p) ==
    /\ UNCHANGED <<srvVars, wrote>> /\ s2c'[p] = s2c[p] /\ (inst'[p] = "conn" => inst[p] = "conn")
    /\ Taken /\ (net' = "up" => net = "up")

\* No read of p is sent, ...
ReadsKept(p) ==
    /\ shown'[p] = shown[p]
    /\ ~(Popped("read", p) /\ Reply.status = "ok")
    /\ \E rs \in Seq(Wired(account)) :
          Adds(rs) /\ NoneOf(rs, "read", p) /\ (net' = "up" /\ ~NoneOf(rs, "close", p) => inst[p] # "conn")
    /\ \A i \in DOMAIN pending' : Is(pending'[i], "read", p) => pending'[i].fnum = 1
    /\ NoneOf(pending', "write", p)
    /\ Known("read", p)' \/ (NoneUnderway("read", p) /\ p \notin parked) \/ Popped("read", p)
    /\ fd'[p] = 0 => fd[p] = 0

\* ... or the next one, on the first read or when the last one is answered.
ReadsAgain(p) ==
    /\ \/ Popped("read", p) /\ Reply.status = "ok" /\ shown'[p] = shown[p] + Len(Reply.data)
       \/ Popped("open", p) /\ Reply.status = "ok" /\ shown'[p] = shown[p]
    /\ \E r \in Wired(account) : Adds(<<r>>) /\ Is(r, "read", p) /\ r.fnum = 1
    /\ \A i \in DOMAIN pending' : Is(pending'[i], "read", p) => pending'[i].fnum = 1
    /\ NoneOf(pending', "write", p)
    /\ Known("read", p)' /\ fd'[p] # 0

\* A reply that was taken was there.
LEMMA PoppedReply ==
  ASSUME ClientTypeOK, NEW op, NEW p, Popped(op, p)
  PROVE  /\ toCli \in Seq(Replied) /\ 1 \in DOMAIN toCli /\ Reply = toCli[1] /\ Is(toCli[1], op, p) /\ ~NoneOf(toCli, op, p)
         /\ OnceOf(toCli, op, p) => NoneOf(toCli', op, p)
         /\ DOMAIN toCli = 1..Len(toCli) /\ DOMAIN toCli' = 1..(Len(toCli) - 1) /\ Len(toCli) \in Nat
         /\ \A k \in DOMAIN toCli' : k + 1 \in DOMAIN toCli /\ toCli'[k] = toCli[k + 1]
  <1>1. toCli \in Seq(Replied) /\ toCli # <<>> /\ toCli' = Tail(toCli) /\ Is(Head(toCli), op, p) /\ Reply = Head(toCli)
    BY DEF ClientTypeOK, Popped, Reply
  <1>2. OnceOf(toCli, op, p) => NoneOf(toCli', op, p)
    BY <1>1, TailOf
  <1>3. /\ DOMAIN toCli = 1..Len(toCli) /\ DOMAIN toCli' = 1..(Len(toCli) - 1) /\ Len(toCli) \in Nat
        /\ 1 \in DOMAIN toCli /\ Head(toCli) = toCli[1]
        /\ \A k \in DOMAIN toCli' : k + 1 \in DOMAIN toCli /\ toCli'[k] = toCli[k + 1]
    BY <1>1, TailElements
  <1> QED BY <1>1, <1>2, <1>3 DEF NoneOf

\* A client that sends no read, or the next one, has one read of p at most.
LEMMA OutStep ==
  ASSUME SessTypeOK, Stored, NEW p \in Outputs, OutRead(p), PipeStays(p), ReadsKept(p) \/ ReadsAgain(p)
  PROVE  OutRead(p)'
  <1>1. /\ ClientTypeOK /\ toSrv \in Seq(Wired(account)) /\ toCli \in Seq(Replied) /\ StdInv
        /\ parked' = parked /\ Taken /\ (net' = "up" => net = "up") /\ p \in Std
    BY DEF SessTypeOK, ClientTypeOK, Stored, PipeStays, srvVars, Outputs, Std
  <1>2. /\ OneUnderway("read", p) /\ (p \in parked => NoneUnderway("read", p))
        /\ \A q \in {toSrv, toCli, pending} : \A i \in DOMAIN q : Is(q[i], "read", p) => q[i].fnum = 1
        /\ NoneOf(pending, "write", p)
        /\ Known("read", p) \/ (NoneUnderway("read", p) /\ p \notin parked)
        /\ fd[p] = 0 => NoneUnderway("read", p) /\ p \notin parked
        /\ net = "up" =>
              /\ NoneOf(toSrv, "close", p) \/ inst[p] # "conn"
              /\ \A i \in DOMAIN toCli : toCli[i].op \in {"read", "open"} /\ toCli[i].pipe = p /\ toCli[i].status # "ok"
                    => inst[p] # "conn"
    BY DEF OutRead
  <1>3. /\ NoneOf(toCli, "read", p) => NoneOf(toCli', "read", p)
        /\ OnceOf(toCli, "read", p) => OnceOf(toCli', "read", p)
        /\ OnceOf(toCli, "read", p) /\ Popped("read", p) => NoneOf(toCli', "read", p)
    BY <1>1, TakenOf
  <1>4. \A i \in DOMAIN toCli' : \E k \in DOMAIN toCli : toCli'[i] = toCli[k]
    BY <1>1, TakenElements
  <1>5. Popped("read", p) => NoneOf(toSrv, "read", p) /\ NoneOf(toCli', "read", p) /\ p \notin parked
    BY <1>1, <1>2, <1>3, PoppedReply DEF OneUnderway, NoneUnderway
  <1>6. Popped("open", p) => NoneUnderway("read", p) /\ p \notin parked
    BY <1>1, <1>2, PoppedReply DEF StdInv, NoneUnderway
  <1>7. net' = "up" => \A i \in DOMAIN toCli' :
           toCli'[i].op \in {"read", "open"} /\ toCli'[i].pipe = p /\ toCli'[i].status # "ok" => inst'[p] # "conn"
    BY <1>1, <1>2, <1>4 DEF PipeStays
  <1>8. CASE ReadsKept(p)
    <2>1. PICK rs \in Seq(Wired(account)) :
             Adds(rs) /\ NoneOf(rs, "read", p) /\ (net' = "up" /\ ~NoneOf(rs, "close", p) => inst[p] # "conn")
      BY <1>8 DEF ReadsKept
    <2>2. /\ NoneOf(toSrv, "read", p) => NoneOf(toSrv', "read", p)
          /\ OnceOf(toSrv, "read", p) => OnceOf(toSrv', "read", p)
          /\ NoneOf(toSrv, "close", p) /\ NoneOf(rs, "close", p) => NoneOf(toSrv', "close", p)
      BY <1>1, <2>1, AddsOf
    <2>3. /\ OneUnderway("read", p)'
          /\ NoneUnderway("read", p) => NoneUnderway("read", p)'
          /\ Popped("read", p) => NoneUnderway("read", p)'
      BY <1>2, <1>3, <1>5, <2>2 DEF OneUnderway, NoneUnderway
    <2>4. Known("read", p)' \/ (NoneUnderway("read", p)' /\ p \notin parked')
      BY <1>1, <1>5, <1>8, <2>3 DEF ReadsKept
    <2>5. fd'[p] = 0 => NoneUnderway("read", p)' /\ p \notin parked'
      BY <1>1, <1>2, <1>8, <2>3 DEF ReadsKept
    <2>6. \A i \in DOMAIN toSrv' : Is(toSrv'[i], "read", p) => toSrv'[i].fnum = 1
      BY <1>1, <1>2, <2>1, AddsElements DEF NoneOf
    <2>7. \A q \in {toSrv', toCli', pending'} : \A i \in DOMAIN q : Is(q[i], "read", p) => q[i].fnum = 1
      BY <1>2, <1>4, <1>8, <2>6 DEF ReadsKept
    <2>8. net' = "up" => NoneOf(toSrv', "close", p) \/ inst'[p] # "conn"
      BY <1>1, <1>2, <2>1, <2>2 DEF PipeStays
    <2>9. NoneOf(pending', "write", p)
      BY <1>8 DEF ReadsKept
    <2> QED BY <1>1, <1>2, <1>7, <2>3, <2>4, <2>5, <2>7, <2>8, <2>9 DEF OutRead
  <1>9. CASE ReadsAgain(p)
    <2>1. PICK r \in Wired(account) : Adds(<<r>>) /\ Is(r, "read", p) /\ r.fnum = 1
      BY <1>9 DEF ReadsAgain
    <2>2. <<r>> \in Seq(Wired(account)) /\ OnceOf(<<r>>, "read", p) /\ NoneOf(<<r>>, "close", p)
      BY <2>1 DEF OnceOf, NoneOf, Is
    <2>3. /\ NoneOf(toSrv, "read", p) => OnceOf(toSrv', "read", p)
          /\ NoneOf(toSrv, "close", p) => NoneOf(toSrv', "close", p)
      BY <1>1, <2>1, <2>2, AddsOf
    <2>4. NoneOf(toSrv, "read", p) /\ NoneOf(toCli', "read", p) /\ p \notin parked
      BY <1>3, <1>5, <1>6, <1>9 DEF ReadsAgain, NoneUnderway
    <2>5. OneUnderway("read", p)'
      BY <2>3, <2>4 DEF OneUnderway, OnceOf, NoneOf
    <2>6. \A i \in DOMAIN toSrv' : Is(toSrv'[i], "read", p) => toSrv'[i].fnum = 1
      <3> DEFINE rs == <<r>>
      <3>1. rs \in Seq(Wired(account)) /\ Adds(rs) /\ \A j \in DOMAIN rs : rs[j].fnum = 1
        BY <2>1, <2>2
      <3> HIDE DEF rs
      <3> QED BY <1>1, <1>2, <3>1, AddsElements
    <2>7. \A q \in {toSrv', toCli', pending'} : \A i \in DOMAIN q : Is(q[i], "read", p) => q[i].fnum = 1
      BY <1>2, <1>4, <1>9, <2>6 DEF ReadsAgain
    <2>8. net' = "up" => NoneOf(toSrv', "close", p) \/ inst'[p] # "conn"
      BY <1>1, <1>2, <2>3 DEF PipeStays
    <2>9. Known("read", p)' /\ fd'[p] # 0 /\ NoneOf(pending', "write", p)
      BY <1>9 DEF ReadsAgain
    <2> QED BY <1>1, <1>7, <2>4, <2>5, <2>7, <2>8, <2>9 DEF OutRead
  <1> QED BY <1>8, <1>9

\* What it shows is what was in the answer that it took.
LEMMA FlowStep ==
  ASSUME SessTypeOK, NEW p \in Outputs, OutRead(p), Flow(p), PipeStays(p), ReadsKept(p) \/ ReadsAgain(p),
         codeSeen' => codeSeen \/ (Popped("read", "ctrl") /\ Coder(1))
  PROVE  Flow(p)'
  <1>1. /\ ClientTypeOK /\ toCli \in Seq(Replied) /\ p # "ctrl"
        /\ Taken /\ (net' = "up" => net = "up") /\ s2c'[p] = s2c[p] /\ wrote'[p] = wrote[p]
        /\ wrote[p] \in Nat /\ shown[p] \in Nat /\ Len(s2c[p]) \in Nat
        /\ \A i \in DOMAIN toCli : Good(i, "read", p) => Len(toCli[i].data) \in Nat
    <2>1. s2c \in [Pipe -> Seq(Message)] /\ wrote \in [Outputs -> Nat] /\ shown \in [Outputs -> Nat]
      BY DEF Outputs, SessTypeOK, ConnTypeOK, PipeTypeOK, ClientTypeOK, ServerTypeOK
    <2>2. toCli \in Seq(Replied) /\ ClientTypeOK /\ p # "ctrl" /\ p \in Pipe
      BY DEF SessTypeOK, ClientTypeOK, Outputs, Pipe
    <2>3. \A i \in DOMAIN toCli : toCli[i] \in Replied
      BY <2>2
    <2>4. wrote[p] \in Nat /\ shown[p] \in Nat /\ Len(s2c[p]) \in Nat
      BY <2>1, <2>2
    <2> QED BY <2>2, <2>3, <2>4 DEF PipeStays, Replied
  <1>2. /\ shown[p] <= wrote[p]
        /\ \A i \in DOMAIN toCli : Good(i, "read", p) => shown[p] + Len(toCli[i].data) <= wrote[p]
        /\ net = "up" =>
              /\ \A i \in DOMAIN toCli : Good(i, "read", p) =>
                    shown[p] + Len(toCli[i].data) + Len(s2c[p]) = wrote[p]
              /\ NoneGood("read", p) => shown[p] + Len(s2c[p]) = wrote[p]
        /\ \A i \in DOMAIN toCli : Coder(i) =>
              /\ \A j \in DOMAIN toCli : Good(j, "read", p) => j < i /\ shown[p] + Len(toCli[j].data) = wrote[p]
              /\ NoneGood("read", p) => shown[p] = wrote[p]
        /\ codeSeen => shown[p] = wrote[p] /\ NoneGood("read", p)
    BY DEF Flow
  <1>3. PICK d \in {0, 1} : /\ \A k \in DOMAIN toCli' : k \in Nat /\ k + d \in DOMAIN toCli /\ toCli'[k] = toCli[k + d]
                            /\ d = 0 => toCli' = toCli
                            /\ d = 1 => toCli # <<>> /\ toCli' = Tail(toCli) /\ Reply = toCli[1] /\ 1 \in DOMAIN toCli
    BY <1>1, TakenElements
  <1>4. \A k \in DOMAIN toCli' : /\ Good(k, "read", p)' <=> Good(k + d, "read", p)
                                 /\ Coder(k)' <=> Coder(k + d)
    BY <1>3 DEF Good, Coder, Fetched
  <1>5. CASE shown'[p] = shown[p] /\ ~(Popped("read", p) /\ Reply.status = "ok")
    <2>1. NoneGood("read", p)' => NoneGood("read", p)
      <3>1. CASE d = 0
        BY <1>3, <3>1 DEF NoneGood, Good
      <3>2. CASE d = 1
        <4>1. ASSUME NEW i \in DOMAIN toCli, Good(i, "read", p), NoneGood("read", p)' PROVE FALSE
          <5>1. i # 1
            BY <1>3, <1>5, <3>2, <4>1 DEF Good, Popped
          <5>2. i - 1 \in DOMAIN toCli' /\ (i - 1) + d = i
            BY <1>1, <1>3, <3>2, <4>1, <5>1, TailElements
          <5> QED BY <1>4, <4>1, <5>2 DEF NoneGood
        <4> QED BY <4>1 DEF NoneGood
      <3> QED BY <3>1, <3>2
    <2>2. ASSUME NEW i \in DOMAIN toCli', Good(i, "read", p)'
          PROVE  /\ shown'[p] + Len(toCli'[i].data) <= wrote'[p]
                 /\ net' = "up" => shown'[p] + Len(toCli'[i].data) + Len(s2c'[p]) = wrote'[p]
      BY <1>1, <1>2, <1>3, <1>4, <1>5, <2>2
    <2>3. ASSUME NEW i \in DOMAIN toCli', Coder(i)'
          PROVE  /\ \A j \in DOMAIN toCli' : Good(j, "read", p)' => j < i /\ shown'[p] + Len(toCli'[j].data) = wrote'[p]
                 /\ NoneGood("read", p)' => shown'[p] = wrote'[p]
      <3>1. Coder(i + d) /\ i + d \in DOMAIN toCli
        BY <1>3, <1>4, <2>3
      <3>2. ASSUME NEW j \in DOMAIN toCli', Good(j, "read", p)'
            PROVE  j < i /\ shown'[p] + Len(toCli'[j].data) = wrote'[p]
        <4>1. Good(j + d, "read", p) /\ j + d \in DOMAIN toCli /\ toCli'[j] = toCli[j + d]
          BY <1>3, <1>4, <3>2
        <4>2. j + d < i + d /\ shown[p] + Len(toCli[j + d].data) = wrote[p]
          BY <1>2, <3>1, <4>1
        <4>3. i \in Nat /\ j \in Nat /\ d \in Nat
          BY <1>3
        <4>4. j < i
          BY <4>2, <4>3
        <4> QED BY <1>1, <1>5, <4>1, <4>2, <4>4
      <3> QED BY <1>1, <1>2, <1>5, <2>1, <3>1, <3>2
    <2>4. codeSeen' => shown'[p] = wrote'[p] /\ NoneGood("read", p)'
      <3> SUFFICES ASSUME codeSeen' PROVE shown[p] = wrote[p] /\ NoneGood("read", p)
        BY <1>1, <1>3, <1>4, <1>5 DEF NoneGood
      <3>1. CASE Popped("read", "ctrl") /\ Coder(1)
        <4>1. 1 \in DOMAIN toCli /\ DOMAIN toCli = 1..Len(toCli)
          BY <1>1, <3>1, PoppedReply
        <4>2. NoneGood("read", p)
          BY <1>2, <3>1, <4>1 DEF NoneGood
        <4> QED BY <1>2, <3>1, <4>1, <4>2
      <3> QED BY <1>2, <3>1
    <2> QED BY <1>1, <1>2, <1>5, <2>1, <2>2, <2>3, <2>4 DEF Flow
  <1>6. CASE Popped("read", p) /\ Reply.status = "ok" /\ shown'[p] = shown[p] + Len(Reply.data)
    <2>1. /\ 1 \in DOMAIN toCli /\ Reply = toCli[1] /\ Good(1, "read", p) /\ NoneOf(toCli', "read", p)
          /\ toCli' = Tail(toCli)
      BY <1>1, <1>6, PoppedReply DEF OutRead, OneUnderway, Good, Popped
    <2>2. /\ Len(toCli[1].data) \in Nat /\ shown'[p] = shown[p] + Len(toCli[1].data)
          /\ shown[p] + Len(toCli[1].data) <= wrote[p]
          /\ net = "up" => shown[p] + Len(toCli[1].data) + Len(s2c[p]) = wrote[p]
      BY <1>1, <1>2, <1>6, <2>1
    <2>3. \A i \in DOMAIN toCli' : ~Good(i, "read", p)'
      BY <2>1 DEF NoneOf, Good
    <2>4. \A i \in DOMAIN toCli' : Coder(i)' => shown'[p] = wrote'[p]
      BY <1>1, <1>2, <1>3, <1>4, <2>1, <2>2
    <2>5. ~codeSeen'
      <3>1. ~codeSeen
        BY <1>2, <2>1 DEF NoneGood
      <3>2. ~Popped("read", "ctrl")
        BY <1>1, <1>6 DEF Popped, Is
      <3> QED BY <3>1, <3>2
    <2> QED BY <1>1, <2>2, <2>3, <2>4, <2>5 DEF Flow
  <1>7. Popped("open", p) => ~Popped("read", p)
    BY DEF Popped, Is
  <1> QED BY <1>5, <1>6, <1>7 DEF ReadsKept, ReadsAgain

\* What waits after a callback waited before or was sent by it.
LEMMA AddedElements ==
  ASSUME ClientTypeOK, NEW rest \in Seq(Waiting), NEW rs \in Seq(Wired(account)), Asks(rest, rs), NEW k \in DOMAIN pending'
  PROVE  \/ \E i \in DOMAIN rest : pending'[k] = rest[i]
         \/ \E j \in DOMAIN rs : /\ pending'[k].op = rs[j].op /\ pending'[k].pipe = rs[j].pipe
                                 /\ pending'[k].fnum = rs[j].fnum
  <1>1. Added(rs) \in Seq(Waiting) /\ Len(Added(rs)) = Len(rs) /\ rs \in Seq(Wired(account))
    BY AddedType DEF ClientTypeOK
  <1>2. CASE pending' = rest
    BY <1>2
  <1>3. CASE pending' = rest \o Added(rs)
    <2>1. CASE k \in DOMAIN rest /\ pending'[k] = rest[k]
      BY <2>1
    <2>2. CASE k - Len(rest) \in DOMAIN Added(rs) /\ pending'[k] = Added(rs)[k - Len(rest)]
      <3>1. k - Len(rest) \in DOMAIN rs
        BY <1>1, <2>2
      <3> QED BY <2>2, <3>1 DEF Added
    <2>3. k \in DOMAIN (rest \o Added(rs))
      BY <1>3
    <2> QED BY <1>1, <1>3, <2>1, <2>2, <2>3, ConcatSplit
  <1> QED BY <1>2, <1>3 DEF Asks

\* When a step sends rs and none of them reads p, the read of p is kept, ...
LEMMA KeptWith ==
  ASSUME SessTypeOK, NEW p \in Outputs, OutRead(p), NEW rest \in Seq(Waiting), Within(rest, pending),
         NEW rs \in Seq(Wired(account)), Asks(rest, rs), Adds(rs), NoneOf(rs, "read", p),
         net' = "up" /\ ~NoneOf(rs, "close", p) => inst[p] # "conn",
         ~(Popped("read", p) /\ Reply.status = "ok"), shown'[p] = shown[p], fd'[p] = 0 => fd[p] = 0,
         net = "dead" => net' = "dead",
         NoneOf(rest, "read", p) => \/ NoneOf(pending, "read", p) \/ Popped("read", p) \/ net' = "dead"
                                    \/ NoneUnderway("read", p) /\ p \notin parked
  PROVE  ReadsKept(p)
  <1>1. /\ ClientTypeOK
        /\ \A i \in DOMAIN pending : Is(pending[i], "read", p) => pending[i].fnum = 1
        /\ NoneOf(pending, "write", p)
        /\ Known("read", p) \/ (NoneUnderway("read", p) /\ p \notin parked)
    BY DEF SessTypeOK, OutRead
  <1>2. \A i \in DOMAIN pending' : Is(pending'[i], "read", p) => pending'[i].fnum = 1
    <2> TAKE i \in DOMAIN pending'
    <2>1. CASE \E j \in DOMAIN rest : pending'[i] = rest[j]
      BY <1>1, <2>1 DEF Within
    <2>2. CASE \E j \in DOMAIN rs : pending'[i].op = rs[j].op /\ pending'[i].pipe = rs[j].pipe
      BY <2>2 DEF NoneOf, Is
    <2> QED BY <1>1, <2>1, <2>2, AddedElements
  <1>3. NoneOf(rs, "write", p)
    BY DEF Wired, NoneOf, Is, Outputs
  <1>4. NoneOf(rest, "write", p)
    BY <1>1 DEF Within, NoneOf
  <1>5. NoneOf(pending', "write", p) /\ (NoneOf(pending', "read", p) => NoneOf(rest, "read", p))
    BY <1>1, <1>3, <1>4, AsksOf
  <1>6. Known("read", p)' \/ (NoneUnderway("read", p) /\ p \notin parked) \/ Popped("read", p)
    BY <1>1, <1>5 DEF Known
  <1> QED BY <1>2, <1>5, <1>6 DEF ReadsKept

\* ... and when it sends one read for an answer that was a success, p is read again.
LEMMA AgainWith ==
  ASSUME SessTypeOK, NEW p \in Outputs, OutRead(p), NEW rest \in Seq(Waiting), Within(rest, pending),
         NEW r \in Wired(account), Is(r, "read", p), r.fnum = 1, SendOn(net, rest, <<r>>),
         net' = net, fd'[p] # 0, Reply.status = "ok",
         \/ Popped("read", p) /\ shown'[p] = shown[p] + Len(Reply.data)
         \/ Popped("open", p) /\ shown'[p] = shown[p]
  PROVE  ReadsAgain(p)
  <1> DEFINE rs == <<r>>
  <1>1. rs \in Seq(Wired(account)) /\ DOMAIN rs = {1} /\ rs[1] = r /\ SendOn(net, rest, rs) /\ rs = <<r>>
    OBVIOUS
  <1> HIDE DEF rs
  <1>2. Adds(rs) /\ Asks(rest, rs) /\ (net # "dead" => pending' = rest \o Added(rs))
    BY <1>1, SendAdds, SendAsks
  <1>3. /\ ClientTypeOK
        /\ \A i \in DOMAIN pending : Is(pending[i], "read", p) => pending[i].fnum = 1
        /\ NoneOf(pending, "write", p)
    BY DEF SessTypeOK, OutRead
  <1>4. \A i \in DOMAIN pending' : Is(pending'[i], "read", p) => pending'[i].fnum = 1
    <2> TAKE i \in DOMAIN pending'
    <2>1. CASE \E j \in DOMAIN rest : pending'[i] = rest[j]
      BY <1>3, <2>1 DEF Within
    <2>2. CASE \E j \in DOMAIN rs : pending'[i].fnum = rs[j].fnum
      BY <1>1, <2>2
    <2> QED BY <1>1, <1>2, <1>3, <2>1, <2>2, AddedElements
  <1>5. NoneOf(rs, "write", p) /\ ~NoneOf(rs, "read", p)
    BY <1>1 DEF NoneOf, Is
  <1>6. NoneOf(rest, "write", p)
    BY <1>3 DEF Within, NoneOf
  <1>7. NoneOf(pending', "write", p) /\ (net # "dead" => ~NoneOf(pending', "read", p))
    BY <1>1, <1>2, <1>3, <1>5, <1>6, AsksOf
  <1>8. Known("read", p)'
    BY <1>7 DEF Known
  <1> QED BY <1>1, <1>2, <1>4, <1>7, <1>8 DEF ReadsAgain

\* What waits once the first reply is taken.
LEMMA ReceivedRest ==
  ASSUME SessTypeOK, NEW op, NEW ok, Receive(op, ok)
  PROVE  /\ Rest(Reply) \in Seq(Waiting) /\ Within(Rest(Reply), pending)
         /\ Reply.op = op /\ Reply.pipe \in Pipe
         /\ \A o, p : Popped(o, p) <=> o = op /\ p = Reply.pipe
         /\ \A p : NoneOf(Rest(Reply), "read", p) => NoneOf(pending, "read", p) \/ Popped("read", p)
  <1>1. ClientTypeOK /\ Matching(Reply) # {} /\ Reply.op = op
    BY DEF SessTypeOK, Receive
  <1>2. /\ Fewer(Rest(Reply), Reply) /\ Reply.pipe \in Pipe
        /\ \A o, p : Popped(o, p) <=> o = op /\ p = Reply.pipe
    BY <1>1, Received
  <1> QED BY <1>1, <1>2, RestWithin DEF Fewer, Less, Is

\* Nothing is sent.
LEMMA SilentReads ==
  ASSUME SessTypeOK, NEW p \in Outputs, OutRead(p), NEW rest \in Seq(Waiting), Within(rest, pending),
         pending' = rest, toSrv' = toSrv,
         ~(Popped("read", p) /\ Reply.status = "ok"), shown'[p] = shown[p], fd'[p] = fd[p],
         net = "dead" => net' = "dead",
         NoneOf(rest, "read", p) => \/ NoneOf(pending, "read", p) \/ Popped("read", p) \/ net' = "dead"
                                    \/ NoneUnderway("read", p) /\ p \notin parked
  PROVE  ReadsKept(p)
  <1> DEFINE rs == <<>>
  <1>1. rs \in Seq(Wired(account)) /\ \A op, q : NoneOf(rs, op, q)
    BY DEF NoneOf
  <1> HIDE DEF rs
  <1>2. Asks(rest, rs) /\ Adds(rs)
    BY DEF Asks, Adds
  <1> QED BY <1>1, <1>2, KeptWith

\* Only requests for the control pipe, or that are neither a read nor a close.
LEMMA OtherReads ==
  ASSUME SessTypeOK, NEW p \in Outputs, OutRead(p), NEW rest \in Seq(Waiting), Within(rest, pending),
         NEW link, NEW rs \in Seq(Wired(account)), SendOn(link, rest, rs),
         \A j \in DOMAIN rs : rs[j].pipe # p \/ rs[j].op \notin {"read", "close"},
         ~(Popped("read", p) /\ Reply.status = "ok"), shown'[p] = shown[p], fd'[p] = 0 => fd[p] = 0,
         net = "dead" => net' = "dead",
         NoneOf(rest, "read", p) => NoneOf(pending, "read", p) \/ Popped("read", p)
  PROVE  ReadsKept(p)
  <1>1. NoneOf(rs, "read", p) /\ NoneOf(rs, "close", p)
    BY DEF NoneOf, Is
  <1>2. Asks(rest, rs) /\ Adds(rs)
    BY SendAsks, SendAdds
  <1> QED BY <1>1, <1>2, KeptWith

\* A reply for a read that the client waits for is not dropped.
LEMMA DropReads ==
  ASSUME SessTypeOK, Stored, NEW p \in Outputs, OutRead(p), DropReply
  PROVE  ReadsKept(p)
  <1>1. /\ ClientTypeOK /\ pending \in Seq(Waiting) /\ toCli # <<>> /\ Matching(Reply) = {}
        /\ UNCHANGED <<pending, toSrv, shown, fd, net>>
    BY DEF SessTypeOK, ClientTypeOK, DropReply, reqVars, userVars, ioVars
  <1>2. ~Popped("read", p)
    <2>1. ASSUME Popped("read", p)
          PROVE  FALSE
      <3>1. Reply = toCli[1] /\ 1 \in DOMAIN toCli /\ Is(toCli[1], "read", p) /\ ~NoneOf(toCli, "read", p)
        BY <1>1, <2>1, PoppedReply
      <3>2. net # "dead"
        BY <1>1 DEF Stored, RoundInv
      <3>3. ~NoneOf(pending, "read", p)
        BY <3>1, <3>2 DEF OutRead, Known, NoneUnderway
      <3>4. PICK i \in DOMAIN pending : Is(pending[i], "read", p)
        BY <3>3 DEF NoneOf
      <3>5. pending[i].fnum = 1 /\ toCli[1].fnum = 1
        BY <3>1, <3>4 DEF OutRead
      <3>6. i \in Matching(Reply)
        BY <3>1, <3>4, <3>5 DEF Matching, Is
      <3> QED BY <1>1, <3>6
    <2> QED BY <2>1
  <1>3. Within(pending, pending)
    BY DEF Within
  <1> QED BY <1>1, <1>2, <1>3, SilentReads

\* The completion of a write reads no output, ...
LEMMA WrittenReads ==
  ASSUME SessTypeOK, NEW p \in Outputs, OutRead(p), Written
  PROVE  ReadsKept(p)
  <1>1. Receive("write", TRUE) /\ pending' = Rest(Reply) /\ UNCHANGED <<toSrv, shown, fd, net>>
    BY DEF Written, userVars, ioVars
  <1>2. /\ Rest(Reply) \in Seq(Waiting) /\ Within(Rest(Reply), pending) /\ ~Popped("read", p)
        /\ NoneOf(Rest(Reply), "read", p) => NoneOf(pending, "read", p) \/ Popped("read", p)
    <2>1. /\ Rest(Reply) \in Seq(Waiting) /\ Within(Rest(Reply), pending)
          /\ \A o, q : Popped(o, q) <=> o = "write" /\ q = Reply.pipe
          /\ \A q : NoneOf(Rest(Reply), "read", q) => NoneOf(pending, "read", q) \/ Popped("read", q)
      BY <1>1, ReceivedRest
    <2> QED BY <2>1
  <1> QED BY <1>1, <1>2, SilentReads

\* ... nor does that of a close, ...
LEMMA ClosedReads ==
  ASSUME SessTypeOK, NEW p \in Outputs, OutRead(p), Closed
  PROVE  ReadsKept(p)
  <1>1. (\E ok : Receive("close", ok)) /\ pending' = Rest(Reply) /\ UNCHANGED <<toSrv, shown, fd, net>>
    BY DEF Closed, CloseDone, userVars
  <1>2. /\ Rest(Reply) \in Seq(Waiting) /\ Within(Rest(Reply), pending) /\ ~Popped("read", p)
        /\ NoneOf(Rest(Reply), "read", p) => NoneOf(pending, "read", p) \/ Popped("read", p)
    BY <1>1, ReceivedRest
  <1> QED BY <1>1, <1>2, SilentReads

\* ... nor that of the open of the control pipe.
LEMMA CtrlOpenedReadsOut ==
  ASSUME SessTypeOK, NEW p \in Outputs, OutRead(p), CtrlOpened
  PROVE  ReadsKept(p)
  <1> DEFINE f == Reply.fnum
             rs == <<async_write("ctrl", f, GetVersion), async_read("ctrl", f)>>
  <1>1. /\ Receive("open", TRUE) /\ Send(Rest(Reply), rs) /\ Reply.pipe = "ctrl"
        /\ fd' = [fd EXCEPT !["ctrl"] = f] /\ UNCHANGED <<shown, net>>
    BY DEF CtrlOpened, userVars
  <1>2. ClientTypeOK /\ p # "ctrl" /\ "ctrl" \in Pipe /\ fd \in [Pipe -> Nat] /\ p \in Pipe
    BY DEF SessTypeOK, ClientTypeOK, Outputs, Pipe
  <1>3. f \in Nat
    BY <1>1, <1>2, ReceiveType
  <1>4. rs \in Seq(Wired(account)) /\ \A j \in DOMAIN rs : rs[j].pipe = "ctrl"
    <2>1. /\ async_write("ctrl", f, GetVersion) \in Wired(account) /\ async_read("ctrl", f) \in Wired(account)
      BY <1>2, <1>3, OwnRequestType
    <2>2. async_write("ctrl", f, GetVersion).pipe = "ctrl" /\ async_read("ctrl", f).pipe = "ctrl"
      BY DEF async_write, async_read, Request
    <2> QED BY <2>1, <2>2
  <1>5. SendOn(net, Rest(Reply), rs)
    BY <1>1 DEF Send
  <1>6. /\ Rest(Reply) \in Seq(Waiting) /\ Within(Rest(Reply), pending) /\ ~Popped("read", p)
        /\ NoneOf(Rest(Reply), "read", p) => NoneOf(pending, "read", p) \/ Popped("read", p)
    <2>1. /\ Rest(Reply) \in Seq(Waiting) /\ Within(Rest(Reply), pending)
          /\ \A o, q : Popped(o, q) <=> o = "open" /\ q = Reply.pipe
          /\ \A q : NoneOf(Rest(Reply), "read", q) => NoneOf(pending, "read", q) \/ Popped("read", q)
      BY <1>1, ReceivedRest
    <2> QED BY <2>1
  <1>7. fd'[p] = fd[p] /\ UNCHANGED <<shown, net>>
    BY <1>1, <1>2
  <1> HIDE DEF rs, f
  <1> QED BY <1>2, <1>4, <1>5, <1>6, <1>7, OtherReads

\* The read of a standard stream that was opened is its first.
LEMMA StdOpenedReads ==
  ASSUME SessTypeOK, Stored, NEW p \in Outputs, OutRead(p), StdOpened
  PROVE  ReadsKept(p) \/ ReadsAgain(p)
  <1> DEFINE f == Reply.fnum
             o == Reply.pipe
             r == async_read(o, f)
             rs == <<r>>
  <1>1. /\ Receive("open", TRUE) /\ o # "ctrl" /\ SendOn(net, Rest(Reply), rs) /\ Reply.status = "ok"
        /\ ReadIssued(o, f) /\ fd' = [fd EXCEPT ![o] = f] /\ UNCHANGED <<shown, net>>
    BY DEF StdOpened, Receive, Send
  <1>2. /\ ClientTypeOK /\ NumberInv /\ StdInv /\ fd \in [Pipe -> Nat] /\ p \in Pipe /\ p \in Std
        /\ srvFnum \in [Pipe -> Nat] /\ io_read \in [Pipe -> Nat]
    BY DEF SessTypeOK, ClientTypeOK, Stored, Outputs, Pipe, Std, ServerTypeOK
  <1>3. Reply = toCli[1] /\ 1 \in DOMAIN toCli /\ Reply.op = "open" /\ o \in Pipe /\ f \in Nat
    BY <1>1, <1>2, Received
  <1>4. f = srvFnum[o] /\ f > 0
    BY <1>1, <1>2, <1>3 DEF NumberInv
  <1>5. /\ Rest(Reply) \in Seq(Waiting) /\ Within(Rest(Reply), pending) /\ ~Popped("read", p)
        /\ NoneOf(Rest(Reply), "read", p) => NoneOf(pending, "read", p) \/ Popped("read", p)
        /\ Popped("open", o)
    <2>1. /\ Rest(Reply) \in Seq(Waiting) /\ Within(Rest(Reply), pending)
          /\ \A op, q : Popped(op, q) <=> op = "open" /\ q = Reply.pipe
          /\ \A q : NoneOf(Rest(Reply), "read", q) => NoneOf(pending, "read", q) \/ Popped("read", q)
      BY <1>1, ReceivedRest
    <2> QED BY <2>1
  <1>6. r \in Wired(account) /\ r.op = "read" /\ r.pipe = o /\ r.fnum = Cached(io_read, o, f)
    BY <1>2, <1>3, OwnRequestType DEF async_read, Request
  <1>7. CASE o = p
    <2>1. f = 1
      BY <1>2, <1>4, <1>7 DEF StdInv
    <2>2. io_read[p] \in {0, 1}
      BY <1>2, <1>4, <1>7, <2>1 DEF NumberInv
    <2>3. r.fnum = 1 /\ Is(r, "read", p)
      BY <1>6, <1>7, <2>1, <2>2 DEF Cached, Is
    <2>4. fd'[p] # 0
      BY <1>1, <1>2, <1>7, <2>1
    <2>5. UNCHANGED <<shown, net>> /\ SendOn(net, Rest(Reply), <<r>>) /\ Reply.status = "ok" /\ Popped("open", p)
      BY <1>1, <1>5, <1>7
    <2> HIDE DEF r, rs
    <2>6. ReadsAgain(p)
      BY <1>5, <1>6, <2>3, <2>4, <2>5, AgainWith
    <2> QED BY <2>6
  <1>8. CASE o # p
    <2>1. fd'[p] = fd[p]
      BY <1>1, <1>2, <1>8
    <2>2. rs \in Seq(Wired(account)) /\ \A j \in DOMAIN rs : rs[j].pipe # p
      BY <1>6, <1>8
    <2>3. UNCHANGED <<shown, net>> /\ SendOn(net, Rest(Reply), rs)
      BY <1>1
    <2> HIDE DEF r, rs
    <2>4. ReadsKept(p)
      BY <1>5, <2>1, <2>2, <2>3, OtherReads
    <2> QED BY <2>4
  <1> QED BY <1>7, <1>8

\* The completion of a read of output reads again, unless it was the last.
LEMMA OutputReads ==
  ASSUME SessTypeOK, Stored, NEW p \in Outputs, OutRead(p), OutputRead
  PROVE  ReadsKept(p) \/ ReadsAgain(p)
  <1> DEFINE o == Reply.pipe
             r == async_read(o, fd[o])
             rs == <<r>>
  <1>1. /\ Receive("read", TRUE) /\ o # "ctrl" /\ SendOn(net, Rest(Reply), rs) /\ Reply.status = "ok"
        /\ shown' = [shown EXCEPT ![o] = @ + Len(Reply.data)] /\ UNCHANGED <<fd, net>>
    BY DEF OutputRead, Receive, Send
  <1>2. /\ ClientTypeOK /\ NumberInv /\ StdInv /\ fd \in [Pipe -> Nat] /\ p \in Pipe /\ p \in Std
        /\ srvFnum \in [Pipe -> Nat] /\ io_read \in [Pipe -> Nat] /\ shown \in [Outputs -> Nat]
    BY DEF SessTypeOK, ClientTypeOK, Stored, Outputs, Pipe, Std, ServerTypeOK
  <1>3. Reply = toCli[1] /\ 1 \in DOMAIN toCli /\ Reply.op = "read" /\ o \in Pipe
    BY <1>1, <1>2, Received
  <1>4. /\ Rest(Reply) \in Seq(Waiting) /\ Within(Rest(Reply), pending) /\ Popped("read", o)
        /\ Popped("read", p) => p = o
        /\ NoneOf(Rest(Reply), "read", p) => NoneOf(pending, "read", p) \/ Popped("read", p)
    BY <1>1, ReceivedRest
  <1>5. r \in Wired(account) /\ r.op = "read" /\ r.pipe = o /\ r.fnum = Cached(io_read, o, fd[o])
    BY <1>2, <1>3, OwnRequestType DEF async_read, Request
  <1>6. CASE o = p
    <2>1. fd[p] # 0
      BY <1>2, <1>4, <1>6, PoppedReply DEF OutRead, NoneUnderway
    <2>2. io_read[p] \in {0, 1} /\ fd[p] = 1
      BY <1>2, <2>1 DEF NumberInv, StdInv
    <2>3. r.fnum = 1 /\ Is(r, "read", p)
      BY <1>5, <1>6, <2>2 DEF Cached, Is
    <2>4. fd'[p] # 0 /\ shown'[p] = shown[p] + Len(Reply.data) /\ UNCHANGED net
      BY <1>1, <1>2, <1>6, <2>1
    <2>5. SendOn(net, Rest(Reply), <<r>>) /\ Reply.status = "ok" /\ Popped("read", p)
      BY <1>1, <1>4, <1>6
    <2> HIDE DEF r, rs
    <2>6. ReadsAgain(p)
      BY <1>4, <1>5, <2>3, <2>4, <2>5, AgainWith
    <2> QED BY <2>6
  <1>7. CASE o # p
    <2>1. fd'[p] = fd[p] /\ shown'[p] = shown[p] /\ UNCHANGED net /\ ~Popped("read", p)
      BY <1>1, <1>2, <1>4, <1>7
    <2>2. rs \in Seq(Wired(account)) /\ \A j \in DOMAIN rs : rs[j].pipe # p
      BY <1>5, <1>7
    <2>3. SendOn(net, Rest(Reply), rs)
      BY <1>1
    <2> HIDE DEF r, rs
    <2>4. ReadsKept(p)
      BY <1>4, <2>1, <2>2, <2>3, OtherReads
    <2> QED BY <2>4
  <1> QED BY <1>6, <1>7

\* The messages of the control pipe lead to opens and to requests on that pipe, ...
LEMMA MessageSends ==
  ASSUME SessTypeOK, NEW p \in Outputs, OutRead(p), NEW type, CtrlRead(type), shown' = shown,
         NEW rest \in Seq(Waiting), Within(rest, pending),
         NoneOf(rest, "read", p) => NoneOf(pending, "read", p) \/ Popped("read", p),
         NEW rs \in Seq(Wired(account)), SendOn(net, rest, rs), \A j \in DOMAIN rs : rs[j].pipe = "ctrl" \/ rs[j].op = "open"
  PROVE  ReadsKept(p)
  <1>1. Receive("read", TRUE) /\ Reply.pipe = "ctrl" /\ fd' = fd /\ net' = net /\ p # "ctrl"
    BY DEF CtrlRead, Outputs
  <1>2. \A o, q : Popped(o, q) <=> o = "read" /\ q = Reply.pipe
    BY <1>1, ReceivedRest
  <1>3. ~Popped("read", p) /\ \A j \in DOMAIN rs : rs[j].pipe # p \/ rs[j].op \notin {"read", "close"}
    BY <1>1, <1>2
  <1> QED BY <1>1, <1>3, OtherReads

\* ... so that no output is read for them.
LEMMA MessageReadsOut ==
  ASSUME SessTypeOK, NEW p \in Outputs, OutRead(p), CtrlMessage
  PROVE  ReadsKept(p)
  <1>1. PICK type : CtrlRead(type)
    BY DEF CtrlMessage, OnStdIoErr, OnReturnCode, OnVersion, OnBadVersion, OnServiceError, OnUnknown
  <1>2. ClientTypeOK /\ "ctrl" \in Pipe /\ Receive("read", TRUE) /\ p # "ctrl"
    BY <1>1 DEF SessTypeOK, Pipe, CtrlRead, Outputs
  <1>3. /\ Rest(Reply) \in Seq(Waiting) /\ Within(Rest(Reply), pending)
        /\ NoneOf(Rest(Reply), "read", p) => NoneOf(pending, "read", p) \/ Popped("read", p)
    <2>1. /\ Rest(Reply) \in Seq(Waiting) /\ Within(Rest(Reply), pending)
          /\ \A q : NoneOf(Rest(Reply), "read", q) => NoneOf(pending, "read", q) \/ Popped("read", q)
      BY <1>2, ReceivedRest
    <2> QED BY <2>1
  <1>5. /\ fd["ctrl"] \in Nat /\ NextRead \in Wired(account) /\ NextRead.pipe = "ctrl"
        /\ \A q \in Pipe : async_open(q) \in Wired(account) /\ async_open(q).op = "open"
        /\ async_close("ctrl") \in Wired(account) /\ async_close("ctrl").pipe = "ctrl"
        /\ async_write("ctrl", fd["ctrl"], RunCommand) \in Wired(account)
        /\ async_write("ctrl", fd["ctrl"], RunCommand).pipe = "ctrl"
    <2>1. fd["ctrl"] \in Nat
      BY <1>2, OwnRequestType
    <2>2. /\ async_read("ctrl", fd["ctrl"]) \in Wired(account) /\ async_close("ctrl") \in Wired(account)
          /\ async_write("ctrl", fd["ctrl"], RunCommandOf(account)) \in Wired(account)
      BY <1>2, <2>1, OwnRequestType
    <2>3. \A q \in Pipe : async_open(q) \in Wired(account)
      BY <1>2, OwnRequestType
    <2> QED BY <2>1, <2>2, <2>3 DEF NextRead, RunCommand, async_open, async_read, async_close, async_write, Request
  <1>6. CASE Send(Rest(Reply), <<NextRead>>) /\ shown' = shown
    <2> DEFINE rs == <<NextRead>>
    <2>1. rs \in Seq(Wired(account)) /\ \A j \in DOMAIN rs : rs[j].pipe = "ctrl"
      BY <1>5
    <2>2. SendOn(net, Rest(Reply), rs)
      BY <1>6 DEF Send
    <2> HIDE DEF rs
    <2> QED BY <1>1, <1>3, <1>6, <2>1, <2>2, MessageSends
  <1>7. CASE CloseForReinstall
    <2> DEFINE rs == <<async_close("ctrl"), NextRead>>
    <2>1. rs \in Seq(Wired(account)) /\ \A j \in DOMAIN rs : rs[j].pipe = "ctrl"
      BY <1>5
    <2>2. SendOn(net, Rest(Reply), rs) /\ shown' = shown
      BY <1>7 DEF CloseForReinstall, Send, userVars
    <2> HIDE DEF rs
    <2> QED BY <1>1, <1>3, <2>1, <2>2, MessageSends
  <1>8. CASE OnStdIoErr
    <2> DEFINE rs == <<async_open("in"), async_open("out"), async_open("err"), NextRead>>
    <2>1. rs \in Seq(Wired(account)) /\ \A j \in DOMAIN rs : rs[j].pipe = "ctrl" \/ rs[j].op = "open"
      BY <1>5 DEF Pipe
    <2>2. SendOn(net, Rest(Reply), rs) /\ shown' = shown
      BY <1>8 DEF OnStdIoErr, Send, userVars
    <2> HIDE DEF rs
    <2> QED BY <1>1, <1>3, <2>1, <2>2, MessageSends
  <1>9. CASE OnVersion
    <2> DEFINE rs == <<async_write("ctrl", fd["ctrl"], RunCommand), NextRead>>
    <2>1. rs \in Seq(Wired(account)) /\ \A j \in DOMAIN rs : rs[j].pipe = "ctrl"
      BY <1>5
    <2>2. SendOn(net, Rest(Reply), rs) /\ shown' = shown
      BY <1>9 DEF OnVersion, Send, userVars
    <2> HIDE DEF rs
    <2> QED BY <1>1, <1>3, <2>1, <2>2, MessageSends
  <1>10. CASE OnReturnCode
    BY <1>6, <1>10 DEF OnReturnCode
  <1>11. CASE OnServiceError \/ OnUnknown
    BY <1>6, <1>7, <1>11 DEF OnServiceError, OnUnknown, userVars
  <1>12. CASE OnBadVersion
    BY <1>7, <1>12 DEF OnBadVersion
  <1> QED BY <1>8, <1>9, <1>10, <1>11, <1>12 DEF CtrlMessage

\* A request that failed.
LEMMA FailReads ==
  ASSUME SessTypeOK, NEW p \in Outputs, OutRead(p), NEW rest \in Seq(Waiting), Within(rest, pending),
         NEW link, NEW op, NEW q \in Pipe, NEW status, Fail(link, op, q, status, rest),
         ~(Popped("read", p) /\ Reply.status = "ok"), net = "dead" => net' = "dead",
         NoneOf(rest, "read", p) => \/ NoneOf(pending, "read", p) \/ Popped("read", p) \/ net' = "dead"
                                    \/ NoneUnderway("read", p) /\ p \notin parked,
         q = p => /\ net' = "up" => inst[p] # "conn"
                  /\ Popped("read", p) \/ net' = "dead" \/ (NoneUnderway("read", p) /\ p \notin parked)
  PROVE  ReadsKept(p)
  <1>1. ClientTypeOK /\ p # "ctrl" /\ UNCHANGED <<fd, shown>>
    BY DEF SessTypeOK, Outputs, Fail, userVars
  <1>2. CASE q = "ctrl"
    <2>1. pending' = rest /\ toSrv' = toSrv
      BY <1>2 DEF Fail, OnCtrlError
    <2> QED BY <1>1, <2>1, SilentReads
  <1>3. CASE q # "ctrl"
    <2> DEFINE u == Undestroyed(q, rest)
               rs == <<async_close(q)>>
    <2>1. SendOn(link, u, rs)
      BY <1>3 DEF Fail, OnStdError
    <2>2. u \in Seq(Waiting) /\ Within(u, pending)
      <3>1. u \in Seq(Waiting) /\ Within(u, rest)
        BY UndestroyedType, UndestroyedWithin
      <3> HIDE DEF u
      <3> QED BY <3>1, WithinTransitive
    <2>3. NoneOf(u, "read", p) => NoneOf(rest, "read", p) \/ p = q
      BY UndestroyedOf
    <2>4. rs \in Seq(Wired(account)) /\ \A j \in DOMAIN rs : rs[j].op = "close" /\ rs[j].pipe = q
      <3>1. async_close(q) \in Wired(account)
        BY <1>1, OwnRequestType
      <3>2. async_close(q).op = "close" /\ async_close(q).pipe = q
        BY DEF async_close, Request
      <3> QED BY <3>1, <3>2
    <2> HIDE DEF u, rs
    <2>5. Asks(u, rs) /\ Adds(rs)
      BY <2>1, SendAsks, SendAdds
    <2>6. NoneOf(rs, "read", p) /\ (p # q => NoneOf(rs, "close", p))
      BY <2>4 DEF NoneOf, Is
    <2> QED BY <1>1, <2>2, <2>3, <2>4, <2>5, <2>6, KeptWith
  <1> QED BY <1>2, <1>3

\* An error ends the reading of its pipe only, ...
LEMMA ErrorReads ==
  ASSUME SessTypeOK, Stored, NEW p \in Outputs, OutRead(p), ErrorReply
  PROVE  ReadsKept(p)
  <1>1. PICK op \in {"open", "read", "write"} : Receive(op, FALSE)
    BY DEF ErrorReply
  <1>2. /\ ClientTypeOK /\ p \in Std /\ StdInv
        /\ Fail(net, Reply.op, Reply.pipe, Reply.status, Rest(Reply)) /\ net' = net
    BY DEF SessTypeOK, ErrorReply, Stored, Outputs, Std
  <1>3. /\ Rest(Reply) \in Seq(Waiting) /\ Within(Rest(Reply), pending) /\ Reply.op = op /\ Reply.pipe \in Pipe
        /\ \A o, q : Popped(o, q) <=> o = op /\ q = Reply.pipe
        /\ \A q : NoneOf(Rest(Reply), "read", q) => NoneOf(pending, "read", q) \/ Popped("read", q)
    BY <1>1, ReceivedRest
  <1>4. Reply = toCli[1] /\ 1 \in DOMAIN toCli /\ ~NoneOf(pending, op, Reply.pipe) /\ ~NoneUnderway(op, Reply.pipe)
    BY <1>1, <1>2, Received
  <1>5. Reply.status # "ok"
    BY <1>1 DEF Receive
  <1>6. ASSUME Reply.pipe = p
        PROVE  /\ net' = "up" => inst[p] # "conn"
               /\ Popped("read", p) \/ net' = "dead" \/ (NoneUnderway("read", p) /\ p \notin parked)
    <2>1. op # "write"
      BY <1>4, <1>6 DEF OutRead
    <2>2. net' = "up" => inst[p] # "conn"
      BY <1>1, <1>2, <1>3, <1>4, <1>5, <1>6, <2>1 DEF OutRead
    <2>3. CASE op = "read"
      BY <1>3, <1>6, <2>2, <2>3
    <2>4. CASE op = "open"
      <3>1. fd[p] = 0
        BY <1>2, <1>4, <1>6, <2>4 DEF StdInv
      <3> QED BY <2>2, <3>1 DEF OutRead
    <2> QED BY <1>1, <2>1, <2>3, <2>4
  <1>7. ~(Popped("read", p) /\ Reply.status = "ok")
    BY <1>5
  <1>8. NoneOf(Rest(Reply), "read", p) => NoneOf(pending, "read", p) \/ Popped("read", p)
    BY <1>3
  <1> QED BY <1>2, <1>3, <1>6, <1>7, <1>8, FailReads

\* ... a timeout is never one of a read, ...
LEMMA TimeoutReads ==
  ASSUME SessTypeOK, Stored, TimedInv, NEW p \in Outputs, OutRead(p), RequestTimeout
  PROVE  ReadsKept(p)
  <1>1. PICK i \in DOMAIN pending :
           pending[i].timed /\ Fail(net, pending[i].op, pending[i].pipe, "timeout", RemoveAt(pending, i))
    BY DEF RequestTimeout
  <1>2. /\ ClientTypeOK /\ pending \in Seq(Waiting) /\ pending[i].pipe \in Pipe /\ UNCHANGED <<net, toCli>>
    <2>1. ClientTypeOK /\ pending \in Seq(Waiting) /\ UNCHANGED <<net, toCli>>
      BY DEF SessTypeOK, ClientTypeOK, RequestTimeout
    <2>2. pending[i] \in Waiting
      BY <2>1
    <2> QED BY <2>1, <2>2 DEF Waiting
  <1>3. pending[i].pipe = "ctrl"
    <2>1. ASSUME pending[i].pipe # "ctrl"
          PROVE  FALSE
      <3>1. ~StdQuiet
        BY <2>1 DEF StdQuiet
      <3>2. state = "RUNNING"
        BY <3>1 DEF Stored, TellInv
      <3> QED BY <1>1, <3>2 DEF TimedInv, Timed, FirstOpen
    <2> QED BY <2>1
  <1> DEFINE rest == RemoveAt(pending, i)
  <1>4. rest \in Seq(Waiting) /\ Within(rest, pending) /\ Fewer(rest, pending[i])
    BY <1>2, RemovedFewer, RemoveAtWithin, RemoveAtType
  <1>5. Fail(net, pending[i].op, pending[i].pipe, "timeout", rest)
    BY <1>1
  <1> HIDE DEF rest
  <1>6. p # "ctrl" /\ ~Popped("read", p)
    BY <1>2, NotPopped DEF Outputs
  <1>7. NoneOf(rest, "read", p) => NoneOf(pending, "read", p)
    BY <1>3, <1>4, <1>6 DEF Fewer, Is
  <1> QED BY <1>2, <1>3, <1>4, <1>5, <1>6, <1>7, FailReads

\* ... and with the transport all requests go.
LEMMA DeadReads ==
  ASSUME SessTypeOK, NEW p \in Outputs, OutRead(p), TransportDead
  PROVE  ReadsKept(p)
  <1>1. ClientTypeOK /\ pending \in Seq(Waiting) /\ net' = "dead" /\ toCli' = toCli
    BY DEF SessTypeOK, ClientTypeOK, TransportDead
  <1>2. ~Popped("read", p)
    BY <1>1, NotPopped
  <1>3. CASE pending = <<>>
    <2>1. UNCHANGED <<pending, toSrv, shown, fd>> /\ Within(pending, pending)
      BY <1>3 DEF TransportDead, ioVars, reqVars, userVars, Within
    <2> QED BY <1>1, <1>2, <2>1, SilentReads
  <1>4. CASE pending # <<>>
    <2> DEFINE q == Last(pending)
               rest == Front(pending)
    <2>1. rest \in Seq(Waiting) /\ Within(rest, pending) /\ q.pipe \in Pipe
      BY <1>1, <1>4, FrontElements, FrontFewer DEF Waiting
    <2>2. IF q.op = "close" THEN CloseDone(q.pipe, rest) ELSE Fail("dead", q.op, q.pipe, "network", rest)
      BY <1>4 DEF TransportDead
    <2> HIDE DEF q, rest
    <2>3. CASE q.op = "close"
      <3>1. pending' = rest /\ UNCHANGED <<toSrv, shown, fd>>
        BY <2>2, <2>3 DEF CloseDone, userVars
      <3> QED BY <1>1, <1>2, <2>1, <3>1, SilentReads
    <2>4. CASE q.op # "close"
      <3>1. Fail("dead", q.op, q.pipe, "network", rest)
        BY <2>2, <2>4
      <3> QED BY <1>1, <1>2, <2>1, <3>1, FailReads
    <2> QED BY <2>3, <2>4
  <1> QED BY <1>3, <1>4

\* Steps that no reply has called for, and that send one request r.
LEMMA OwnReads ==
  ASSUME SessTypeOK, NEW p \in Outputs, OutRead(p), NEW r \in Wired(account), r.pipe # p \/ r.op \notin {"read", "close"},
         Send(pending, <<r>>), UNCHANGED <<shown, fd, net, toCli>>
  PROVE  ReadsKept(p)
  <1> DEFINE rs == <<r>>
  <1>1. rs \in Seq(Wired(account)) /\ SendOn(net, pending, rs)
        /\ \A j \in DOMAIN rs : rs[j].pipe # p \/ rs[j].op \notin {"read", "close"}
    BY DEF Send
  <1> HIDE DEF rs
  <1>2. ClientTypeOK /\ pending \in Seq(Waiting) /\ Within(pending, pending)
    BY DEF SessTypeOK, ClientTypeOK, Within
  <1>3. ~Popped("read", p)
    BY <1>2, NotPopped
  <1> QED BY <1>1, <1>2, <1>3, OtherReads

\* Events from outside read no output.
LEMMA EventReads ==
  ASSUME SessTypeOK, NEW p \in Outputs, OutRead(p),
         StdinRead \/ Timer \/ (\E s : Signal(s)) \/ Installed(TRUE) \/ Reinstalled
  PROVE  ReadsKept(p)
  <1>1. ClientTypeOK /\ pending \in Seq(Waiting) /\ "ctrl" \in Pipe /\ "in" \in Pipe /\ p # "ctrl" /\ p # "in"
    BY DEF SessTypeOK, ClientTypeOK, Pipe, Outputs
  <1>2. fd["ctrl"] \in Nat /\ fd["in"] \in Nat
    BY <1>1, OwnRequestType
  <1>3. /\ async_write("in", fd["in"], Input) \in Wired(account) /\ async_write("in", fd["in"], Input).pipe = "in"
        /\ async_write("ctrl", fd["ctrl"], Abort) \in Wired(account)
        /\ async_write("ctrl", fd["ctrl"], Abort).pipe = "ctrl"
        /\ async_open("ctrl") \in Wired(account) /\ async_open("ctrl").pipe = "ctrl"
    <2>1. /\ async_write("in", fd["in"], Input) \in Wired(account)
          /\ async_write("ctrl", fd["ctrl"], Abort) \in Wired(account)
          /\ async_open("ctrl") \in Wired(account)
      BY <1>1, <1>2, OwnRequestType
    <2> QED BY <2>1 DEF async_write, async_open, Request
  <1>4. CASE StdinRead
    <2>1. Send(pending, <<async_write("in", fd["in"], Input)>>) /\ UNCHANGED <<shown, fd, net, toCli>>
      BY <1>4 DEF StdinRead
    <2> QED BY <1>1, <1>3, <2>1, OwnReads
  <1>5. CASE Timer
    <2>1. Send(pending, <<async_write("ctrl", fd["ctrl"], Abort)>>) /\ UNCHANGED <<shown, fd, net, toCli>>
      BY <1>5 DEF Timer, userVars
    <2> QED BY <1>1, <1>3, <2>1, OwnReads
  <1>6. CASE Installed(TRUE) \/ Reinstalled
    <2>1. Send(pending, <<async_open("ctrl")>>) /\ UNCHANGED <<shown, fd, net, toCli>>
      BY <1>6 DEF Installed, Reinstalled, userVars, ioVars
    <2> QED BY <1>1, <1>3, <2>1, OwnReads
  <1>7. CASE \E s : Signal(s)
    <2>1. UNCHANGED <<pending, toSrv, shown, fd, net, toCli>> /\ Within(pending, pending)
      BY <1>7 DEF Signal, reqVars, userVars, ioVars, Within
    <2>2. ~Popped("read", p)
      BY <1>1, <2>1, NotPopped
    <2> QED BY <1>1, <2>1, <2>2, SilentReads
  <1> QED BY <1>4, <1>5, <1>6, <1>7

\* Every callback of the client keeps the reads of p or reads p again.
LEMMA ClientReads ==
  ASSUME SessTypeOK, Stored, TimedInv, NEW p \in Outputs, OutRead(p), Staying',
         PlainStep \/ CtrlOpened \/ CtrlMessage
  PROVE  ReadsKept(p) \/ ReadsAgain(p)
  <1>1. ~Exit /\ ~Installed(FALSE)
    BY DEF Exit, Installed, exit_program, Staying
  <1>2. CASE DropReply \/ Written \/ Closed \/ ErrorReply
    BY <1>2, DropReads, WrittenReads, ClosedReads, ErrorReads
  <1>3. CASE StdOpened \/ OutputRead
    BY <1>3, StdOpenedReads, OutputReads
  <1>4. CASE RequestTimeout \/ TransportDead
    BY <1>4, TimeoutReads, DeadReads
  <1>5. CASE CtrlOpened \/ CtrlMessage
    BY <1>5, CtrlOpenedReadsOut, MessageReadsOut
  <1>6. CASE StdinRead \/ Timer \/ (\E s : Signal(s)) \/ Installed(TRUE) \/ Reinstalled
    BY <1>6, EventReads
  <1> QED BY <1>1, <1>2, <1>3, <1>4, <1>5, <1>6 DEF PlainStep

-----------------------------------------------------------------------------
\* What most callbacks have in common.

\* No close of the control pipe is sent, and no line but the abort, which
\* interrupts the command once it was sent.
Quiet(r) ==
    /\ ~Is(r, "close", "ctrl")
    /\ Is(r, "write", "ctrl") => r.items = Abort /\ (state = "RUNNING" => abortSent')
Quietly == \E rs \in Seq(Wired(account)) : Adds(rs) /\ \A j \in DOMAIN rs : Quiet(rs[j])

\* A step that sends nothing is quiet, ...
LEMMA QuietNothing ==
  ASSUME toSrv' = toSrv
  PROVE  Quietly
  <1> DEFINE rs == <<>>
  <1>1. rs \in Seq(Wired(account)) /\ DOMAIN rs = {}
    OBVIOUS
  <1> HIDE DEF rs
  <1>2. Adds(rs)
    BY DEF Adds
  <1> QED BY <1>1, <1>2 DEF Quietly

\* ... and so is one with a single request that is.
LEMMA QuietSends ==
  ASSUME NEW r \in Wired(account), NEW link, NEW rest, SendOn(link, rest, <<r>>), Quiet(r)
  PROVE  Quietly
  <1> DEFINE rs == <<r>>
  <1>1. rs \in Seq(Wired(account)) /\ \A j \in DOMAIN rs : Quiet(rs[j])
    OBVIOUS
  <1>2. SendOn(link, rest, rs)
    OBVIOUS
  <1> HIDE DEF rs
  <1>3. Adds(rs)
    BY <1>2, SendAdds
  <1> QED BY <1>1, <1>3 DEF Quietly

\* A client that gives up sends closes at most, ...
LEMMA FailQuiet ==
  ASSUME ClientTypeOK, NEW link, NEW op, NEW p \in Pipe, NEW status, NEW rest, Fail(link, op, p, status, rest)
  PROVE  Quietly
  <1>1. CASE p = "ctrl"
    <2>1. toSrv' = toSrv
      BY <1>1 DEF Fail, OnCtrlError
    <2> QED BY <2>1, QuietNothing
  <1>2. CASE p # "ctrl"
    <2>1. SendOn(link, Undestroyed(p, rest), <<async_close(p)>>)
      BY <1>2 DEF Fail, OnStdError
    <2>2. async_close(p) \in Wired(account)
      <3>1. p \in Pipe /\ fd[p] \in Nat
        BY DEF ClientTypeOK
      <3> QED BY <3>1, OwnRequestType
    <2>3. Quiet(async_close(p))
      BY <1>2 DEF async_close, Request, Quiet, Is
    <2> QED BY <2>1, <2>2, <2>3, QuietSends
  <1> QED BY <1>1, <1>2

\* ... and the plain steps send nothing but quiet requests.
LEMMA PlainQuiet ==
  ASSUME ClientTypeOK, PlainStep
  PROVE  Quietly
  <1>0. pending \in Seq(Waiting) /\ "ctrl" \in Pipe /\ "in" \in Pipe
    BY DEF ClientTypeOK, Pipe
  <1>1. CASE DropReply \/ Written \/ Closed \/ (\E s \in Signals : Signal(s)) \/ Exit
    <2>1. toSrv' = toSrv
      BY <1>1 DEF DropReply, Written, Closed, CloseDone, Signal, Exit, reqVars
    <2> QED BY <2>1, QuietNothing
  <1>2. CASE StdOpened \/ OutputRead
    <2>1. \E op, ok : Receive(op, ok)
      BY <1>2 DEF StdOpened, OutputRead
    <2>2. /\ Reply.pipe \in Pipe /\ Reply.fnum \in Nat /\ Reply.pipe # "ctrl" /\ fd[Reply.pipe] \in Nat
      BY <1>0, <1>2, <2>1, ReceiveType DEF StdOpened, OutputRead, ClientTypeOK
    <2>3. PICK f \in Nat : Send(Rest(Reply), <<async_read(Reply.pipe, f)>>)
      BY <1>2, <2>2 DEF StdOpened, OutputRead
    <2>4. async_read(Reply.pipe, f) \in Wired(account)
      BY <2>2, OwnRequestType
    <2>5. Quiet(async_read(Reply.pipe, f))
      BY DEF async_read, Request, Quiet, Is
    <2> QED BY <2>3, <2>4, <2>5, QuietSends DEF Send
  <1>3. CASE ErrorReply
    <2>1. PICK op \in {"open", "read", "write"} : Receive(op, FALSE)
      BY <1>3 DEF ErrorReply
    <2>2. Reply.pipe \in Pipe
      BY <2>1, ReceiveType
    <2> QED BY <1>3, <2>2, FailQuiet DEF ErrorReply
  <1>4. CASE RequestTimeout
    <2>1. PICK i \in DOMAIN pending :
             Fail(net, pending[i].op, pending[i].pipe, "timeout", RemoveAt(pending, i))
      BY <1>4 DEF RequestTimeout
    <2>2. pending[i] \in Waiting
      BY <1>0
    <2>3. pending[i].pipe \in Pipe
      BY <2>2 DEF Waiting
    <2> QED BY <2>1, <2>3, FailQuiet
  <1>5. CASE TransportDead
    <2>1. CASE pending = <<>>
      <3>1. toSrv' = toSrv
        BY <1>5, <2>1 DEF TransportDead, reqVars
      <3> QED BY <3>1, QuietNothing
    <2>2. CASE pending # <<>>
      <3>1. Last(pending).pipe \in Pipe
        BY <2>2, FrontFewer DEF Waiting
      <3>2. \/ CloseDone(Last(pending).pipe, Front(pending))
            \/ Fail("dead", Last(pending).op, Last(pending).pipe, "network", Front(pending))
        BY <1>5, <2>2 DEF TransportDead
      <3>3. CASE CloseDone(Last(pending).pipe, Front(pending))
        <4>1. toSrv' = toSrv
          BY <3>3 DEF CloseDone
        <4> QED BY <4>1, QuietNothing
      <3> QED BY <3>1, <3>2, <3>3, FailQuiet
    <2> QED BY <2>1, <2>2
  <1>6. CASE StdinRead
    <2> DEFINE q == async_write("in", fd["in"], Input)
    <2>1. q \in Wired(account)
      BY <1>0, OwnRequestType
    <2>2. Quiet(q)
      BY DEF async_write, Request, Quiet, Is
    <2>3. SendOn(net, pending, <<q>>)
      BY <1>6 DEF StdinRead, Send
    <2> QED BY <2>1, <2>2, <2>3, QuietSends
  <1>7. CASE Timer
    <2> DEFINE q == async_write("ctrl", fd["ctrl"], Abort)
    <2>1. q \in Wired(account)
      BY <1>0, OwnRequestType
    <2>2. q.op = "write" /\ q.items = Abort /\ (state = "RUNNING" => abortSent')
      BY <1>7 DEF async_write, Request, Timer
    <2>3. Quiet(q)
      BY <2>2 DEF Quiet, Is
    <2>4. SendOn(net, pending, <<q>>)
      BY <1>7 DEF Timer, Send
    <2> QED BY <2>1, <2>3, <2>4, QuietSends
  <1>8. CASE (\E ok \in BOOLEAN : Installed(ok)) \/ Reinstalled
    <2> DEFINE q == async_open("ctrl")
    <2>1. q \in Wired(account)
      BY <1>0, OwnRequestType
    <2>2. Quiet(q)
      BY DEF async_open, Request, Quiet, Is
    <2>3. toSrv' = toSrv \/ SendOn(net, pending, <<q>>)
      BY <1>8 DEF Installed, Reinstalled, reqVars, Send
    <2> QED BY <2>1, <2>2, <2>3, QuietSends, QuietNothing
  <1> QED BY <1>1, <1>2, <1>3, <1>4, <1>5, <1>6, <1>7, <1>8 DEF PlainStep

\* The messages after which only the next one is asked for, or the streams
\* are opened.
LEMMA MessageQuiet ==
  ASSUME ClientTypeOK, \/ OnStdIoErr \/ OnReturnCode \/ OnUnknown
                       \/ OnServiceError /\ state # "GETTING_VERSION"
  PROVE  Quietly /\ state' = state
  <1>1. NextRead \in Wired(account) /\ Quiet(NextRead)
    <2>1. "ctrl" \in Pipe /\ fd["ctrl"] \in Nat
      BY OwnRequestType DEF Pipe
    <2>2. async_read("ctrl", fd["ctrl"]) \in Wired(account)
      BY <2>1, OwnRequestType
    <2> QED BY <2>2 DEF NextRead, async_read, Request, Quiet, Is
  <1>2. CASE OnReturnCode \/ OnUnknown \/ (OnServiceError /\ state # "GETTING_VERSION")
    <2>1. SendOn(net, Rest(Reply), <<NextRead>>) /\ state' = state
      BY <1>2 DEF OnReturnCode, OnUnknown, OnServiceError, Send
    <2> QED BY <1>1, <2>1, QuietSends
  <1>3. CASE OnStdIoErr
    <2> DEFINE rs == <<async_open("in"), async_open("out"), async_open("err"), NextRead>>
    <2>1. \A p \in Pipe : async_open(p) \in Wired(account) /\ Quiet(async_open(p))
      <3>1. \A p \in Pipe : async_open(p) \in Wired(account)
        BY OwnRequestType
      <3>2. \A p \in Pipe : Quiet(async_open(p))
        BY DEF async_open, Request, Quiet, Is
      <3> QED BY <3>1, <3>2
    <2>2. rs \in Seq(Wired(account))
      BY <1>1, <2>1 DEF Pipe
    <2>3. \A j \in DOMAIN rs : Quiet(rs[j])
      BY <1>1, <2>1 DEF Pipe
    <2>4. SendOn(net, Rest(Reply), rs) /\ state' = state
      BY <1>3 DEF OnStdIoErr, Send
    <2> HIDE DEF rs
    <2>5. Adds(rs)
      BY <2>4, SendAdds
    <2> QED BY <2>2, <2>3, <2>4, <2>5 DEF Quietly
  <1> QED BY <1>2, <1>3

\* What the caller learns in a step: nothing but that the client gives up.
GivesUp == return_code' = 1 /\ mode' = "exiting" /\ state # "RUNNING"
Learns ==
    /\ mode \notin Gone /\ UNCHANGED <<account, codeSeen>> /\ (abortSent => abortSent')
    /\ net' \in {net, "dead"} /\ (Staying' => Staying)
    /\ return_code' = return_code \/ GivesUp

\* The caller learns of a failure only that the client gives up, ...
LEMMA FailLearns ==
  ASSUME NEW link, NEW op, NEW p, NEW status, NEW rest, Fail(link, op, p, status, rest),
         op = "open" /\ p = "ctrl" => state # "RUNNING", mode = "loop", net' \in {net, "dead"}
  PROVE  Learns /\ state' = state
  <1>1. UNCHANGED <<account, state, codeSeen, abortSent>>
    BY DEF Fail, sigVars, userVars
  <1>2. Staying /\ mode \notin Gone
    BY DEF Staying, Gone
  <1>3. return_code' = return_code \/ GivesUp
    <2>1. CASE p = "ctrl"
      BY <2>1 DEF Fail, OnCtrlError, exit_program, GivesUp
    <2>2. CASE p # "ctrl"
      BY <2>2 DEF Fail, OnStdError
    <2> QED BY <2>1, <2>2
  <1> QED BY <1>1, <1>2, <1>3 DEF Learns

\* ... of a close nothing else, ...
LEMMA CloseDoneLearns ==
  ASSUME NEW p, NEW rest, CloseDone(p, rest), mode = "loop", net' \in {net, "dead"}
  PROVE  Learns /\ state' = state
  <1>1. UNCHANGED <<account, state, codeSeen, abortSent, return_code>>
    BY DEF CloseDone, sigVars, userVars
  <1> QED BY <1>1 DEF Learns, Staying, Gone

\* ... and this is true of all plain steps.
LEMMA PlainLearns ==
  ASSUME SessTypeOK, OpenInv, PlainStep
  PROVE  Learns /\ (state' = state \/ Reinstalled)
  <1>0. ClientTypeOK /\ pending \in Seq(Waiting)
    BY DEF SessTypeOK, ClientTypeOK
  <1>1. CASE DropReply \/ StdOpened \/ OutputRead \/ Written
    <2>1. /\ UNCHANGED <<account, state, codeSeen, abortSent, return_code, net, mode>> /\ mode = "loop"
      BY <1>1 DEF DropReply, StdOpened, OutputRead, Written, Receive, Receiving, stateVars, sigVars, userVars
    <2> QED BY <2>1 DEF Learns, Staying, Gone
  <1>2. CASE Closed
    <2>1. CloseDone(Reply.pipe, Rest(Reply)) /\ net' = net /\ mode = "loop"
      BY <1>2 DEF Closed, Receive, Receiving
    <2> QED BY <2>1, CloseDoneLearns
  <1>3. CASE ErrorReply
    <2>1. /\ Fail(net, Reply.op, Reply.pipe, Reply.status, Rest(Reply)) /\ net' = net /\ mode = "loop"
          /\ Matching(Reply) # {}
      BY <1>3 DEF ErrorReply, Receive, Receiving
    <2>2. Reply.op = "open" /\ Reply.pipe = "ctrl" => state # "RUNNING"
      BY <1>0, <2>1, RestOpens DEF OnCtrl
    <2> QED BY <2>1, <2>2, FailLearns
  <1>4. CASE RequestTimeout
    <2>1. PICK i \in DOMAIN pending :
             Fail(net, pending[i].op, pending[i].pipe, "timeout", RemoveAt(pending, i))
      BY <1>4 DEF RequestTimeout
    <2>2. pending[i].op = "open" /\ pending[i].pipe = "ctrl" => state # "RUNNING"
      BY <1>0, RemovedOpens DEF OnCtrl
    <2>3. net' = net /\ mode = "loop"
      BY <1>4 DEF RequestTimeout
    <2> QED BY <2>1, <2>2, <2>3, FailLearns
  <1>5. CASE TransportDead
    <2>0. net' = "dead" /\ mode = "loop"
      BY <1>5 DEF TransportDead
    <2>1. CASE pending = <<>>
      <3>1. UNCHANGED <<account, state, codeSeen, abortSent, return_code, mode>>
        BY <1>5, <2>1 DEF TransportDead, stateVars, sigVars, userVars
      <3> QED BY <2>0, <3>1 DEF Learns, Staying, Gone
    <2>2. CASE pending # <<>>
      <3>1. \/ CloseDone(Last(pending).pipe, Front(pending))
            \/ Fail("dead", Last(pending).op, Last(pending).pipe, "network", Front(pending))
        BY <1>5, <2>2 DEF TransportDead
      <3>2. Last(pending).op = "open" /\ Last(pending).pipe = "ctrl" => state # "RUNNING"
        BY <1>0, <2>2, LastOpens DEF OnCtrl
      <3> QED BY <2>0, <3>1, <3>2, FailLearns, CloseDoneLearns
    <2> QED BY <2>1, <2>2
  <1>6. CASE StdinRead \/ Timer
    <2>1. /\ UNCHANGED <<account, state, codeSeen, return_code, net, mode>> /\ (abortSent => abortSent')
          /\ mode \in {"loop", "install", "reinstall"}
      <3>1. CASE StdinRead
        BY <3>1 DEF StdinRead, stateVars, sigVars
      <3>2. CASE Timer
        BY <3>2 DEF Timer, stateVars, userVars
      <3> QED BY <1>6, <3>1, <3>2
    <2> QED BY <2>1 DEF Learns, Staying, Gone
  <1>7. CASE \E s \in Signals : Signal(s)
    <2>1. /\ UNCHANGED <<account, state, codeSeen, return_code, net, abortSent>> /\ mode \notin Gone
          /\ mode' \in {mode, "killed"}
      BY <1>7 DEF Signal, userVars
    <2> QED BY <2>1 DEF Learns, Staying, Gone
  <1>8. CASE Exit
    <2>1. /\ UNCHANGED <<account, state, codeSeen, return_code, net, abortSent>> /\ mode = "exiting" /\ mode' = "exited"
      BY <1>8 DEF Exit, userVars, sigVars
    <2> QED BY <2>1 DEF Learns, Staying, Gone
  <1>9. CASE Reinstalled
    <2>1. UNCHANGED <<account, codeSeen, return_code, net, abortSent>> /\ mode = "reinstall"
      BY <1>9 DEF Reinstalled, userVars, sigVars
    <2> QED BY <1>9, <2>1 DEF Learns, Staying, Gone
  <1>10. ASSUME NEW ok \in BOOLEAN, Installed(ok)
         PROVE  Learns /\ state' = state
    <2>1. UNCHANGED <<account, state, codeSeen, net, abortSent>> /\ mode = "install" /\ state = "OPENING"
      BY <1>10 DEF Installed, userVars, sigVars, OpenInv
    <2>2. return_code' = return_code \/ GivesUp
      BY <1>10, <2>1 DEF Installed, exit_program, GivesUp
    <2> QED BY <2>1, <2>2 DEF Learns, Staying, Gone
  <1> QED BY <1>1, <1>2, <1>3, <1>4, <1>5, <1>6, <1>7, <1>8, <1>9, <1>10 DEF PlainStep

\* A callback that leaves the client in its state.
Calls ==
    /\ Quietly /\ Taken /\ UNCHANGED Remote /\ UNCHANGED <<state, account>>
    /\ (Staying' => Staying) /\ net' \in {net, "dead"} /\ (Cut => Cut')

\* No quiet request asks for the version.
LEMMA QuietQueries ==
  ASSUME ClientTypeOK, Quietly, UNCHANGED Remote, NEW i \in DOMAIN toSrv', Queries(i)'
  PROVE  i \in DOMAIN toSrv /\ Queries(i)
  <1>1. PICK rs \in Seq(Wired(account)) : Adds(rs) /\ \A j \in DOMAIN rs : Quiet(rs[j])
    BY DEF Quietly
  <1>2. toSrv \in Seq(Wired(account)) /\ UNCHANGED <<srvOpen, srvFnum, inst>>
    BY DEF ClientTypeOK, Remote, connVars, pipeVars, srvVars
  <1>3. CASE i \in DOMAIN toSrv /\ toSrv'[i] = toSrv[i]
    BY <1>2, <1>3 DEF Queries, Alive
  <1>4. CASE \E j \in DOMAIN rs : toSrv'[i] = rs[j]
    BY <1>1, <1>4, OwnLines DEF Queries, Alive, Quiet
  <1> QED BY <1>1, <1>2, <1>3, <1>4, AddsElements

\* What is known of the version stays so.
LEMMA TakenVersion ==
  ASSUME ClientTypeOK, Taken
  PROVE  /\ NoneVersion => NoneVersion'
         /\ \A i \in DOMAIN toCli' : \E k \in DOMAIN toCli : toCli'[i] = toCli[k]
  <1>1. \A i \in DOMAIN toCli' : \E k \in DOMAIN toCli : toCli'[i] = toCli[k]
    BY TakenElements
  <1> QED BY <1>1 DEF NoneVersion, Versioned, Fetched

\* A quiet callback asks for no version, ...
LEMMA CallsAsk ==
  ASSUME ClientTypeOK, AskInv, Calls
  PROVE  AskInv'
  <1>1. /\ UNCHANGED <<c2s, s2c, state>> /\ (Up' => Up) /\ Quietly /\ Taken /\ UNCHANGED Remote
    BY DEF Calls, Remote, connVars, pipeVars, Up
  <1>2. \A i \in DOMAIN toSrv' : Queries(i)' => i \in DOMAIN toSrv /\ Queries(i)
    BY <1>1, QuietQueries
  <1>3. NoneQueries => NoneQueries'
    BY <1>2 DEF NoneQueries
  <1>4. (\A i, j \in DOMAIN toSrv : Queries(i) /\ Queries(j) => i = j)
        => \A i, j \in DOMAIN toSrv' : Queries(i)' /\ Queries(j)' => i = j
    BY <1>2
  <1>5. NoneVersion => NoneVersion'
    BY <1>1, TakenVersion
  <1>6. QuietVersion => QuietVersion'
    BY <1>1, <1>3 DEF QuietVersion
  <1>7. OneVersion => OneVersion'
    BY <1>1, <1>3, <1>4, <1>5 DEF OneVersion
  <1> QED BY <1>1, <1>5, <1>6, <1>7 DEF AskInv

\* ... makes the server open no control pipe, ...
LEMMA CallsHeld ==
  ASSUME ClientTypeOK, HeldInv, Calls
  PROVE  HeldInv'
  <1>1. UNCHANGED <<inst, pc, cont, state>> /\ (Up' => Up) /\ Taken
    BY DEF Calls, Remote, connVars, pipeVars, threadVars, Up
  <1>2. Held' <=> Held
    BY <1>1 DEF Held, Loc
  <1>3. \A i \in DOMAIN toCli' : \E k \in DOMAIN toCli : toCli'[i] = toCli[k]
    BY <1>1, TakenVersion
  <1> QED BY <1>1, <1>2, <1>3 DEF HeldInv

\* ... starts nothing, ...
LEMMA CallsIdle ==
  ASSUME IdleInv, UNCHANGED Remote, state = "RUNNING" => state' = "RUNNING"
  PROVE  IdleInv'
  <1>1. UNCHANGED <<inst, proc, pcode, srvOpen>>
    BY DEF Remote, connVars, pipeVars, threadVars, srvVars
  <1> QED BY <1>1 DEF IdleInv

\* ... and writes nothing behind the command but to interrupt it.
LEMMA CallsLine ==
  ASSUME ClientTypeOK, LineInv, Calls
  PROVE  LineInv'
  <1> SUFFICES ASSUME state' = "RUNNING", ~Cut'
               PROVE  /\ Held' /\ NoneOf(toSrv, "close", "ctrl")'
                      /\ LastOnly(c2s["ctrl"], "run")'
                      /\ Free(c2s["ctrl"], "run")' \/ NoneWritten'
                      /\ \A i, j \in DOMAIN toSrv' :
                            /\ Is(toSrv'[i], "write", "ctrl") /\ toSrv'[i].items = RunCommandOf(account')
                            /\ Is(toSrv'[j], "write", "ctrl")
                            => j <= i
                      /\ Loc' \notin Early => c2s'["ctrl"] = <<>> /\ NoneWritten'
                      /\ pc' = "wait" => ovl' = "pending"
    BY DEF LineInv
  <1>1. /\ UNCHANGED <<inst, pc, cont, c2s, ovl, account>> /\ state = "RUNNING" /\ ~Cut /\ ~abortSent' /\ Quietly
    BY DEF Calls, Remote, connVars, pipeVars, threadVars, Cut
  <1>2. PICK rs \in Seq(Wired(account)) : Adds(rs) /\ \A j \in DOMAIN rs : Quiet(rs[j])
    BY <1>1 DEF Quietly
  <1>3. toSrv \in Seq(Wired(account))
    BY DEF ClientTypeOK
  <1>4. NoneOf(rs, "write", "ctrl") /\ NoneOf(rs, "close", "ctrl")
    BY <1>1, <1>2 DEF NoneOf, Quiet
  <1>5. /\ NoneOf(toSrv, "close", "ctrl") => NoneOf(toSrv', "close", "ctrl")
        /\ NoneWritten => NoneWritten'
    BY <1>2, <1>3, <1>4, AddsOf DEF NoneWritten
  <1>6. \A i \in DOMAIN toSrv' : Is(toSrv'[i], "write", "ctrl") => i \in DOMAIN toSrv /\ toSrv'[i] = toSrv[i]
    BY <1>2, <1>3, <1>4, AddsElements DEF NoneOf
  <1>7. Held' <=> Held
    BY <1>1 DEF Held, Loc
  <1>8. Loc' = Loc
    BY <1>1 DEF Loc
  <1>9. LastOnly(c2s["ctrl"], "run")' <=> LastOnly(c2s["ctrl"], "run")
    BY <1>1
  <1>10. Free(c2s["ctrl"], "run")' <=> Free(c2s["ctrl"], "run")
    BY <1>1
  <1> QED BY <1>1, <1>5, <1>6, <1>7, <1>8, <1>9, <1>10 DEF LineInv

\* What is told of the end of the command.
LEMMA LearnsCode ==
  ASSUME ClientTypeOK, CodeInv, UNCHANGED Remote, Taken, Learns, state = "RUNNING" => state' = "RUNNING"
  PROVE  CodeInv'
  <1>1. /\ UNCHANGED <<s2c, ec, pcode, proc, pc, cont, codeSeen>> /\ (Cut => Cut') /\ (Staying' => Staying)
        /\ return_code' = return_code \/ GivesUp
    BY DEF Remote, connVars, pipeVars, threadVars, Learns, Cut
  <1>2. Loc' = Loc
    BY <1>1 DEF Loc
  <1>3. \A i \in DOMAIN toCli' : \E k \in DOMAIN toCli : toCli'[i] = toCli[k]
    BY TakenVersion
  <1>4. CodeDue' => CodeDue
    BY <1>1, <1>3 DEF CodeDue, Coder, Fetched
  <1>5. CodeIs(s2c["ctrl"])' /\ \A i \in DOMAIN toCli' : Fetched(i)' => CodeIs(toCli[i].data)'
    BY <1>1, <1>3 DEF CodeInv, CodeIs, Fetched
  <1>6. CodeDue' => /\ proc' = "exited" /\ Loc' \in Released
                    /\ s2c'["out"] = <<>> /\ s2c'["err"] = <<>>
    BY <1>1, <1>2, <1>4 DEF CodeInv
  <1>7. CodeDue' \/ Loc' \in {"flushout", "flusherr", "report"} => ec' = pcode' \/ (ec' = Aborted /\ Cut')
    BY <1>1, <1>2, <1>4 DEF CodeInv
  <1>8. codeSeen' => state' = "RUNNING" /\ return_code' = ec'
    BY <1>1 DEF CodeInv, GivesUp
  <1>9. Staying' /\ ~codeSeen' => return_code' = InitialCode
    BY <1>1 DEF CodeInv, GivesUp, Staying
  <1> QED BY <1>5, <1>6, <1>7, <1>8, <1>9 DEF CodeInv

-----------------------------------------------------------------------------
\* The callbacks of the control pipe.

ToldInv == IdleInv /\ AskInv /\ HeldInv /\ LineInv /\ CodeInv

\* The message that is acted upon is in the reply that is taken.
LEMMA MessageTaken ==
  ASSUME SessTypeOK, ReadInv, VersionInv, NEW type, CtrlRead(type)
  PROVE  /\ Taken /\ mode = "loop" /\ mode' = mode /\ state \in {"GETTING_VERSION", "RUNNING"}
         /\ UNCHANGED <<account, net, abortSent>> /\ Popped("read", "ctrl")
         /\ 1 \in DOMAIN toCli /\ Reply = toCli[1] /\ Fetched(1) /\ Mentions(toCli[1].data, type)
         /\ Head(Reply.data) = toCli[1].data[1] /\ 1 \in DOMAIN toCli[1].data
         /\ toCli[1].data[1].type = type /\ toCli' = Tail(toCli)
  <1>1. /\ toCli # <<>> /\ toCli' = Tail(toCli) /\ mode = "loop" /\ Reply = toCli[1] /\ 1 \in DOMAIN toCli /\ Fetched(1)
        /\ state \in {"GETTING_VERSION", "RUNNING"} /\ Head(Reply.data).type = type
    BY MessageFetched
  <1>2. UNCHANGED <<mode, account, net, abortSent>>
    BY DEF CtrlRead, sigVars
  <1>3. ClientTypeOK /\ toCli \in Seq(Replied)
    BY DEF SessTypeOK, ClientTypeOK
  <1>4. Reply.data \in Seq(Message) /\ Reply.data # <<>>
    <2>1. Reply \in Replied /\ Reply.op = "read" /\ Reply.status = "ok"
      BY <1>1, <1>3 DEF Fetched, OnCtrl
    <2> QED BY <2>1 DEF Replied
  <1>5. Head(Reply.data) = toCli[1].data[1] /\ 1 \in DOMAIN toCli[1].data
    BY <1>1, <1>4
  <1> QED BY <1>1, <1>2, <1>5 DEF Taken, Popped, Fetched, OnCtrl, Is, Mentions

\* The open of the control pipe is followed by the one question for the version.
LEMMA CtrlOpenedTold ==
  ASSUME SessTypeOK, OnceInv, ToldInv, CtrlOpened, UNCHANGED Remote
  PROVE  ToldInv'
  <1> DEFINE w == async_write("ctrl", Reply.fnum, GetVersion)
             r == async_read("ctrl", Reply.fnum)
             rs == <<w, r>>
  <1>1. /\ Receive("open", TRUE) /\ Reply.pipe = "ctrl" /\ state' = "GETTING_VERSION"
        /\ Send(Rest(Reply), rs) /\ Reply.status = "ok" /\ Matching(Reply) # {} /\ mode = "loop"
        /\ UNCHANGED <<account, mode, return_code, abortSent, codeSeen, net>>
    BY DEF CtrlOpened, Receive, Receiving, userVars
  <1>2. ClientTypeOK /\ ReadInv /\ OpenInv /\ "ctrl" \in Pipe /\ toSrv \in Seq(Wired(account))
    BY DEF SessTypeOK, OnceInv, Pipe, ClientTypeOK
  <1>3. /\ Taken /\ Reply = toCli[1] /\ 1 \in DOMAIN toCli /\ Is(toCli[1], "open", "ctrl") /\ Reply.fnum \in Nat
    BY <1>1, <1>2, Received DEF Is
  <1>4. state = "OPENING"
    BY <1>1, <1>2, <1>3, RestOpens DEF OnCtrl, Is
  <1>5. /\ UNCHANGED <<inst, c2s, s2c, pc, cont, srvOpen, srvFnum>>
    BY DEF Remote, connVars, pipeVars, threadVars, srvVars
  <1>6. rs \in Seq(Wired(account)) /\ Len(rs) = 2 /\ rs[1] = w /\ rs[2] = r /\ r.op = "read"
    <2>1. w \in Wired(account) /\ r \in Wired(account)
      BY <1>2, <1>3, OwnRequestType
    <2> QED BY <2>1 DEF async_read, Request
  <1>7. SendOn(net, Rest(Reply), rs)
    BY <1>1 DEF Send
  <1> HIDE DEF rs, r, w
  <1>8. Adds(rs)
    BY <1>7, SendAdds
  <1>9. Up' <=> Up
    BY <1>1 DEF Up, Staying
  <1>10. AskInv'
    <2> SUFFICES ASSUME Up PROVE OneVersion'
      BY <1>1, <1>9 DEF AskInv
    <2>1. QuietVersion /\ NoneVersion
      BY <1>2, <1>4 DEF ToldInv, AskInv, ReadInv, QuietCtrl, NoneFetched, NoneVersion, Versioned
    <2>2. NoneVersion'
      BY <1>2, <1>3, <2>1, TakenVersion
    <2>3. Free(c2s["ctrl"], "get")' /\ ~Mentions(s2c["ctrl"], "version")'
      BY <1>5, <2>1 DEF QuietVersion
    <2>4. ASSUME NEW i \in DOMAIN toSrv', Queries(i)'
          PROVE  i = Len(toSrv) + 1
      <3>1. toSrv' = toSrv \/ toSrv' = toSrv \o rs
        BY <1>8 DEF Adds
      <3>2. ~(i \in DOMAIN toSrv /\ toSrv'[i] = toSrv[i])
        BY <1>5, <2>1, <2>4 DEF QuietVersion, NoneQueries, Queries, Alive
      <3>3. /\ Len(toSrv) \in Nat /\ i \in Nat /\ i - Len(toSrv) \in DOMAIN rs /\ i = Len(toSrv) + (i - Len(toSrv))
            /\ toSrv'[i] = rs[i - Len(toSrv)]
        <4>1. toSrv' = toSrv \o rs /\ i \in DOMAIN (toSrv \o rs)
          BY <2>4, <3>1, <3>2
        <4>2. ~(i \in DOMAIN toSrv /\ (toSrv \o rs)[i] = toSrv[i])
          BY <3>2, <4>1
        <4>3. /\ Len(toSrv) \in Nat /\ i \in Nat
              /\ \/ i \in DOMAIN toSrv /\ i <= Len(toSrv) /\ (toSrv \o rs)[i] = toSrv[i]
                 \/ /\ i - Len(toSrv) \in DOMAIN rs /\ i = Len(toSrv) + (i - Len(toSrv))
                    /\ i > Len(toSrv) /\ (toSrv \o rs)[i] = rs[i - Len(toSrv)]
          BY <1>2, <1>6, <4>1, ConcatSplit
        <4> QED BY <4>1, <4>2, <4>3
      <3>4. i - Len(toSrv) \in {1, 2}
        BY <1>6, <3>3
      <3>5. i - Len(toSrv) # 2
        BY <1>6, <2>4, <3>3 DEF Queries, Alive, Is
      <3> QED BY <3>3, <3>4, <3>5
    <2>5. \A i, j \in DOMAIN toSrv' : Queries(i)' /\ Queries(j)' => i = j
      BY <2>4
    <2>6. Single(c2s["ctrl"], "get")'
      BY <2>3 DEF Free, Single
    <2> QED BY <2>2, <2>3, <2>5, <2>6 DEF OneVersion
  <1>11. HeldInv'
    <2>1. Up => Held
      BY <1>1, <1>3 DEF ToldInv, HeldInv
    <2>2. Held' <=> Held
      BY <1>5 DEF Held, Loc
    <2> QED BY <1>9, <2>1, <2>2 DEF HeldInv
  <1>12. LineInv'
    BY <1>1 DEF LineInv
  <1>13. IdleInv'
    BY <1>4, CallsIdle DEF ToldInv
  <1>14. Learns
    BY <1>1 DEF Learns, Staying, Gone
  <1>15. CodeInv'
    BY <1>2, <1>3, <1>4, <1>14, LearnsCode DEF ToldInv
  <1> QED BY <1>10, <1>11, <1>12, <1>13, <1>15 DEF ToldInv

\* A service that is too old is closed.
LEMMA CloseTold ==
  ASSUME SessTypeOK, OnceInv, ToldInv, NEW type, CtrlRead(type), CloseForReinstall, state = "GETTING_VERSION", UNCHANGED Remote
  PROVE  ToldInv'
  <1>1. /\ Taken /\ mode = "loop" /\ mode' = mode /\ UNCHANGED <<account, net, abortSent>>
    BY MessageTaken DEF OnceInv
  <1>2. state' = "CLOSING_FOR_REINSTALL" /\ UNCHANGED <<return_code, codeSeen>>
    BY DEF CloseForReinstall, userVars
  <1>3. ClientTypeOK
    BY DEF SessTypeOK
  <1>4. UNCHANGED <<inst, pc, cont>>
    BY DEF Remote, connVars, pipeVars, threadVars
  <1>5. (Up' <=> Up) /\ (Held' <=> Held)
    BY <1>1, <1>4 DEF Up, Staying, Held, Loc
  <1>6. \A i \in DOMAIN toCli' : \E k \in DOMAIN toCli : toCli'[i] = toCli[k]
    BY <1>1, <1>3, TakenVersion
  <1>7. AskInv' /\ LineInv'
    BY <1>2 DEF AskInv, LineInv
  <1>8. HeldInv'
    BY <1>2, <1>5, <1>6 DEF ToldInv, HeldInv
  <1>9. IdleInv'
    BY CallsIdle DEF ToldInv
  <1>10. Learns
    BY <1>1, <1>2 DEF Learns, Staying, Gone
  <1>11. CodeInv'
    BY <1>1, <1>3, <1>10, LearnsCode DEF ToldInv
  <1> QED BY <1>7, <1>8, <1>9, <1>11 DEF ToldInv

\* The command is the last line of what is written for it.
LEMMA RunAsked == \A a : ~Unasked(RunCommandOf(a))
  <1> SUFFICES ASSUME NEW a PROVE ~Unasked(RunCommandOf(a))
    OBVIOUS
  <1>1. CASE a = "runas"
    BY <1>1 DEF RunCommandOf, CommandLine, Unasked
  <1>2. CASE a = "system"
    BY <1>2 DEF RunCommandOf, CommandLine, Unasked
  <1>3. CASE a \notin {"runas", "system"}
    BY <1>3 DEF RunCommandOf, CommandLine, Unasked
  <1> QED BY <1>1, <1>2, <1>3

\* The version is the client's: the command is sent.
LEMMA VersionTold ==
  ASSUME SessTypeOK, OnceInv, Stored, ToldInv, OnVersion, UNCHANGED Remote
  PROVE  ToldInv'
  <1> DEFINE w == async_write("ctrl", fd["ctrl"], RunCommand)
             rs == <<w, NextRead>>
  <1>1. /\ CtrlRead("version") /\ state' = "RUNNING" /\ Send(Rest(Reply), rs)
        /\ UNCHANGED <<return_code, codeSeen>>
    BY DEF OnVersion, userVars
  <1>2. /\ Taken /\ mode = "loop" /\ mode' = mode /\ UNCHANGED <<account, net, abortSent>>
        /\ 1 \in DOMAIN toCli /\ Fetched(1) /\ Mentions(toCli[1].data, "version") /\ Popped("read", "ctrl")
    BY <1>1, MessageTaken DEF OnceInv
  <1>3. /\ ClientTypeOK /\ ReadInv /\ LaunchInv /\ RoundInv /\ toSrv \in Seq(Wired(account)) /\ "ctrl" \in Pipe
        /\ toCli \in Seq(Replied) /\ fd["ctrl"] \in Nat
    BY DEF SessTypeOK, OnceInv, Stored, ClientTypeOK, Pipe
  <1>4. UNCHANGED <<inst, c2s, s2c, pc, cont, ovl, srvOpen, srvFnum>>
    BY DEF Remote, connVars, pipeVars, threadVars, srvVars
  <1>5. /\ rs \in Seq(Wired(account)) /\ DOMAIN rs = {1, 2}
        /\ Is(rs[1], "write", "ctrl") /\ rs[1].items = RunCommandOf(account) /\ Is(rs[2], "read", "ctrl")
    <2>1. w \in Wired(account) /\ NextRead \in Wired(account)
      BY <1>3, OwnRequestType DEF NextRead, RunCommand
    <2> QED BY <2>1 DEF async_read, async_write, Request, NextRead, RunCommand, Is
  <1>6. Adds(rs)
    <2> HIDE DEF rs
    <2> QED BY <1>1, SendAdds DEF Send
  <1> HIDE DEF rs, w
  <1>7. IdleInv'
    BY <1>1, CallsIdle DEF ToldInv
  <1>8. CodeInv'
    <2>1. Learns
      BY <1>1, <1>2 DEF Learns, Staying, Gone
    <2> QED BY <1>1, <1>2, <1>3, <2>1, LearnsCode DEF ToldInv
  <1>9. CASE ~Up
    <2>1. ~Up' /\ Cut'
      BY <1>2, <1>9 DEF Up, Staying, Cut
    <2> QED BY <1>7, <1>8, <2>1 DEF ToldInv, AskInv, HeldInv, LineInv
  <1>10. CASE Up
    <2>1. NoneVersion => FALSE
      BY <1>2 DEF NoneVersion, Versioned
    <2>2. state = "GETTING_VERSION"
      <3>1. state \in {"GETTING_VERSION", "RUNNING"}
        BY <1>1, MessageTaken DEF OnceInv
      <3> QED BY <1>10, <2>1, <3>1 DEF ToldInv, AskInv
    <2>3. OneVersion /\ Held /\ OneFetched
      BY <1>3, <1>10, <2>2 DEF ToldInv, AskInv, HeldInv, ReadInv, OneRead
    <2>4. NoneQueries /\ Free(c2s["ctrl"], "get") /\ ~Mentions(s2c["ctrl"], "version")
      BY <2>1, <2>3 DEF OneVersion
    <2>5. NoneVersion'
      <3>1. toCli # <<>> /\ toCli' = Tail(toCli)
        BY <1>2 DEF Popped
      <3>2. NoneFetched'
        BY <1>2, <1>3, <2>3, <3>1, FetchedTail
      <3> QED BY <3>2 DEF NoneFetched, NoneVersion, Versioned
    <2>6. \A i \in DOMAIN toSrv' : \/ i \in DOMAIN toSrv /\ toSrv'[i] = toSrv[i]
                                  \/ \E j \in DOMAIN rs : toSrv'[i] = rs[j]
      BY <1>3, <1>5, <1>6, AddsElements
    <2>7. NoneQueries'
      <3>1. ASSUME NEW i \in DOMAIN toSrv', Queries(i)' PROVE FALSE
        <4>1. CASE i \in DOMAIN toSrv /\ toSrv'[i] = toSrv[i]
          BY <1>4, <2>4, <3>1, <4>1 DEF NoneQueries, Queries, Alive
        <4>2. CASE \E j \in DOMAIN rs : toSrv'[i] = rs[j]
          BY <1>5, <3>1, <4>2, OwnLines DEF Queries, Alive, Is
        <4> QED BY <2>6, <4>1, <4>2
      <3> QED BY <3>1 DEF NoneQueries
    <2>8. AskInv'
      <3>1. QuietVersion'
        BY <1>4, <2>4, <2>7 DEF QuietVersion
      <3> QED BY <1>1, <2>5, <3>1 DEF AskInv
    <2>9. Held'
      BY <1>4, <2>3 DEF Held, Loc
    <2>10. HeldInv'
      BY <1>1, <2>9 DEF HeldInv
    <2>11. NoneOf(toSrv, "close", "ctrl") /\ Unasked(c2s["ctrl"]) /\ NoRun(toSrv) /\ Loc \in Early
      <3>1. net # "dead" /\ net = "up"
        BY <1>10 DEF Up
      <3>2. NoneOf(toSrv, "close", "ctrl")
        BY <1>3, <2>2, <3>1 DEF RoundInv
      <3> QED BY <1>3, <2>2, <3>2 DEF LaunchInv, NoRun, Early
    <2>12. NoneOf(toSrv', "close", "ctrl")
      <3>1. NoneOf(rs, "close", "ctrl")
        BY <1>5 DEF NoneOf, Is
      <3> QED BY <1>3, <1>5, <1>6, <2>11, <3>1, AddsOf
    <2>13. Free(c2s["ctrl"], "run")' /\ LastOnly(c2s["ctrl"], "run")'
      BY <1>4, <2>11 DEF Free, LastOnly, Unasked
    <2>14. ASSUME NEW i \in DOMAIN toSrv', NEW j \in DOMAIN toSrv',
                  Is(toSrv'[i], "write", "ctrl"), toSrv'[i].items = RunCommandOf(account'), Is(toSrv'[j], "write", "ctrl")
           PROVE  j <= i
      <3>0. ~(i \in DOMAIN toSrv /\ toSrv'[i] = toSrv[i])
        <4>1. SUFFICES ASSUME i \in DOMAIN toSrv, toSrv'[i] = toSrv[i] PROVE FALSE
          OBVIOUS
        <4>2. Unasked(RunCommandOf(account))
          BY <1>2, <2>11, <2>14, <4>1 DEF NoRun, OnCtrl, Is
        <4> QED BY <4>2, RunAsked
      <3>1. toSrv' = toSrv \o rs
        BY <1>6, <2>14, <3>0 DEF Adds
      <3>2. ASSUME NEW k \in DOMAIN toSrv', Is(toSrv'[k], "write", "ctrl")
            PROVE  /\ Len(toSrv) \in Nat /\ k \in Nat
                   /\ (k \in DOMAIN toSrv /\ k <= Len(toSrv) /\ toSrv'[k] = toSrv[k]) \/ k = Len(toSrv) + 1
        <4>1. k \in DOMAIN (toSrv \o rs)
          BY <3>1
        <4>2. /\ Len(toSrv) \in Nat /\ k \in Nat
              /\ \/ k \in DOMAIN toSrv /\ k <= Len(toSrv) /\ (toSrv \o rs)[k] = toSrv[k]
                 \/ /\ k - Len(toSrv) \in DOMAIN rs /\ k = Len(toSrv) + (k - Len(toSrv))
                    /\ k > Len(toSrv) /\ (toSrv \o rs)[k] = rs[k - Len(toSrv)]
          BY <1>3, <1>5, <4>1, ConcatSplit
        <4>3. ~Is(rs[2], "write", "ctrl")
          BY <1>5 DEF Is
        <4>4. k - Len(toSrv) \in DOMAIN rs /\ (toSrv \o rs)[k] = rs[k - Len(toSrv)] => k - Len(toSrv) = 1
          BY <1>5, <3>1, <3>2, <4>3
        <4> QED BY <3>1, <4>2, <4>4
      <3>3. i = Len(toSrv) + 1 /\ Len(toSrv) \in Nat
        BY <2>14, <3>0, <3>2
      <3>4. j \in Nat /\ (j <= Len(toSrv) \/ j = Len(toSrv) + 1)
        BY <2>14, <3>2
      <3> QED BY <3>3, <3>4
    <2>15. Loc' \in Early /\ pc' # "wait"
      BY <1>4, <2>11 DEF Early, Loc
    <2>16. LineInv'
      BY <2>9, <2>12, <2>13, <2>14, <2>15 DEF LineInv
    <2> QED BY <1>7, <1>8, <2>8, <2>10, <2>16 DEF ToldInv
  <1> QED BY <1>9, <1>10

\* The code is told.
LEMMA CodeTold ==
  ASSUME SessTypeOK, OnceInv, ToldInv, OnReturnCode, UNCHANGED Remote
  PROVE  /\ ToldInv' /\ Popped("read", "ctrl") /\ Coder(1)
  <1>1. CtrlRead("return_code") /\ return_code' = Head(Reply.data).val /\ codeSeen'
    BY DEF OnReturnCode
  <1>2. /\ Taken /\ mode = "loop" /\ mode' = mode /\ UNCHANGED <<account, net, abortSent>>
        /\ 1 \in DOMAIN toCli /\ Fetched(1) /\ Mentions(toCli[1].data, "return_code") /\ Popped("read", "ctrl")
        /\ Head(Reply.data) = toCli[1].data[1] /\ 1 \in DOMAIN toCli[1].data /\ toCli[1].data[1].type = "return_code"
    BY <1>1, MessageTaken DEF OnceInv
  <1>3. ClientTypeOK
    BY DEF SessTypeOK
  <1>4. Quietly /\ state' = state
    BY <1>3, MessageQuiet
  <1>5. Calls
    BY <1>2, <1>4 DEF Calls, Staying, Cut
  <1>6. Coder(1) /\ CodeDue
    BY <1>2 DEF Coder, CodeDue
  <1>7. AskInv' /\ HeldInv' /\ LineInv' /\ IdleInv'
    BY <1>3, <1>4, <1>5, CallsAsk, CallsHeld, CallsLine, CallsIdle DEF ToldInv
  <1>8. UNCHANGED <<s2c, ec, pcode, proc, pc, cont>> /\ Loc' = Loc /\ (Cut => Cut')
    BY <1>5 DEF Calls, Remote, connVars, pipeVars, threadVars, Loc
  <1>9. \A i \in DOMAIN toCli' : \E k \in DOMAIN toCli : toCli'[i] = toCli[k]
    BY <1>2, <1>3, TakenVersion
  <1>10. return_code' = ec
    BY <1>1, <1>2 DEF ToldInv, CodeInv, CodeIs
  <1>11. state' = "RUNNING"
    BY <1>4, <1>6 DEF ToldInv, CodeInv, IdleInv
  <1>12. CodeIs(s2c["ctrl"])' /\ \A i \in DOMAIN toCli' : Fetched(i)' => CodeIs(toCli[i].data)'
    BY <1>8, <1>9 DEF ToldInv, CodeInv, CodeIs, Fetched
  <1>13. /\ proc' = "exited" /\ Loc' \in Released /\ s2c'["out"] = <<>> /\ s2c'["err"] = <<>>
         /\ ec' = pcode' \/ (ec' = Aborted /\ Cut')
    BY <1>6, <1>8 DEF ToldInv, CodeInv
  <1>14. CodeInv'
    BY <1>1, <1>8, <1>10, <1>11, <1>12, <1>13 DEF CodeInv
  <1> QED BY <1>2, <1>6, <1>7, <1>14 DEF ToldInv

\* A message that is not acted upon.
LEMMA OtherTold ==
  ASSUME SessTypeOK, OnceInv, ToldInv, NEW type, CtrlRead(type), Quietly, state' = state,
         UNCHANGED <<return_code, codeSeen>>, UNCHANGED Remote
  PROVE  ToldInv'
  <1>1. /\ Taken /\ mode = "loop" /\ mode' = mode /\ UNCHANGED <<account, net, abortSent>>
    BY MessageTaken DEF OnceInv
  <1>2. ClientTypeOK
    BY DEF SessTypeOK
  <1>3. Calls
    BY <1>1 DEF Calls, Staying, Cut
  <1>4. Learns
    BY <1>1 DEF Learns, Staying, Gone
  <1>5. AskInv' /\ HeldInv' /\ LineInv' /\ IdleInv'
    BY <1>2, <1>3, CallsAsk, CallsHeld, CallsLine, CallsIdle DEF ToldInv
  <1>6. CodeInv'
    BY <1>1, <1>2, <1>4, LearnsCode DEF ToldInv
  <1> QED BY <1>5, <1>6 DEF ToldInv

\* A message is followed by what it asks for, and only a return code tells one.
LEMMA MessageTold ==
  ASSUME SessTypeOK, OnceInv, Stored, ToldInv, CtrlMessage, UNCHANGED Remote
  PROVE  ToldInv' /\ (codeSeen' => codeSeen \/ (Popped("read", "ctrl") /\ Coder(1)))
  <1>0. ClientTypeOK /\ ReadInv /\ VersionInv
    BY DEF SessTypeOK, OnceInv
  <1>1. CASE OnStdIoErr
    <2>1. CtrlRead("std_io_err") /\ UNCHANGED <<return_code, codeSeen>>
      BY <1>1 DEF OnStdIoErr, userVars
    <2>2. Quietly /\ state' = state
      BY <1>0, <1>1, MessageQuiet
    <2> QED BY <2>1, <2>2, OtherTold
  <1>2. CASE OnReturnCode
    BY <1>2, CodeTold
  <1>3. CASE OnVersion
    <2>1. codeSeen' = codeSeen
      BY <1>3 DEF OnVersion, userVars
    <2> QED BY <1>3, <2>1, VersionTold
  <1>4. CASE OnBadVersion
    <2>1. CtrlRead("version") /\ CloseForReinstall /\ codeSeen' = codeSeen
      BY <1>4 DEF OnBadVersion, CloseForReinstall, userVars
    <2>2. state = "GETTING_VERSION"
      BY <1>0, <1>4, BadVersionGetting
    <2> QED BY <2>1, <2>2, CloseTold
  <1>5. CASE OnServiceError /\ state = "GETTING_VERSION"
    <2>1. CtrlRead("error") /\ CloseForReinstall /\ codeSeen' = codeSeen
      BY <1>5 DEF OnServiceError, CloseForReinstall, userVars
    <2> QED BY <1>5, <2>1, CloseTold
  <1>6. CASE OnServiceError /\ state # "GETTING_VERSION"
    <2>1. CtrlRead("error") /\ UNCHANGED <<return_code, codeSeen>>
      BY <1>6 DEF OnServiceError, userVars
    <2>2. Quietly /\ state' = state
      BY <1>0, <1>6, MessageQuiet
    <2> QED BY <2>1, <2>2, OtherTold
  <1>7. CASE OnUnknown
    <2>1. CtrlRead("error:") /\ UNCHANGED <<return_code, codeSeen>>
      BY <1>7 DEF OnUnknown, userVars
    <2>2. Quietly /\ state' = state
      BY <1>0, <1>7, MessageQuiet
    <2> QED BY <2>1, <2>2, OtherTold
  <1> QED BY <1>1, <1>2, <1>3, <1>4, <1>5, <1>6, <1>7 DEF CtrlMessage

\* Plain steps tell the caller no code.
LEMMA PlainTold ==
  ASSUME SessTypeOK, OnceInv, ToldInv, PlainStep, ~Reinstalled, UNCHANGED Remote
  PROVE  ToldInv' /\ codeSeen' = codeSeen
  <1>1. ClientTypeOK /\ OpenInv
    BY DEF SessTypeOK, OnceInv
  <1>2. Quietly /\ Taken
    BY <1>1, PlainQuiet, PlainSteps
  <1>3. Learns /\ state' = state
    BY <1>1, PlainLearns
  <1>4. Calls
    <2>1. Cut => Cut'
      BY <1>3 DEF Learns, Cut
    <2> QED BY <1>2, <1>3, <2>1 DEF Calls, Learns
  <1>5. AskInv' /\ HeldInv' /\ LineInv' /\ IdleInv'
    BY <1>1, <1>3, <1>4, CallsAsk, CallsHeld, CallsLine, CallsIdle DEF ToldInv
  <1>6. CodeInv'
    BY <1>1, <1>2, <1>3, LearnsCode DEF ToldInv
  <1> QED BY <1>3, <1>5, <1>6 DEF ToldInv, Learns

\* The reads of the output pipes in a callback.
LEMMA OutputRuns ==
  ASSUME SessTypeOK, TimedInv, StoreInv, RunInv, Staying', Staying,
         PlainStep \/ CtrlOpened \/ CtrlMessage, NEW p \in Outputs, PipeStays(p),
         codeSeen' => codeSeen \/ (Popped("read", "ctrl") /\ Coder(1))
  PROVE  OutRead(p)' /\ Flow(p)'
  <1>1. Stored /\ OutRead(p) /\ Flow(p)
    BY DEF StoreInv, RunInv, OutReadInv, FlowInv
  <1>2. ReadsKept(p) \/ ReadsAgain(p)
    BY <1>1, ClientReads
  <1>3. OutRead(p)'
    BY <1>1, <1>2, OutStep
  <1>4. Flow(p)'
    BY <1>1, <1>2, FlowStep
  <1> QED BY <1>3, <1>4

\* The invariant is kept by every callback, ...
LEMMA CallbackRuns ==
  ASSUME SessTypeOK, OnceInv, TimedInv, StoreInv, RunInv,
         (PlainStep /\ ~Reinstalled) \/ CtrlOpened \/ CtrlMessage, UNCHANGED Remote
  PROVE  RunInv'
  <1>0. /\ ClientTypeOK /\ ToldInv /\ ReadInv /\ VersionInv /\ OpenInv
    BY DEF SessTypeOK, RunInv, ToldInv, OnceInv
  <1>1. /\ ToldInv' /\ Taken /\ (net' = "up" => net = "up") /\ (Staying' => Staying)
        /\ codeSeen' => codeSeen \/ (Popped("read", "ctrl") /\ Coder(1))
    <2>1. CASE PlainStep /\ ~Reinstalled
      <3>1. ToldInv' /\ codeSeen' = codeSeen
        BY <1>0, <2>1, PlainTold
      <3>2. Taken
        BY <1>0, <2>1, PlainSteps
      <3>3. (net' = "up" => net = "up") /\ (Staying' => Staying)
        BY <1>0, <2>1, PlainLearns DEF Learns
      <3> QED BY <3>1, <3>2, <3>3
    <2>2. CASE CtrlOpened
      <3>1. ToldInv'
        BY <1>0, <2>2, CtrlOpenedTold
      <3>2. Taken /\ mode = "loop" /\ UNCHANGED <<net, codeSeen>>
        BY <1>0, <2>2, Received DEF CtrlOpened, userVars
      <3> QED BY <3>1, <3>2 DEF Staying
    <2>3. CASE CtrlMessage
      <3>1. PICK type : CtrlRead(type)
        BY <2>3 DEF CtrlMessage, OnStdIoErr, OnReturnCode, OnVersion, OnBadVersion, OnServiceError, OnUnknown
      <3>2. Taken /\ mode = "loop" /\ net' = net
        BY <1>0, <3>1, MessageTaken
      <3>3. Staying /\ Stored
        BY <3>2 DEF Staying, StoreInv
      <3>4. ToldInv' /\ (codeSeen' => codeSeen \/ (Popped("read", "ctrl") /\ Coder(1)))
        BY <1>0, <2>3, <3>3, MessageTold
      <3> QED BY <3>2, <3>3, <3>4
    <2> QED BY <2>1, <2>2, <2>3
  <1>2. ASSUME Staying', NEW p \in Outputs PROVE OutRead(p)' /\ Flow(p)'
    <2>1. PipeStays(p)
      BY <1>1 DEF PipeStays, Remote, connVars, pipeVars, srvVars, histVars
    <2> QED BY <1>1, <1>2, <2>1, OutputRuns
  <1>3. Staying' => OutReadInv' /\ FlowInv'
    BY <1>2 DEF OutReadInv, FlowInv
  <1> QED BY <1>1, <1>3 DEF RunInv, ToldInv

-----------------------------------------------------------------------------
\* The service control calls.

\* A new service process knows nothing of an earlier command.
LEMMA RestartTold ==
  ASSUME SessTypeOK, OnceInv, Stored, ToldInv, NEW s, NEW v, Restart(s, v), UNCHANGED srvVars,
         mode \in {"install", "reinstall"}, state # "RUNNING", state' = "OPENING", mode' = "loop",
         UNCHANGED <<toCli, return_code, codeSeen>>
  PROVE  ToldInv'
  <1>1. /\ \A p \in Pipe : inst'[p] # "conn"
        /\ c2s'["ctrl"] = <<>> /\ s2c'["ctrl"] = <<>>
        /\ proc' = "none" /\ pcode' = 0 /\ ec' = 0 /\ Loc' = "idle"
    BY DEF Restart, NewPipes, Pipe, Loc
  <1>2. ~codeSeen'
    BY DEF ToldInv, CodeInv
  <1>3. \A i \in DOMAIN toCli' : ~Fetched(i)'
    <2>1. state \in {"OPENING", "CLOSING_FOR_REINSTALL"}
      BY DEF OnceInv, OpenInv
    <2>2. NoneFetched
      BY <2>1 DEF OnceInv, ReadInv, QuietCtrl
    <2> QED BY <2>2 DEF NoneFetched, Fetched
  <1>4. IdleInv'
    BY <1>1 DEF IdleInv
  <1>5. AskInv'
    <2>1. NoneQueries'
      BY <1>1 DEF NoneQueries, Queries, Alive, Pipe
    <2>2. Free(c2s["ctrl"], "get")' /\ ~Mentions(s2c["ctrl"], "version")'
      BY <1>1, NothingMentioned
    <2> QED BY <2>1, <2>2 DEF AskInv, QuietVersion
  <1>6. HeldInv'
    <2>1. NoneOf(toCli, "open", "ctrl")
      BY DEF Stored, RoundInv, NoneUnderway
    <2> QED BY <2>1 DEF HeldInv, NoneOf
  <1>7. LineInv'
    BY DEF LineInv
  <1>8. CodeInv'
    <2>1. CodeIs(s2c["ctrl"])' /\ ~Mentions(s2c["ctrl"], "return_code")'
      BY <1>1 DEF CodeIs, Mentions
    <2>2. ~CodeDue'
      BY <1>2, <1>3, <2>1 DEF CodeDue, Coder
    <2>3. Staying /\ return_code' = InitialCode
      BY <1>2 DEF ToldInv, CodeInv, Staying
    <2> QED BY <1>1, <1>2, <1>3, <2>1, <2>2, <2>3 DEF CodeInv
  <1> QED BY <1>4, <1>5, <1>6, <1>7, <1>8 DEF ToldInv

\* ... by a new service in the place of the old one, ...
LEMMA RestartRuns ==
  ASSUME SessTypeOK, ServiceInv, OnceInv, TimedInv, StoreInv, RunInv, NEW s, NEW v, Restart(s, v),
         Installed(TRUE) \/ Reinstalled, UNCHANGED <<srvVars, wrote>>
  PROVE  RunInv'
  <1>1. /\ mode \in {"install", "reinstall"} /\ state # "RUNNING" /\ state' = "OPENING" /\ mode' = "loop"
        /\ UNCHANGED <<toCli, return_code, codeSeen, net>>
    <2>1. CASE Installed(TRUE)
      BY <2>1 DEF Installed, OnceInv, OpenInv, userVars
    <2>2. CASE Reinstalled
      BY <2>2 DEF Reinstalled, OnceInv, OpenInv, userVars
    <2> QED BY <2>1, <2>2
  <1>2. Staying /\ Stored
    BY <1>1 DEF Staying, StoreInv
  <1>3. ToldInv'
    BY <1>1, <1>2, RestartTold DEF RunInv, ToldInv
  <1>4. ASSUME NEW p \in Outputs PROVE OutRead(p)' /\ Flow(p)'
    <2>1. proc = "none"
      BY <1>1 DEF RunInv, IdleInv
    <2>2. s2c[p] = <<>> /\ s2c'[p] = <<>> /\ inst'[p] # "conn"
      BY <2>1 DEF ServiceInv, ConnInv, Restart, NewPipes, Outputs, Pipe
    <2>3. PipeStays(p)
      BY <1>1, <2>2 DEF PipeStays, Taken
    <2>4. PlainStep
      BY DEF PlainStep
    <2>5. Staying'
      BY <1>1 DEF Staying
    <2> QED BY <1>1, <1>2, <2>3, <2>4, <2>5, OutputRuns
  <1> QED BY <1>3, <1>4 DEF RunInv, ToldInv, OutReadInv, FlowInv

\* ... by the installation as a whole, ...
LEMMA InstallRuns ==
  ASSUME SessTypeOK, ServiceInv, OnceInv, TimedInv, StoreInv, RunInv, InstallStep
  PROVE  RunInv'
  <1>1. CASE InstallOk /\ svc = "down"
    BY <1>1, RestartRuns DEF InstallOk, histVars
  <1>2. CASE (InstallOk /\ svc # "down") \/ InstallFails
    <2>1. (\E ok \in BOOLEAN : Installed(ok)) /\ UNCHANGED Remote
      BY <1>2 DEF InstallOk, InstallFails, Remote
    <2>2. PlainStep /\ ~Reinstalled
      BY <2>1 DEF PlainStep, Installed, Reinstalled
    <2> QED BY <2>1, <2>2, CallbackRuns
  <1>3. CASE ReinstallOk \/ ReinstallFails
    BY <1>3, RestartRuns DEF ReinstallOk, ReinstallFails, histVars
  <1> QED BY <1>1, <1>2, <1>3 DEF InstallStep

-----------------------------------------------------------------------------
\* The invariant of a whole run.

\* ... and when nothing happens:
LEMMA StutterRuns ==
  ASSUME RunInv, UNCHANGED sessVars
  PROVE  RunInv'
  <1>1. UNCHANGED <<connVars, clientVars, srvVars, histVars>>
    BY DEF sessVars
  <1>2. UNCHANGED <<inst, c2s, s2c, discarded, pc, cont, ver, proc, pcode, ec, ovl>>
    BY <1>1 DEF connVars, pipeVars, threadVars
  <1>3. /\ UNCHANGED <<state, mode, net, abortSent, account, return_code, codeSeen, shown, wrote, toSrv, toCli, pending, fd>>
        /\ UNCHANGED <<parked, srvOpen, srvFnum>>
    BY <1>1 DEF clientVars, stateVars, sigVars, userVars, reqVars, ioVars, srvVars, histVars
  <1>4. IdleInv'
    BY <1>2, <1>3 DEF RunInv, IdleInv
  <1>5. AskInv'
    <2>1. /\ \A i \in DOMAIN toSrv : Queries(i)' <=> Queries(i)
          /\ \A i \in DOMAIN toCli : Versioned(i)' <=> Versioned(i)
          /\ Up' <=> Up
      BY <1>2, <1>3 DEF Queries, Alive, Versioned, Fetched, Up, Staying
    <2>2. (NoneQueries' <=> NoneQueries) /\ (NoneVersion' <=> NoneVersion)
      BY <1>3, <2>1 DEF NoneQueries, NoneVersion
    <2>3. (QuietVersion => QuietVersion') /\ (OneVersion => OneVersion')
      BY <1>2, <1>3, <2>1, <2>2 DEF QuietVersion, OneVersion
    <2> QED BY <1>3, <2>1, <2>2, <2>3 DEF RunInv, AskInv
  <1>6. Loc' = Loc /\ (Held' <=> Held) /\ (Up' <=> Up) /\ (Cut' <=> Cut) /\ (Staying' <=> Staying)
    BY <1>2, <1>3 DEF Held, Loc, Up, Cut, Staying
  <1>7. HeldInv'
    BY <1>3, <1>6 DEF RunInv, HeldInv
  <1>8. LineInv'
    BY <1>2, <1>3, <1>6 DEF RunInv, LineInv, NoneWritten
  <1>9. CodeInv'
    <2>1. CodeDue' <=> CodeDue
      BY <1>2, <1>3 DEF CodeDue, Coder, Fetched
    <2> QED BY <1>2, <1>3, <1>6, <2>1 DEF RunInv, CodeInv, CodeIs, Fetched
  <1>10. Staying' => OutReadInv' /\ FlowInv'
    <2>1. Fades
      BY <1>1, <1>2, <1>3 DEF Fades, clientVars, ioVars, userVars
    <2> QED BY <1>2, <1>3, <1>6, <2>1, FadesReads, FadesFlow DEF RunInv
  <1> QED BY <1>4, <1>5, <1>7, <1>8, <1>9, <1>10 DEF RunInv

\* every step of a session keeps it.
LEMMA RunStep ==
  ASSUME SessTypeOK, SessTypeOK', ServiceInv, ServiceInv', OnceInv, TimedInv, StoreInv, RunInv, [SessNext]_sessVars
  PROVE  RunInv'
  <1>1. CASE ServerNext
    BY <1>1, ServerRuns
  <1>2. CASE NetFail
    BY <1>2, LossRuns
  <1>3. CASE ThreadStep
    BY <1>3, ThreadRuns
  <1>4. CASE ProcWriteStep \/ ProcReadStep \/ ProcExitStep
    BY <1>4, ProcessRuns
  <1>5. CASE CompletionStep \/ TimeoutStep \/ DeadStep \/ StdinStep \/ TimerStep \/ SignalStep \/ ExitStep
    <2>1. UNCHANGED Remote
      BY <1>5 DEF CompletionStep, TimeoutStep, DeadStep, StdinStep, TimerStep, SignalStep, ExitStep
    <2>2. (PlainStep /\ ~Reinstalled) \/ CtrlOpened \/ CtrlMessage
      <3>1. ASSUME Reinstalled PROVE FALSE
        <4>1. /\ mode = "reinstall" /\ mode' = "loop" /\ state' = "OPENING" /\ state = "CLOSING_FOR_REINSTALL"
          BY <3>1 DEF Reinstalled, OnceInv, OpenInv
        <4>2. CASE CompletionStep \/ TimeoutStep \/ DeadStep \/ StdinStep
          BY <4>1, <4>2 DEF CompletionStep, TimeoutStep, DeadStep, StdinStep, Completion, DropReply, CtrlOpened,
             StdOpened, OnStdIoErr, OnReturnCode, OnVersion, OnBadVersion, OnServiceError, OnUnknown, CtrlRead, OutputRead,
             Written, Closed, ErrorReply, Receive, Receiving, RequestTimeout, TransportDead, StdinRead
        <4>3. CASE TimerStep \/ SignalStep \/ ExitStep
          BY <4>1, <4>3 DEF TimerStep, Timer, SignalStep, Signal, ExitStep, Exit, stateVars
        <4> QED BY <1>5, <4>2, <4>3
      <3>2. PlainStep \/ CtrlOpened \/ CtrlMessage
        BY <1>5 DEF CompletionStep, TimeoutStep, DeadStep, StdinStep, TimerStep, SignalStep, ExitStep, Completion,
           PlainStep, CtrlMessage
      <3> QED BY <3>1, <3>2
    <2> QED BY <2>1, <2>2, CallbackRuns
  <1>6. CASE InstallStep
    BY <1>6, InstallRuns
  <1>7. CASE ServerLoopReady
    BY <1>7, ReadyRuns
  <1>8. CASE UNCHANGED sessVars
    BY <1>8, StutterRuns
  <1> QED BY <1>1, <1>2, <1>3, <1>4, <1>5, <1>6, <1>7, <1>8 DEF SessNext

\* It holds when winexe starts.
LEMMA InitRuns == SessInit => RunInv
  <1> SUFFICES ASSUME SessInit PROVE RunInv
    OBVIOUS
  <1>1. /\ state = "OPENING" /\ parked = {} /\ srvOpen = {} /\ mode = "loop" /\ pc = "idle" /\ ~codeSeen
        /\ proc = "none" /\ pcode = 0 /\ ec = 0 /\ return_code = InitialCode
        /\ toSrv = <<async_open("ctrl")>> /\ toCli = <<>>
        /\ pending = <<[op |-> "open", pipe |-> "ctrl", fnum |-> 0, timed |-> TRUE]>>
    BY DEF SessInit, ClientInit, ThreadInit
  <1>2. /\ DOMAIN toCli = {} /\ DOMAIN toSrv = {1} /\ DOMAIN pending = {1}
        /\ toSrv[1].op = "open" /\ pending[1].op = "open"
    BY <1>1 DEF async_open, Request
  <1>3. /\ \A p \in Pipe : inst[p] # "conn" /\ c2s[p] = <<>> /\ s2c[p] = <<>>
        /\ \A p \in Outputs : wrote[p] = 0 /\ shown[p] = 0
        /\ "ctrl" \in Pipe /\ Outputs \subseteq Pipe
    BY DEF SessInit, ClientInit, ThreadInit, NewPipes, Pipe, Outputs
  <1>4. IdleInv
    BY <1>1, <1>3 DEF IdleInv
  <1>5. AskInv
    BY <1>1, <1>2, <1>3, NothingMentioned DEF AskInv, QuietVersion, NoneQueries, Queries, Alive, Is
  <1>6. HeldInv /\ LineInv
    BY <1>1, <1>2 DEF HeldInv, LineInv
  <1>7. CodeInv
    <2>1. ~CodeDue
      BY <1>1, <1>2, <1>3, NothingMentioned DEF CodeDue
    <2>2. Loc = "idle"
      BY <1>1 DEF Loc
    <2> QED BY <1>1, <1>2, <1>3, <2>1, <2>2, NothingMentioned DEF CodeInv
  <1>8. OutReadInv
    <2>1. ASSUME NEW p \in Outputs PROVE OutRead(p)
      BY <1>1, <1>2 DEF OutRead, OneUnderway, NoneUnderway, NoneOf, OnceOf, Known, Is
    <2> QED BY <2>1 DEF OutReadInv
  <1>9. FlowInv
    <2>1. ASSUME NEW p \in Outputs PROVE Flow(p)
      <3>1. Len(s2c[p]) = 0
        BY <1>3
      <3> QED BY <1>1, <1>2, <1>3, <3>1 DEF Flow
    <2> QED BY <2>1 DEF FlowInv
  <1> QED BY <1>4, <1>5, <1>6, <1>7, <1>8, <1>9 DEF RunInv

-----------------------------------------------------------------------------
\* What the caller sees.

\* Whom the client stands for.
LEMMA Callers ==
  /\ Caller \in {"waits", "failing", "told", "gone"}
  /\ mode \in Gone <=> Caller = "gone"
  /\ mode \notin Gone => (codeSeen <=> Caller = "told")
  /\ mode \notin Gone /\ ~codeSeen => (mode = "exiting" <=> Caller = "failing")
  <1>1. CASE mode \in Gone
    BY <1>1 DEF Caller, Gone
  <1>2. CASE mode \notin Gone /\ codeSeen
    BY <1>2 DEF Caller, Gone
  <1>3. CASE mode = "exiting" /\ ~codeSeen
    BY <1>3 DEF Caller, Gone
  <1>4. CASE mode \notin Gone /\ mode # "exiting" /\ ~codeSeen
    BY <1>4 DEF Caller, Gone
  <1> QED BY <1>1, <1>2, <1>3, <1>4

\* A step that nobody notices, or that only cuts the command off.
Unseen == UNCHANGED <<proc, pcode, wrote, shown, codeSeen, return_code>>

\* Such a step is none of RemoteRun, or is its Cut.
LEMMA UnseenStep ==
  ASSUME Unseen, mode' = mode, Cut => Cut'
  PROVE  Remotely!Cut \/ UNCHANGED Remotely!remoteVars
  <1>1. Caller' = Caller
    BY DEF Caller, Unseen
  <1>2. CASE Cut' = Cut
    BY <1>1, <1>2 DEF Unseen, Remotely!remoteVars, Cut
  <1>3. CASE Cut' # Cut
    <2>1. (abortSent' \/ net' # "up" \/ mode' \in Gone) = TRUE
      BY <1>3 DEF Cut
    <2> QED BY <1>1, <2>1 DEF Unseen, Remotely!Cut
  <1> QED BY <1>2, <1>3

\* The client goes on, gives up or leaves.
Turns ==
    /\ UNCHANGED <<proc, pcode, wrote, shown, codeSeen>> /\ mode \notin Gone
    /\ Cut => Cut'
    /\ return_code' = return_code \/ (GivesUp /\ Staying)
    /\ mode' = mode \/ mode' \in Gone \/ (Cut' = Cut /\ Staying)
    /\ mode' \in {"loop", "install", "reinstall", "exiting"} \union Gone

\* In RemoteRun this is Fail, Leave, Cut or nothing.
LEMMA TurnsStep ==
  ASSUME Turns, CodeInv
  PROVE  \/ Remotely!Cut \/ Remotely!Fail \/ Remotely!Leave
         \/ UNCHANGED Remotely!remoteVars
  <1>1. UNCHANGED <<proc, pcode, wrote, shown, codeSeen>> /\ mode \notin Gone
    BY DEF Turns
  <1>2. codeSeen => return_code' = return_code
    BY DEF Turns, GivesUp, CodeInv
  <1>3. CASE mode' = mode
    <2>1. return_code' = return_code
      BY <1>3 DEF Turns, GivesUp, Staying
    <2> QED BY <1>1, <1>3, <2>1, UnseenStep DEF Turns, Unseen
  <1>4. CASE mode' \in Gone
    <2>1. return_code' = return_code
      BY <1>4 DEF Turns, GivesUp, Gone
    <2>2. Caller # "gone" /\ Caller' = "gone"
      BY <1>1, <1>4, Callers DEF Caller, Gone
    <2> QED BY <1>1, <1>4, <2>1, <2>2 DEF Remotely!Leave
  <1>5. CASE mode' # mode /\ mode' \notin Gone
    <2>1. Cut' = Cut /\ Staying
      BY <1>5 DEF Turns
    <2>2. CASE codeSeen
      <3>1. Caller = "told" /\ Caller' = "told"
        BY <1>1, <1>5, <2>2 DEF Caller
      <3> QED BY <1>1, <1>2, <2>1, <2>2, <3>1 DEF Remotely!remoteVars, Cut
    <2>3. CASE ~codeSeen /\ mode' = "exiting"
      <3>1. Caller = "waits" /\ Caller' = "failing"
        BY <1>1, <1>5, <2>1, <2>3 DEF Caller, Staying, Gone
      <3>2. return_code' \in {InitialCode, 1}
        BY <2>1, <2>3 DEF Turns, GivesUp, CodeInv
      <3> QED BY <1>1, <2>1, <3>1, <3>2 DEF Remotely!Fail, Cut
    <2>4. CASE ~codeSeen /\ mode' # "exiting"
      <3>1. Caller = "waits" /\ Caller' = "waits"
        BY <1>1, <1>5, <2>1, <2>4 DEF Caller, Staying, Gone
      <3>2. return_code' = return_code
        BY <2>4 DEF Turns, GivesUp
      <3> QED BY <1>1, <2>1, <3>1, <3>2 DEF Remotely!remoteVars, Cut
    <2> QED BY <2>2, <2>3, <2>4
  <1> QED BY <1>3, <1>4, <1>5

\* A plain step does this, unless it shows output.
LEMMA PlainTurns ==
  ASSUME SessTypeOK, SessTypeOK', OpenInv, PlainStep, ~OutputRead, UNCHANGED <<proc, pcode, wrote>>
  PROVE  Turns
  <1>1. /\ mode \notin Gone /\ codeSeen' = codeSeen /\ (Cut => Cut')
        /\ return_code' = return_code \/ GivesUp
    BY PlainLearns DEF Learns, Cut
  <1>2. mode' \in {"loop", "install", "reinstall", "exiting"} \union Gone
    BY DEF SessTypeOK, ClientTypeOK
  <1>3. CASE (\E s \in Signals : Signal(s)) \/ Exit
    <2>1. UNCHANGED <<return_code, shown>> /\ (mode' = mode \/ mode' \in Gone)
      BY <1>3 DEF Signal, Exit, userVars, Gone
    <2> QED BY <1>1, <1>2, <2>1 DEF Turns
  <1>4. CASE TransportDead
    <2>1. mode = "loop" /\ net = "down" /\ net' = "dead"
      BY <1>4 DEF TransportDead
    <2>2. shown' = shown
      BY <1>4 DEF TransportDead, userVars, CloseDone, Fail
    <2>3. Cut = TRUE /\ Cut' = TRUE /\ Staying
      BY <2>1 DEF Cut, Staying
    <2> QED BY <1>1, <1>2, <2>2, <2>3 DEF Turns
  <1>5. CASE Timer
    <2>1. UNCHANGED <<mode, shown, return_code>>
      BY <1>5 DEF Timer, stateVars, userVars
    <2> QED BY <1>1, <1>2, <2>1 DEF Turns
  <1>6. CASE DropReply \/ StdOpened \/ Written \/ Closed \/ ErrorReply
    <2>1. mode = "loop" /\ UNCHANGED <<net, abortSent, shown>>
      BY <1>6 DEF DropReply, StdOpened, Written, Closed, CloseDone, ErrorReply, Fail, Receive, Receiving, sigVars, userVars
    <2>2. mode' \notin Gone => Cut' = Cut
      BY <1>1, <2>1 DEF Cut
    <2> QED BY <1>1, <1>2, <2>1, <2>2 DEF Turns, Staying
  <1>7. CASE RequestTimeout \/ StdinRead \/ Reinstalled \/ (\E ok \in BOOLEAN : Installed(ok))
    <2>1. mode \in {"loop", "install", "reinstall"} /\ UNCHANGED <<net, abortSent, shown>>
      <3>1. CASE RequestTimeout
        BY <3>1 DEF RequestTimeout, Fail, sigVars, userVars
      <3>2. CASE StdinRead
        BY <3>2 DEF StdinRead, sigVars
      <3>3. CASE Reinstalled
        BY <3>3 DEF Reinstalled, sigVars, userVars
      <3>4. CASE \E ok \in BOOLEAN : Installed(ok)
        BY <3>4 DEF Installed, sigVars, userVars
      <3> QED BY <1>7, <3>1, <3>2, <3>3, <3>4
    <2>2. mode' \notin Gone => Cut' = Cut
      BY <1>1, <2>1 DEF Cut
    <2> QED BY <1>1, <1>2, <2>1, <2>2 DEF Turns, Staying
  <1> QED BY <1>3, <1>4, <1>5, <1>6, <1>7 DEF PlainStep

\* Output is shown.
LEMMA OutputShows ==
  ASSUME SessTypeOK, RunInv, OutputRead, UNCHANGED Remote
  PROVE  \/ \E s \in Outputs : \E n \in 1..wrote[s] : Remotely!Show(s, n)
         \/ UNCHANGED Remotely!remoteVars
  <1> DEFINE s == Reply.pipe
             n == Len(Reply.data)
  <1>1. /\ Receive("read", TRUE) /\ s # "ctrl" /\ UNCHANGED <<mode, return_code, codeSeen, net, abortSent>>
        /\ shown' = [shown EXCEPT ![s] = @ + n]
    BY DEF OutputRead, stateVars, sigVars
  <1>2. ClientTypeOK /\ shown \in [Outputs -> Nat] /\ wrote \in [Outputs -> 0..MaxOut]
    BY DEF SessTypeOK, ClientTypeOK, ServerTypeOK, Outputs
  <1>3. /\ mode = "loop" /\ Reply = toCli[1] /\ 1 \in DOMAIN toCli /\ Reply \in Replied /\ Reply.op = "read" /\ s \in Pipe
        /\ Reply.status = "ok"
    BY <1>1, <1>2, Received DEF Receive
  <1>4. CASE s \notin Outputs
    <2>1. shown' = shown
      BY <1>1, <1>2, <1>4
    <2>2. UNCHANGED <<proc, pcode, wrote>>
      BY DEF Remote, connVars, threadVars, histVars
    <2>3. Unseen
      BY <1>1, <2>1, <2>2 DEF Unseen
    <2> QED BY <1>1, <2>3, UnseenStep DEF Unseen, Cut, Remotely!remoteVars, Caller
  <1>5. CASE s \in Outputs
    <2>1. n \in Nat /\ n # 0
      BY <1>3 DEF Replied
    <2>2. Good(1, "read", s) /\ Flow(s)
      BY <1>3, <1>5 DEF Good, Is, RunInv, FlowInv, Staying
    <2>3. ~codeSeen /\ shown[s] + n <= wrote[s]
      BY <1>3, <2>2 DEF Flow, NoneGood
    <2>4. Caller = "waits" /\ Caller' = "waits"
      BY <1>1, <1>3, <2>3 DEF Caller, Gone
    <2>5. UNCHANGED <<proc, pcode, wrote>>
      BY DEF Remote, connVars, threadVars, histVars
    <2>6. n \in 1..wrote[s] /\ n <= wrote[s] - shown[s]
      <3>1. shown[s] \in Nat /\ wrote[s] \in Nat
        BY <1>2, <1>5
      <3> HIDE DEF n
      <3> QED BY <2>1, <2>3, <3>1
    <2>7. Remotely!Show(s, n)
      BY <1>1, <2>4, <2>5, <2>6 DEF Remotely!Show
    <2> QED BY <1>5, <2>6, <2>7
  <1> QED BY <1>4, <1>5

\* The code is told after all of the output was shown.
LEMMA CodeTells ==
  ASSUME SessTypeOK, OnceInv, RunInv, OnReturnCode, UNCHANGED Remote
  PROVE  Remotely!Tell \/ UNCHANGED Remotely!remoteVars
  <1>1. CtrlRead("return_code") /\ return_code' = Head(Reply.data).val /\ codeSeen' = TRUE /\ shown' = shown
    BY DEF OnReturnCode
  <1>2. /\ mode = "loop" /\ UNCHANGED <<mode, net, abortSent>> /\ 1 \in DOMAIN toCli /\ Fetched(1)
        /\ Mentions(toCli[1].data, "return_code") /\ Head(Reply.data) = toCli[1].data[1]
        /\ 1 \in DOMAIN toCli[1].data /\ toCli[1].data[1].type = "return_code"
    BY <1>1, MessageTaken DEF OnceInv
  <1>3. Coder(1) /\ CodeDue
    BY <1>2 DEF Coder, CodeDue
  <1>4. /\ return_code' = ec /\ proc = "exited" /\ (ec = pcode \/ (ec = Aborted /\ Cut))
        /\ codeSeen => return_code = ec
    BY <1>1, <1>2, <1>3 DEF RunInv, CodeInv, CodeIs
  <1>5. UNCHANGED <<proc, pcode, wrote>> /\ Cut' = Cut
    BY <1>2 DEF Remote, connVars, threadVars, histVars, Cut
  <1>6. shown \in [Outputs -> Nat] /\ wrote \in [Outputs -> 0..MaxOut] /\ codeSeen \in BOOLEAN
        /\ DOMAIN toCli = 1..Len(toCli) /\ Len(toCli) \in Nat
    <2>1. toCli \in Seq(Replied)
      BY DEF SessTypeOK, ClientTypeOK
    <2> QED BY <2>1 DEF SessTypeOK, ClientTypeOK, ServerTypeOK, Outputs
  <1>7. CASE codeSeen
    <2>1. Unseen
      BY <1>1, <1>4, <1>5, <1>6, <1>7 DEF Unseen
    <2>2. Caller' = Caller
      BY <1>2, <2>1 DEF Unseen, Caller
    <2> QED BY <1>5, <2>1, <2>2 DEF Unseen, Cut, Remotely!remoteVars
  <1>8. CASE ~codeSeen
    <2>1. ASSUME NEW p \in Outputs PROVE shown[p] = wrote[p]
      <3>1. Flow(p)
        BY <1>2 DEF RunInv, FlowInv, Staying
      <3>2. ASSUME NEW j \in DOMAIN toCli, Good(j, "read", p) PROVE FALSE
        <4>1. j < 1
          BY <1>2, <1>3, <3>1, <3>2 DEF Flow
        <4> QED BY <1>6, <4>1
      <3>3. NoneGood("read", p)
        BY <3>2 DEF NoneGood
      <3> QED BY <1>2, <1>3, <3>1, <3>3 DEF Flow
    <2>2. shown = wrote
      BY <1>6, <2>1
    <2>3. Caller = "waits" /\ Caller' = "told"
      BY <1>1, <1>2, <1>8 DEF Caller, Gone
    <2> QED BY <1>1, <1>4, <1>5, <2>2, <2>3 DEF Remotely!Tell, Cut
  <1> QED BY <1>7, <1>8

\* Nobody notices the other callbacks of the control pipe.
LEMMA CtrlUnseen ==
  ASSUME CtrlOpened \/ (CtrlMessage /\ ~OnReturnCode), UNCHANGED Remote
  PROVE  Remotely!Cut \/ UNCHANGED Remotely!remoteVars
  <1>1. UNCHANGED <<shown, codeSeen, return_code, mode, net, abortSent>>
    <2>1. CASE CtrlOpened
      BY <2>1 DEF CtrlOpened, userVars
    <2>2. CASE OnStdIoErr \/ OnVersion \/ OnBadVersion \/ OnServiceError \/ OnUnknown
      BY <2>2 DEF OnStdIoErr, OnVersion, OnBadVersion, OnServiceError, OnUnknown, CloseForReinstall, CtrlRead,
                  sigVars, userVars
    <2> QED BY <2>1, <2>2 DEF CtrlMessage
  <1>2. UNCHANGED <<proc, pcode, wrote>>
    BY DEF Remote, connVars, threadVars, histVars
  <1> QED BY <1>1, <1>2, UnseenStep DEF Unseen, Cut

\* The command starts, and ends by itself or because it was cut off.
LEMMA ThreadSeen ==
  ASSUME SessTypeOK, ServiceInv, RunInv, ThreadStep
  PROVE  Remotely!Start \/ Remotely!End(Aborted) \/ UNCHANGED Remotely!remoteVars
  <1>1. /\ ThreadNext /\ UNCHANGED <<clientVars, wrote>> /\ cont \notin Ending \union {"flush", "wait"}
    BY DEF ThreadStep, ServiceInv, ConnInv, Ending
  <1>2. UNCHANGED <<shown, codeSeen, return_code, mode, net, abortSent, wrote>>
    BY <1>1 DEF clientVars, userVars, stateVars, sigVars
  <1>3. Caller' = Caller /\ Cut' = Cut
    BY <1>2 DEF Caller, Cut
  <1>4. CASE UNCHANGED <<proc, pcode>>
    BY <1>2, <1>3, <1>4 DEF Remotely!remoteVars, Cut
  <1>5. CASE pc = "spawn" /\ proc' = "running" /\ pcode' = pcode
    <2>1. proc = "none"
      BY <1>5 DEF ServiceInv, ConnInv, Loc, BeforeSpawn
    <2> QED BY <1>2, <1>3, <1>5, <2>1 DEF Remotely!Start, Cut
  <1>6. CASE pc = "wait" /\ ControlSignalled /\ proc' = "exited" /\ pcode' = IF proc = "running" THEN Aborted ELSE pcode
    <2>1. proc # "none" /\ Cut
      BY <1>6, SignalledCut DEF RunInv
    <2>2. CASE proc = "running"
      BY <1>2, <1>3, <1>6, <2>1, <2>2 DEF Remotely!End, Cut
    <2>3. CASE proc # "running"
      <3>1. UNCHANGED <<proc, pcode>>
        BY <1>6, <2>1, <2>3 DEF SessTypeOK, ConnTypeOK, ThreadTypeOK
      <3> QED BY <1>2, <1>3, <3>1 DEF Remotely!remoteVars, Cut
    <2> QED BY <2>2, <2>3
  <1> QED BY <1>1, <1>4, <1>5, <1>6, ThreadEnds

\* The process writes or ends, or does what nobody sees.
LEMMA ProcessSeen ==
  ASSUME ProcWriteStep \/ ProcReadStep \/ ProcExitStep
  PROVE  \/ \E s \in Outputs : Remotely!Write(s)
         \/ \E c \in ExitCodes : Remotely!End(c)
         \/ UNCHANGED Remotely!remoteVars
  <1>1. UNCHANGED <<shown, codeSeen, return_code, mode, net, abortSent>> /\ Caller' = Caller /\ Cut' = Cut
    <2>1. UNCHANGED clientVars
      BY DEF ProcWriteStep, ProcReadStep, ProcExitStep
    <2>2. UNCHANGED <<shown, codeSeen, return_code, mode, net, abortSent>>
      BY <2>1 DEF clientVars, userVars, stateVars, sigVars
    <2> QED BY <2>2 DEF Caller, Cut
  <1>2. CASE ProcWriteStep
    <2>1. PICK p \in Outputs : ProcWrite(p) /\ wrote' = [wrote EXCEPT ![p] = @ + 1]
      BY <1>2 DEF ProcWriteStep, Outputs
    <2>2. proc = "running" /\ UNCHANGED <<proc, pcode>>
      BY <2>1 DEF ProcWrite, threadVars
    <2>3. Remotely!Write(p)
      BY <1>1, <2>1, <2>2 DEF Remotely!Write, Cut
    <2> QED BY <2>3
  <1>3. CASE ProcReadStep
    <2>1. UNCHANGED <<proc, pcode, wrote>>
      BY <1>3 DEF ProcReadStep, ProcRead, threadVars, histVars
    <2> QED BY <1>1, <2>1 DEF Remotely!remoteVars, Cut
  <1>4. CASE ProcExitStep
    <2>1. PICK c \in ExitCodes : ProcExit(c) /\ wrote' = wrote
      BY <1>4 DEF ProcExitStep, histVars
    <2>2. Remotely!End(c)
      BY <1>1, <2>1 DEF ProcExit, Remotely!End, Cut
    <2> QED BY <2>2
  <1> QED BY <1>2, <1>3, <1>4

\* An installation that is over lets the client go on, give up or leave.
LEMMA RestartSeen ==
  ASSUME SessTypeOK, SessTypeOK', OnceInv, RunInv, NEW s, NEW v, Restart(s, v), wrote' = wrote,
         Installed(TRUE) \/ Reinstalled
  PROVE  Turns
  <1>1. state # "RUNNING"
    BY DEF Installed, Reinstalled, OnceInv, OpenInv
  <1>2. UNCHANGED <<proc, pcode>>
    BY <1>1 DEF RunInv, IdleInv, Restart
  <1>3. PlainStep /\ ~OutputRead
    BY DEF PlainStep, Installed, Reinstalled, OutputRead, Receive, Receiving
  <1> QED BY <1>2, <1>3, PlainTurns DEF OnceInv

\* Every step of the two programs together is one of RemoteRun, or is not seen.
LEMMA StepSeen ==
  ASSUME SessTypeOK, SessTypeOK', ServiceInv, OnceInv, RunInv, SessNext
  PROVE  Remotely!RemoteNext \/ UNCHANGED Remotely!remoteVars
  <1> USE DEF Outputs
  <1>1. CASE ServerNext \/ ServerLoopReady
    <2>1. UNCHANGED <<proc, pcode, shown, codeSeen, return_code, mode, net, abortSent, wrote>>
      BY <1>1 DEF ServerNext, ServerLoopReady, threadVars, stateVars, sigVars, userVars, histVars, clientVars
    <2> QED BY <2>1, UnseenStep DEF Unseen, Cut, Remotely!RemoteNext
  <1>2. CASE NetFail
    <2>1. UNCHANGED <<proc, pcode, shown, codeSeen, return_code, mode, abortSent, wrote>> /\ net' = "down"
      BY <1>2 DEF NetFail, connVars, threadVars, stateVars, sigVars, userVars, histVars
    <2> QED BY <2>1, UnseenStep DEF Unseen, Cut, Remotely!RemoteNext
  <1>3. CASE ThreadStep
    BY <1>3, ThreadSeen DEF Remotely!RemoteNext
  <1>4. CASE ProcWriteStep \/ ProcReadStep \/ ProcExitStep
    BY <1>4, ProcessSeen DEF Remotely!RemoteNext
  <1>5. ASSUME Turns PROVE Remotely!RemoteNext \/ UNCHANGED Remotely!remoteVars
    BY <1>5, TurnsStep DEF RunInv, Remotely!RemoteNext
  <1>6. ASSUME PlainStep \/ CtrlOpened \/ CtrlMessage, UNCHANGED Remote
        PROVE  Remotely!RemoteNext \/ UNCHANGED Remotely!remoteVars
    <2>1. CASE PlainStep /\ ~OutputRead
      <3>1. UNCHANGED <<proc, pcode, wrote>>
        BY <1>6 DEF Remote, connVars, threadVars, histVars
      <3> QED BY <1>5, <2>1, <3>1, PlainTurns DEF OnceInv
    <2>2. CASE OutputRead
      BY <1>6, <2>2, OutputShows DEF Remotely!RemoteNext
    <2>3. CASE OnReturnCode
      BY <1>6, <2>3, CodeTells DEF Remotely!RemoteNext
    <2>4. CASE CtrlOpened \/ (CtrlMessage /\ ~OnReturnCode)
      BY <1>6, <2>4, CtrlUnseen DEF Remotely!RemoteNext
    <2> QED BY <1>6, <2>1, <2>2, <2>3, <2>4
  <1>7. CASE CompletionStep \/ TimeoutStep \/ DeadStep \/ StdinStep \/ TimerStep \/ SignalStep \/ ExitStep
    <2>1. UNCHANGED Remote /\ (PlainStep \/ CtrlOpened \/ CtrlMessage)
      BY <1>7 DEF CompletionStep, TimeoutStep, DeadStep, StdinStep, TimerStep, SignalStep, ExitStep, Completion,
         PlainStep, CtrlMessage
    <2> QED BY <1>6, <2>1
  <1>8. CASE InstallStep
    <2>1. CASE (InstallOk /\ svc # "down") \/ InstallFails
      <3>1. PlainStep /\ UNCHANGED Remote
        BY <2>1 DEF InstallOk, InstallFails, Remote, PlainStep
      <3> QED BY <1>6, <3>1
    <2>2. CASE InstallOk /\ svc = "down"
      BY <1>5, <2>2, RestartSeen DEF InstallOk, histVars
    <2>3. CASE ReinstallOk \/ ReinstallFails
      BY <1>5, <2>3, RestartSeen DEF ReinstallOk, ReinstallFails, histVars
    <2> QED BY <1>8, <2>1, <2>2, <2>3 DEF InstallStep
  <1> QED BY <1>1, <1>2, <1>3, <1>4, <1>7, <1>8 DEF SessNext

\* One run of winexe is what RemoteRun promises to whoever calls it, whatever
\* goes wrong around the two programs.  The command starts once.  It ends by
\* itself, or because it was cut off: a line after the run command, a close or
\* the loss of the control pipe reach the thread only when the caller
\* interrupted it or cannot be reached (LineInv, which rests on AskInv, HeldInv
\* and IdleInv).  Output is counted as it goes from the process through the
\* pipe and the answer to the one read there is (FlowInv, OutReadInv), so that
\* no more is shown than was written, and everything before the code is told:
\* the code is written after the pipes were drained, and its answer is behind
\* theirs on the wire.  The code that is told is the one of the process
\* (CodeInv), and a caller that gives up before gets a code of the client.
THEOREM RunsRemotelyCorrect == SessSpec => RunsRemotely
  <1>1. SessInit => Remotely!RemoteInit
    <2> SUFFICES ASSUME SessInit PROVE Remotely!RemoteInit
      OBVIOUS
    <2>1. /\ proc = "none" /\ pcode = 0 /\ wrote = [s \in {"out", "err"} |-> 0] /\ shown = wrote
          /\ mode = "loop" /\ ~codeSeen /\ return_code = InitialCode /\ ~abortSent /\ net = "up"
      BY DEF SessInit, ClientInit, ThreadInit
    <2>2. Caller = "waits"
      BY <2>1 DEF Caller, Gone
    <2>3. (abortSent \/ net # "up" \/ mode \in Gone) = FALSE
      BY <2>1 DEF Gone
    <2> QED BY <2>1, <2>2, <2>3 DEF Remotely!RemoteInit
  <1>2. /\ SessTypeOK /\ SessTypeOK' /\ ServiceInv /\ ServiceInv' /\ OnceInv /\ TimedInv /\ StoreInv /\ RunInv
        /\ [SessNext]_sessVars
        => RunInv'
    BY RunStep
  <1>3. /\ StoreInv /\ SessTypeOK /\ SessTypeOK' /\ ServiceInv /\ OnceInv /\ TimedInv /\ [SessNext]_sessVars
        => StoreInv'
    BY StoreStep
  <1>4. OnceInv /\ SessTypeOK /\ SessTypeOK' /\ ServiceInv /\ [SessNext]_sessVars => OnceInv'
    BY OnceStep
  <1>5. TimedInv /\ SessTypeOK /\ [SessNext]_sessVars => TimedInv'
    BY TimedStep
  <1>6. SessInit => StoreInv
    BY InitStored DEF StoreInv
  <1>7. SessSpec => [](SessTypeOK /\ ServiceInv /\ OnceInv /\ RunInv)
    BY <1>2, <1>3, <1>4, <1>5, <1>6, InitOnce, InitTimed, InitRuns, SessInv, PTL DEF SessSpec
  <1>8. /\ SessTypeOK /\ SessTypeOK' /\ ServiceInv /\ OnceInv /\ RunInv /\ [SessNext]_sessVars
        => [Remotely!RemoteNext]_(Remotely!remoteVars)
    <2>1. CASE UNCHANGED sessVars
      <3>1. UNCHANGED <<proc, pcode, shown, codeSeen, return_code, mode, net, abortSent, wrote>>
        BY <2>1 DEF sessVars, connVars, threadVars, clientVars, stateVars, sigVars, userVars, histVars
      <3> QED BY <3>1, UnseenStep DEF Unseen, Cut, Remotely!RemoteNext
    <2> QED BY <2>1, StepSeen
  <1> QED BY <1>1, <1>7, <1>8, PTL DEF SessSpec, RunsRemotely, Remotely!RemoteSpec
=============================================================================
