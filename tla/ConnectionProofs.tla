-------------------------- MODULE ConnectionProofs --------------------------
(***************************************************************************)
(* Proofs about Connection, for every set of exit codes, versions, failing *)
(* calls and client writes: its types, the two inductive invariants and    *)
(* what follows from them.  ConnInv is about what waits in the pipes,      *)
(* OwnInv about what the thread owns and whom it acts for; OwnInv needs of *)
(* ConnInv only that hprintf never returns to itself.  The steps of the    *)
(* thread are taken one action at a time, those of the process and of the  *)
(* client together.                                                        *)
(***************************************************************************)
EXTENDS Connection, SequenceTheorems, TLAPS

\* The values of the messages a connection thread sends are naturals.
LEMMA MessageTypes ==
    /\ Error \in Message
    /\ NoMemory \in Message
    /\ Data \in Message
    /\ \A v \in Nat : /\ Msg("version", v) \in Message
                      /\ Msg("return_code", v) \in Message
                      /\ Msg("std_io_err", v) \in Message
  BY DEF Error, NoMemory, Data, Msg, Message

\* What the client writes is a sequence of items of a pipe.
LEMMA WritesAreItems ==
    /\ \A w \in Writes : w \in Seq(Line \union {Chunk})
    /\ <<Chunk>> \in Seq(Line \union {Chunk})
  <1>1. ASSUME NEW w \in Writes PROVE w \in Seq(Line \union {Chunk})
    <2>1. w \in Seq(Line)
      BY ConnectionAssumption DEF ConnectionAssumption
    <2>2. \A i \in 1..Len(w) : w[i] \in Line \union {Chunk}
      BY <2>1
    <2> QED BY <2>1, <2>2
  <1>2. <<Chunk>> \in Seq(Line \union {Chunk})
    OBVIOUS
  <1> QED BY <1>1, <1>2


----------------------------------------------------------------------------
\* The operations on a pipe keep its state well typed.

LEMMA WriteFileType ==
  ASSUME PipeTypeOK, NEW p \in Pipe, NEW m \in Message, WriteFile(p, m)
  PROVE  PipeTypeOK'
  <1>1. s2c' \in [Pipe -> Seq(Message)]
    BY DEF PipeTypeOK, WriteFile
  <1> QED BY <1>1 DEF PipeTypeOK, WriteFile

LEMMA ReadFileType ==
  ASSUME PipeTypeOK, NEW p \in Pipe, ReadFile(p)
  PROVE  PipeTypeOK'
  <1>1. c2s' \in [Pipe -> Seq(Line \union {Chunk})]
    BY DEF PipeTypeOK, ReadFile
  <1> QED BY <1>1 DEF PipeTypeOK, ReadFile

LEMMA DisconnectType ==
  ASSUME PipeTypeOK, NEW p \in Pipe, Disconnect(p)
  PROVE  PipeTypeOK'
  <1>1. inst' \in [Pipe -> InstState]
    BY DEF PipeTypeOK, Disconnect, InstState
  <1>2. /\ c2s' \in [Pipe -> Seq(Line \union {Chunk})]
        /\ s2c' \in [Pipe -> Seq(Message)]
    BY DEF PipeTypeOK, Disconnect
  <1>3. discarded' \in BOOLEAN
    BY Zenon DEF PipeTypeOK, Disconnect
  <1> QED BY <1>1, <1>2, <1>3 DEF PipeTypeOK

LEMMA CreateType ==
  ASSUME PipeTypeOK, NEW p \in Pipe, CreateNamedPipe(p)
  PROVE  PipeTypeOK'
  <1>1. inst' \in [Pipe -> InstState]
    BY DEF PipeTypeOK, CreateNamedPipe, InstState
  <1>2. /\ c2s' \in [Pipe -> Seq(Line \union {Chunk})]
        /\ s2c' \in [Pipe -> Seq(Message)]
    BY DEF PipeTypeOK, CreateNamedPipe
  <1> QED BY <1>1, <1>2 DEF PipeTypeOK, CreateNamedPipe

LEMMA ReplyType ==
  ASSUME PipeTypeOK, NEW m \in Message, NEW l, ReadAndReply(m, l), c2s["ctrl"] # <<>>
  PROVE  PipeTypeOK'
  <1>1. "ctrl" \in Pipe
    BY DEF Pipe
  <1>2. c2s' \in [Pipe -> Seq(Line \union {Chunk})]
    BY <1>1 DEF PipeTypeOK, ReadAndReply
  <1>3. s2c' \in [Pipe -> Seq(Message)]
    BY <1>1 DEF PipeTypeOK, ReadAndReply
  <1> QED BY <1>2, <1>3 DEF PipeTypeOK, ReadAndReply

LEMMA HprintfType ==
  ASSUME PipeTypeOK, NEW m \in Message, NEW l, hprintf(m, l)
  PROVE  PipeTypeOK'
  BY WriteFileType DEF hprintf, Pipe

LEMMA FailsType ==
  ASSUME ConnTypeOK, NEW call, NEW l \in PC, Fails(call, l)
  PROVE  ConnTypeOK'
  <1>1. PipeTypeOK'
    BY HprintfType, MessageTypes DEF Fails, ConnTypeOK
  <1>2. ThreadTypeOK'
    BY DEF ConnTypeOK, ThreadTypeOK, Fails, hprintf, context, PC
  <1> QED BY <1>1, <1>2 DEF ConnTypeOK

LEMMA GotoType ==
  ASSUME ThreadTypeOK, NEW l \in PC, Goto(l)
  PROVE  ThreadTypeOK'
  BY DEF ThreadTypeOK, Goto

LEMMA SamePipesType ==
  ASSUME PipeTypeOK, UNCHANGED pipeVars
  PROVE  PipeTypeOK'
  BY DEF PipeTypeOK, pipeVars
----------------------------------------------------------------------------
\* Every step of the thread keeps the types.
LEMMA ThreadType ==
  ASSUME ConnTypeOK, ThreadNext
  PROVE  ConnTypeOK'
  <1>1. CASE HprintfReturn
    <2>1. PipeTypeOK'
      BY <1>1, SamePipesType DEF ConnTypeOK, HprintfReturn
    <2>2. ThreadTypeOK'
      BY <1>1 DEF ConnTypeOK, ThreadTypeOK, PC, HprintfReturn, Goto
    <2> QED BY <2>1, <2>2 DEF ConnTypeOK
  <1>2. CASE Accept
    <2>1. PipeTypeOK'
      BY <1>2, SamePipesType DEF ConnTypeOK, Accept
    <2>2. ThreadTypeOK'
      BY <1>2 DEF ConnTypeOK, ThreadTypeOK, PC, Accept, Pipe
    <2> QED BY <2>1, <2>2 DEF ConnTypeOK
  <1>28. CASE AcceptUnserved
    <2>1. PipeTypeOK'
      BY <1>28, HprintfType, MessageTypes DEF ConnTypeOK, AcceptUnserved
    <2>2. ThreadTypeOK'
      BY <1>28 DEF ConnTypeOK, ThreadTypeOK, PC, AcceptUnserved, hprintf, Pipe
    <2> QED BY <2>1, <2>2 DEF ConnTypeOK
  <1>3. CASE AcceptFails
    <2>1. PipeTypeOK'
      BY <1>3, DisconnectType DEF ConnTypeOK, AcceptFails, Pipe
    <2>2. ThreadTypeOK'
      BY <1>3 DEF ConnTypeOK, ThreadTypeOK, PC, AcceptFails, Goto
    <2> QED BY <2>1, <2>2 DEF ConnTypeOK
  <1>4. CASE HgetsFails
    <2>1. PipeTypeOK'
      BY <1>4, SamePipesType, ReadFileType DEF ConnTypeOK, HgetsFails, Pipe
    <2>2. ThreadTypeOK'
      BY <1>4 DEF ConnTypeOK, ThreadTypeOK, PC, HgetsFails, Goto
    <2> QED BY <2>1, <2>2 DEF ConnTypeOK
  <1>5. CASE Unknown
    <2>1. PipeTypeOK'
      BY <1>5, ReplyType, MessageTypes DEF ConnTypeOK, Unknown, NextLine
    <2>2. ThreadTypeOK'
      BY <1>5 DEF ConnTypeOK, ThreadTypeOK, PC, Unknown, ReadAndReply, context
    <2> QED BY <2>1, <2>2 DEF ConnTypeOK
  <1>6. CASE cmd_get
    <2>1. Msg("version", ver) \in Message
      BY MessageTypes, ConnectionAssumption DEF ConnectionAssumption, ConnTypeOK, ThreadTypeOK
    <2>2. PipeTypeOK'
      BY <1>6, <2>1, ReplyType, ReadFileType, MessageTypes DEF ConnTypeOK, cmd_get, NextLine, Pipe
    <2>3. ThreadTypeOK'
      <3>1. (settings \subseteq {"system", "implevel", "runas"})'
        BY <1>6 DEF ConnTypeOK, ThreadTypeOK, cmd_get, ReadAndReply, Goto, context
      <3>2. (handles \subseteq Pipe \union {"token", "tmp"})'
        BY <1>6 DEF ConnTypeOK, ThreadTypeOK, cmd_get, ReadAndReply, Goto, context
      <3> QED
        BY <1>6, <3>1, <3>2 DEF ConnTypeOK, ThreadTypeOK, PC, Accounts, cmd_get, ReadAndReply, Goto, context
    <2> QED BY <2>2, <2>3 DEF ConnTypeOK
  <1>7. CASE cmd_set
    <2>1. PipeTypeOK'
      BY <1>7, ReplyType, ReadFileType, MessageTypes DEF ConnTypeOK, cmd_set, NextLine, Pipe
    <2>2. ThreadTypeOK'
      <3>1. (settings \subseteq {"system", "implevel", "runas"})'
        BY <1>7 DEF ConnTypeOK, ThreadTypeOK, cmd_set, ReadAndReply, Goto, context
      <3>2. (handles \subseteq Pipe \union {"token", "tmp"})'
        BY <1>7 DEF ConnTypeOK, ThreadTypeOK, cmd_set, ReadAndReply, Goto, context
      <3> QED
        BY <1>7, <3>1, <3>2 DEF ConnTypeOK, ThreadTypeOK, PC, Accounts, cmd_set, ReadAndReply, Goto, context
    <2> QED BY <2>1, <2>2 DEF ConnTypeOK
  <1>8. CASE cmd_run
    <2>1. PipeTypeOK'
      BY <1>8, ReadFileType DEF ConnTypeOK, cmd_run, Pipe
    <2>2. ThreadTypeOK'
      BY <1>8 DEF ConnTypeOK, ThreadTypeOK, PC, cmd_run, Goto
    <2> QED BY <2>1, <2>2 DEF ConnTypeOK
  <1>9. CASE TokenLogon
    <2>1. PipeTypeOK'
      BY <1>9, SamePipesType, HprintfType, MessageTypes DEF ConnTypeOK, TokenLogon, Fails
    <2>2. ThreadTypeOK'
      <3>1. (settings \subseteq {"system", "implevel", "runas"})'
        BY <1>9 DEF ConnTypeOK, ThreadTypeOK, TokenLogon, Fails, hprintf, context
      <3>2. (handles \subseteq Pipe \union {"token", "tmp"})'
        BY <1>9 DEF ConnTypeOK, ThreadTypeOK, TokenLogon, Fails, hprintf, context
      <3> QED
        BY <1>9, <3>1, <3>2 DEF ConnTypeOK, ThreadTypeOK, PC, Accounts, TokenLogon, Fails, hprintf, context
    <2> QED BY <2>1, <2>2 DEF ConnTypeOK
  <1>10. CASE TokenOpenProcess
    <2>1. PipeTypeOK'
      BY <1>10, SamePipesType, HprintfType, MessageTypes DEF ConnTypeOK, TokenOpenProcess, Fails
    <2>2. ThreadTypeOK'
      <3>1. (settings \subseteq {"system", "implevel", "runas"})'
        BY <1>10 DEF ConnTypeOK, ThreadTypeOK, TokenOpenProcess, Fails, hprintf, context
      <3>2. (handles \subseteq Pipe \union {"token", "tmp"})'
        BY <1>10 DEF ConnTypeOK, ThreadTypeOK, TokenOpenProcess, Fails, hprintf, context
      <3> QED
        BY <1>10, <3>1, <3>2 DEF ConnTypeOK, ThreadTypeOK, PC, Accounts, TokenOpenProcess, Fails, hprintf, context
    <2> QED BY <2>1, <2>2 DEF ConnTypeOK
  <1>11. CASE TokenImpersonate
    <2>1. PipeTypeOK'
      BY <1>11, SamePipesType, HprintfType, MessageTypes DEF ConnTypeOK, TokenImpersonate, Fails
    <2>2. ThreadTypeOK'
      <3>1. (settings \subseteq {"system", "implevel", "runas"})'
        BY <1>11 DEF ConnTypeOK, ThreadTypeOK, TokenImpersonate, Fails, hprintf, context
      <3>2. (handles \subseteq Pipe \union {"token", "tmp"})'
        BY <1>11 DEF ConnTypeOK, ThreadTypeOK, TokenImpersonate, Fails, hprintf, context
      <3>3. imp' \in BOOLEAN
        BY <1>11 DEF ConnTypeOK, ThreadTypeOK, TokenImpersonate, Fails, hprintf, context
      <3> QED
        BY <1>11, <3>1, <3>2, <3>3 DEF ConnTypeOK, ThreadTypeOK, PC, Accounts, TokenImpersonate, Fails, hprintf, context
    <2> QED BY <2>1, <2>2 DEF ConnTypeOK
  <1>12. CASE TokenDuplicate
    <2>1. PipeTypeOK'
      BY <1>12, SamePipesType, HprintfType, MessageTypes DEF ConnTypeOK, TokenDuplicate, Fails
    <2>2. ThreadTypeOK'
      <3>1. (settings \subseteq {"system", "implevel", "runas"})'
        BY <1>12 DEF ConnTypeOK, ThreadTypeOK, TokenDuplicate, Fails, hprintf, context
      <3>2. (handles \subseteq Pipe \union {"token", "tmp"})'
        BY <1>12 DEF ConnTypeOK, ThreadTypeOK, TokenDuplicate, Fails, hprintf, context
      <3> QED
        BY <1>12, <3>1, <3>2 DEF ConnTypeOK, ThreadTypeOK, PC, Accounts, TokenDuplicate, Fails, hprintf, context
    <2> QED BY <2>1, <2>2 DEF ConnTypeOK
  <1>13. CASE TokenCloseTmp
    <2>1. PipeTypeOK'
      BY <1>13, SamePipesType DEF ConnTypeOK, TokenCloseTmp
    <2>2. ThreadTypeOK'
      BY <1>13 DEF ConnTypeOK, ThreadTypeOK, PC, TokenCloseTmp
    <2> QED BY <2>1, <2>2 DEF ConnTypeOK
  <1>14. CASE TokenRevert
    <2>1. PipeTypeOK'
      BY <1>14, SamePipesType, HprintfType, MessageTypes DEF ConnTypeOK, TokenRevert, Fails
    <2>2. ThreadTypeOK'
      <3>1. (settings \subseteq {"system", "implevel", "runas"})'
        BY <1>14 DEF ConnTypeOK, ThreadTypeOK, TokenRevert, Fails, hprintf, context
      <3>2. (handles \subseteq Pipe \union {"token", "tmp"})'
        BY <1>14 DEF ConnTypeOK, ThreadTypeOK, TokenRevert, Fails, hprintf, context
      <3>3. imp' \in BOOLEAN
        BY <1>14 DEF ConnTypeOK, ThreadTypeOK, TokenRevert, Fails, hprintf, context
      <3> QED
        BY <1>14, <3>1, <3>2, <3>3 DEF ConnTypeOK, ThreadTypeOK, PC, Accounts, TokenRevert, Fails, hprintf, context
    <2> QED BY <2>1, <2>2 DEF ConnTypeOK
  <1>15. CASE MakePipes
    <2>1. ASSUME NEW at, NEW p \in Pipe, NEW next \in PC, NEW l \in PC, MakePipe(at, p, next, l)
          PROVE  ConnTypeOK'
      <3>1. CASE Fails("CreateNamedPipe", l)
        BY <3>1, FailsType
      <3>2. CASE ~Fails("CreateNamedPipe", l)
        <4>1. PipeTypeOK'
          BY <2>1, <3>2, CreateType DEF ConnTypeOK, MakePipe
        <4>2. ThreadTypeOK'
          BY <2>1, <3>2 DEF ConnTypeOK, ThreadTypeOK, MakePipe
        <4> QED BY <4>1, <4>2 DEF ConnTypeOK
      <3> QED BY <3>1, <3>2
    <2> QED BY <1>15, <2>1, SMTT(30) DEF MakePipes, Pipe, PC
  <1>16. CASE SendStdIoErr
    <2>1. Msg("std_io_err", 0) \in Message
      BY MessageTypes
    <2>2. PipeTypeOK'
      BY <1>16, <2>1, HprintfType DEF ConnTypeOK, SendStdIoErr
    <2>3. ThreadTypeOK'
      BY <1>16 DEF ConnTypeOK, ThreadTypeOK, PC, SendStdIoErr, hprintf, context
    <2> QED BY <2>2, <2>3 DEF ConnTypeOK
  <1>17. CASE ConnectPipes
    <2>1. ASSUME NEW at, NEW p \in Pipe, NEW next \in PC, NEW l \in PC, ConnectPipe(at, p, next, l)
          PROVE  ConnTypeOK'
      <3>1. CASE Fails("ConnectNamedPipe", l)
        BY <3>1, FailsType
      <3>2. CASE ~Fails("ConnectNamedPipe", l)
        <4>1. PipeTypeOK'
          BY <2>1, <3>2, SamePipesType, HprintfType, MessageTypes DEF ConnTypeOK, ConnectPipe
        <4>2. ThreadTypeOK'
          <5>1. (settings \subseteq {"system", "implevel", "runas"})'
            BY <2>1, <3>2 DEF ConnTypeOK, ThreadTypeOK, ConnectPipe, Goto, hprintf, context
          <5>2. (handles \subseteq Pipe \union {"token", "tmp"})'
            BY <2>1, <3>2 DEF ConnTypeOK, ThreadTypeOK, ConnectPipe, Goto, hprintf, context
          <5> QED
            BY <2>1, <3>2, <5>1, <5>2 DEF ConnTypeOK, ThreadTypeOK, PC, Accounts, ConnectPipe, Goto, hprintf, context
        <4> QED BY <4>1, <4>2 DEF ConnTypeOK
      <3> QED BY <3>1, <3>2
    <2> QED BY <1>17, <2>1, SMTT(30) DEF ConnectPipes, Pipe, PC
  <1>18. CASE Spawn
    <2>1. PipeTypeOK'
      BY <1>18, SamePipesType, HprintfType, MessageTypes DEF ConnTypeOK, Spawn, Fails
    <2>2. ThreadTypeOK'
      <3>1. (settings \subseteq {"system", "implevel", "runas"})'
        BY <1>18 DEF ConnTypeOK, ThreadTypeOK, Spawn, Fails, hprintf, context
      <3>2. (handles \subseteq Pipe \union {"token", "tmp"})'
        BY <1>18 DEF ConnTypeOK, ThreadTypeOK, Spawn, Fails, hprintf, context
      <3> QED
        BY <1>18, <3>1, <3>2 DEF ConnTypeOK, ThreadTypeOK, PC, Accounts, Spawn, Fails, hprintf, context
    <2> QED BY <2>1, <2>2 DEF ConnTypeOK
  <1>19. CASE Watch
    <2>1. PipeTypeOK'
      BY <1>19, SamePipesType, ReadFileType DEF ConnTypeOK, Watch, Pipe
    <2>2. ThreadTypeOK'
      BY <1>19 DEF ConnTypeOK, ThreadTypeOK, PC, Watch
    <2> QED BY <2>1, <2>2 DEF ConnTypeOK
  <1>20. CASE WaitControl
    <2>1. PipeTypeOK'
      BY <1>20, SamePipesType DEF ConnTypeOK, WaitControl
    <2>2. ThreadTypeOK'
      BY <1>20 DEF ConnTypeOK, ThreadTypeOK, PC, WaitControl, Aborted
    <2> QED BY <2>1, <2>2 DEF ConnTypeOK
  <1>21. CASE WaitProcess
    <2>1. PipeTypeOK'
      BY <1>21, SamePipesType DEF ConnTypeOK, WaitProcess
    <2>2. ThreadTypeOK'
      BY <1>21 DEF ConnTypeOK, ThreadTypeOK, PC, WaitProcess
    <2> QED BY <2>1, <2>2 DEF ConnTypeOK
  <1>22. CASE FlushOut
    <2>1. PipeTypeOK'
      BY <1>22, SamePipesType DEF ConnTypeOK, FlushOut
    <2>2. ThreadTypeOK'
      BY <1>22 DEF ConnTypeOK, ThreadTypeOK, PC, FlushOut, Goto
    <2> QED BY <2>1, <2>2 DEF ConnTypeOK
  <1>23. CASE FlushErr
    <2>1. PipeTypeOK'
      BY <1>23, SamePipesType DEF ConnTypeOK, FlushErr
    <2>2. ThreadTypeOK'
      BY <1>23 DEF ConnTypeOK, ThreadTypeOK, PC, FlushErr, Goto
    <2> QED BY <2>1, <2>2 DEF ConnTypeOK
  <1>24. CASE SendReturnCode
    <2>1. Msg("return_code", ec) \in Message
      BY MessageTypes DEF ConnTypeOK, ThreadTypeOK
    <2>2. PipeTypeOK'
      BY <1>24, <2>1, HprintfType DEF ConnTypeOK, SendReturnCode
    <2>3. ThreadTypeOK'
      BY <1>24 DEF ConnTypeOK, ThreadTypeOK, PC, SendReturnCode, hprintf, context
    <2> QED BY <2>2, <2>3 DEF ConnTypeOK
  <1>25. CASE Release
    <2>1. ASSUME NEW at, NEW p \in Pipe, NEW next \in PC,
                 DisconnectPipe(at, p, next) \/ ClosePipe(at, p, next)
          PROVE  ConnTypeOK'
      <3>1. PipeTypeOK'
        BY <2>1, DisconnectType DEF ConnTypeOK, DisconnectPipe, ClosePipe
      <3>2. ThreadTypeOK'
        BY <2>1 DEF ConnTypeOK, ThreadTypeOK, DisconnectPipe, ClosePipe, Goto
      <3> QED BY <3>1, <3>2 DEF ConnTypeOK
    <2> QED BY <1>25, <2>1 DEF Release, Pipe, PC
  <1>26. CASE CloseToken
    <2>1. PipeTypeOK'
      BY <1>26, SamePipesType DEF ConnTypeOK, CloseToken
    <2>2. ThreadTypeOK'
      BY <1>26 DEF ConnTypeOK, ThreadTypeOK, PC, CloseToken, Accounts
    <2> QED BY <2>1, <2>2 DEF ConnTypeOK
  <1>27. CASE Finish
    <2>1. PipeTypeOK'
      BY <1>27, DisconnectType DEF ConnTypeOK, Finish, ClosePipe, Pipe
    <2>2. ThreadTypeOK'
      BY <1>27 DEF ConnTypeOK, ThreadTypeOK, PC, Finish, ClosePipe
    <2> QED BY <2>1, <2>2 DEF ConnTypeOK
  <1> QED
    BY <1>1, <1>2, <1>3, <1>4, <1>5, <1>6, <1>7, <1>8, <1>9, <1>10, <1>11, <1>12, <1>13, <1>14, <1>15, <1>16, <1>17, <1>18, <1>19, <1>20, <1>21, <1>22, <1>23, <1>24, <1>25, <1>26, <1>27, <1>28 DEF ThreadNext

\* The process and the client leave the thread alone, but for proc and pcode.
LEMMA ProcType ==
  ASSUME ConnTypeOK, ProcNext
  PROVE  ConnTypeOK'
  <1>1. ASSUME NEW p \in {"out", "err"}, ProcWrite(p) PROVE ConnTypeOK'
    <2>1. PipeTypeOK'
      BY <1>1, WriteFileType, MessageTypes DEF ConnTypeOK, ProcWrite, Pipe
    <2>2. ThreadTypeOK'
      BY <1>1 DEF ConnTypeOK, ThreadTypeOK, ProcWrite, threadVars
    <2> QED BY <2>1, <2>2 DEF ConnTypeOK
  <1>2. CASE ProcRead
    <2>1. PipeTypeOK'
      BY <1>2, ReadFileType DEF ConnTypeOK, ProcRead, Pipe
    <2>2. ThreadTypeOK'
      BY <1>2 DEF ConnTypeOK, ThreadTypeOK, ProcRead, threadVars
    <2> QED BY <2>1, <2>2 DEF ConnTypeOK
  <1>3. ASSUME NEW code \in ExitCodes, ProcExit(code) PROVE ConnTypeOK'
    <2>1. PipeTypeOK'
      BY <1>3, SamePipesType DEF ConnTypeOK, ProcExit
    <2>2. ThreadTypeOK'
      BY <1>3, ConnectionAssumption
      DEF ConnectionAssumption, ConnTypeOK, ThreadTypeOK, ProcExit
    <2> QED BY <2>1, <2>2 DEF ConnTypeOK
  <1> QED BY <1>1, <1>2, <1>3 DEF ProcNext

LEMMA ClientType ==
  ASSUME ConnTypeOK, AnyClient
  PROVE  ConnTypeOK'
  <1>1. ThreadTypeOK'
    BY DEF AnyClient, ConnTypeOK, ThreadTypeOK, threadVars
  <1>2. ASSUME NEW p \in Pipe, ClientOpen(p) PROVE PipeTypeOK'
    <2>1. inst' \in [Pipe -> InstState]
      BY <1>2 DEF ConnTypeOK, PipeTypeOK, ClientOpen, InstState
    <2> QED BY <1>2, <2>1 DEF ConnTypeOK, PipeTypeOK, ClientOpen
  <1>3. ASSUME NEW p \in Pipe, ClientRead(p) PROVE PipeTypeOK'
    <2>1. s2c' \in [Pipe -> Seq(Message)]
      BY <1>3 DEF ConnTypeOK, PipeTypeOK, ClientRead
    <2> QED BY <1>3, <2>1 DEF ConnTypeOK, PipeTypeOK, ClientRead
  <1>4. ASSUME NEW p \in Pipe, ClientClose(p) PROVE PipeTypeOK'
    <2>1. inst' \in [Pipe -> InstState]
      BY <1>4 DEF ConnTypeOK, PipeTypeOK, ClientClose, InstState
    <2>2. s2c' \in [Pipe -> Seq(Message)]
      BY <1>4 DEF ConnTypeOK, PipeTypeOK, ClientClose
    <2> QED BY <1>4, <2>1, <2>2 DEF ConnTypeOK, PipeTypeOK, ClientClose
  <1>5. ASSUME NEW p \in Pipe, NEW w \in Seq(Line \union {Chunk}), ClientWrite(p, w)
        PROVE  PipeTypeOK'
    <2>1. c2s' \in [Pipe -> Seq(Line \union {Chunk})]
      BY <1>5 DEF ConnTypeOK, PipeTypeOK, ClientWrite
    <2> QED BY <1>5, <2>1 DEF ConnTypeOK, PipeTypeOK, ClientWrite
  <1>6. PipeTypeOK'
    BY <1>2, <1>3, <1>4, <1>5, WritesAreItems DEF AnyClient, Pipe
  <1> QED BY <1>1, <1>6 DEF ConnTypeOK

\* The initial state is well typed and nothing waits in the pipes.
LEMMA InitType == ConnInit => ConnTypeOK
  <1> SUFFICES ASSUME ConnInit PROVE ConnTypeOK
    OBVIOUS
  <1>1. PipeTypeOK
    <2>1. inst \in [Pipe -> InstState]
      BY DEF ConnInit, NewPipes, InstState
    <2>2. c2s \in [Pipe -> Seq(Line \union {Chunk})]
      BY DEF ConnInit, ThreadInit
    <2>3. s2c \in [Pipe -> Seq(Message)]
      BY DEF ConnInit, ThreadInit
    <2>4. discarded \in BOOLEAN
      BY Zenon DEF ConnInit, ThreadInit
    <2> QED BY <2>1, <2>2, <2>3, <2>4 DEF PipeTypeOK
  <1>2. ThreadTypeOK
    BY DEF ConnInit, ThreadInit, ThreadTypeOK, PC, Accounts
  <1> QED BY <1>1, <1>2 DEF ConnTypeOK

\* The variables of the pipes, the thread and the process keep their types,
\* whatever the client writes and whichever call fails (ConnTypeOK).
THEOREM ConnTypeCorrect == ConnSpec => []ConnTypeOK
  <1>1. ConnTypeOK /\ [ConnNext]_connVars => ConnTypeOK'
    <2> SUFFICES ASSUME ConnTypeOK, [ConnNext]_connVars PROVE ConnTypeOK'
      OBVIOUS
    <2>1. CASE ThreadNext
      BY <2>1, ThreadType
    <2>2. CASE ProcNext
      BY <2>2, ProcType
    <2>3. CASE ClientNext
      BY <2>3, ClientType DEF ClientNext
    <2>4. CASE UNCHANGED connVars
      BY <2>4 DEF ConnTypeOK, PipeTypeOK, ThreadTypeOK, connVars, pipeVars, threadVars
    <2> QED BY <2>1, <2>2, <2>3, <2>4 DEF ConnNext
  <1> QED BY InitType, <1>1, PTL DEF ConnSpec

----------------------------------------------------------------------------
\* What waits in the pipes.

\* Every step of the thread preserves ConnInv.
LEMMA ThreadInv ==
  ASSUME ConnTypeOK, ConnInv, ThreadNext
  PROVE  ConnInv'
  <1> USE DEF ConnTypeOK, PipeTypeOK, ConnInv, Loc, ReleaseLabels, BeforeSpawn, Pipe
  <1>1. CASE HprintfReturn
    BY <1>1 DEF HprintfReturn, Goto, pipeVars, Flushed
  <1>2. CASE Accept
    BY <1>2 DEF Accept, pipeVars
  <1>28. CASE AcceptUnserved
    BY <1>28 DEF AcceptUnserved, hprintf, WriteFile, NoMemory, Msg
  <1>3. CASE AcceptFails
    BY <1>3 DEF AcceptFails, Disconnect, Flushed, Goto
  <1>4. CASE HgetsFails
    BY <1>4 DEF HgetsFails, NextLine, ReadFile, Goto, pipeVars
  <1>5. CASE Unknown
    BY <1>5, SMTT(30) DEF Unknown, NextLine, ReadAndReply, context, Error, Msg
  <1>6. CASE cmd_get
    BY <1>6 DEF cmd_get, NextLine, ReadAndReply, ReadFile, Goto, context, Error, Msg
  <1>7. CASE cmd_set
    BY <1>7 DEF cmd_set, NextLine, ReadAndReply, ReadFile, Goto, context, Error, Msg
  <1>8. CASE cmd_run
    BY <1>8 DEF cmd_run, NextLine, ReadFile, Goto
  <1>9. CASE TokenLogon
    BY <1>9 DEF TokenLogon, Fails, hprintf, WriteFile, context, Error, Msg, pipeVars
  <1>10. CASE TokenOpenProcess
    BY <1>10 DEF TokenOpenProcess, Fails, hprintf, WriteFile, context, Error, Msg, pipeVars
  <1>11. CASE TokenImpersonate
    BY <1>11 DEF TokenImpersonate, Fails, hprintf, WriteFile, context, Error, Msg, pipeVars
  <1>12. CASE TokenDuplicate
    BY <1>12 DEF TokenDuplicate, Fails, hprintf, WriteFile, context, Error, Msg, pipeVars
  <1>13. CASE TokenCloseTmp
    BY <1>13 DEF TokenCloseTmp, pipeVars
  <1>14. CASE TokenRevert
    BY <1>14 DEF TokenRevert, Fails, hprintf, WriteFile, context, Error, Msg, pipeVars
  <1>15. CASE MakePipes
    BY <1>15 DEF MakePipes, MakePipe, CreateNamedPipe, Fails, hprintf, WriteFile, context, Error, Msg, pipeVars
  <1>16. CASE SendStdIoErr
    BY <1>16 DEF SendStdIoErr, hprintf, WriteFile, context, Msg
  <1>17. CASE ConnectPipes
    BY <1>17 DEF ConnectPipes, ConnectPipe, Goto, Fails, hprintf, WriteFile, context, Error, Msg, pipeVars
  <1>18. CASE Spawn
    BY <1>18 DEF Spawn, Fails, hprintf, WriteFile, context, Error, Msg, pipeVars
  <1>19. CASE Watch
    BY <1>19 DEF Watch, ReadFile, pipeVars
  <1>20. CASE WaitControl
    BY <1>20 DEF WaitControl, pipeVars
  <1>21. CASE WaitProcess
    BY <1>21 DEF WaitProcess, pipeVars
  <1>22. CASE FlushOut
    BY <1>22 DEF FlushOut, Flushed, Goto, pipeVars
  <1>23. CASE FlushErr
    BY <1>23 DEF FlushErr, Flushed, Goto, pipeVars
  <1>24. CASE SendReturnCode
    BY <1>24 DEF SendReturnCode, hprintf, WriteFile, context, Msg
  <1>25. CASE Release
    BY <1>25 DEF Release, DisconnectPipe, ClosePipe, Disconnect, Flushed, Goto
  <1>26. CASE CloseToken
    BY <1>26 DEF CloseToken, pipeVars
  <1>27. CASE Finish
    BY <1>27 DEF Finish, ClosePipe, Disconnect, Flushed
  <1> QED
    BY <1>1, <1>2, <1>3, <1>4, <1>5, <1>6, <1>7, <1>8, <1>9, <1>10, <1>11, <1>12, <1>13, <1>14,
       <1>15, <1>16, <1>17, <1>18, <1>19, <1>20, <1>21, <1>22, <1>23, <1>24, <1>25, <1>26, <1>27, <1>28
    DEF ThreadNext

\* The process writes to the output pipes only, and only while it runs.
LEMMA ProcInv ==
  ASSUME ConnTypeOK, ConnInv, ProcNext
  PROVE  ConnInv'
  <1> USE DEF ConnTypeOK, PipeTypeOK, ConnInv, Loc, ReleaseLabels, BeforeSpawn, Pipe
  <1>1. ASSUME NEW p \in {"out", "err"}, ProcWrite(p) PROVE ConnInv'
    BY <1>1 DEF ProcWrite, WriteFile, threadVars
  <1>2. CASE ProcRead
    BY <1>2 DEF ProcRead, ReadFile, threadVars
  <1>3. ASSUME NEW code \in ExitCodes, ProcExit(code) PROVE ConnInv'
    BY <1>3 DEF ProcExit, pipeVars
  <1> QED BY <1>1, <1>2, <1>3 DEF ProcNext

\* The client only takes messages out of the pipes.
LEMMA ClientInv ==
  ASSUME ConnTypeOK, ConnInv, AnyClient
  PROVE  ConnInv'
  <1> USE DEF ConnTypeOK, PipeTypeOK, ConnInv, Loc, ReleaseLabels, BeforeSpawn
  <1>1. UNCHANGED threadVars
    BY DEF AnyClient
  <1>2. ASSUME NEW p \in Pipe, ClientOpen(p) PROVE ConnInv'
    BY <1>1, <1>2 DEF ClientOpen, threadVars
  <1>3. ASSUME NEW p \in Pipe, ClientRead(p) PROVE ConnInv'
    BY <1>1, <1>3 DEF ClientRead, threadVars, Pipe
  <1>4. ASSUME NEW p \in Pipe, ClientClose(p) PROVE ConnInv'
    BY <1>1, <1>4 DEF ClientClose, threadVars, Pipe
  <1>5. ASSUME NEW p \in Pipe, NEW w, ClientWrite(p, w) PROVE ConnInv'
    BY <1>1, <1>5 DEF ClientWrite, threadVars
  <1> QED BY <1>2, <1>3, <1>4, <1>5 DEF AnyClient, Pipe

LEMMA InitInv == ConnInit => ConnInv
  BY DEF ConnInit, ThreadInit, NewPipes, ConnInv, Loc, ReleaseLabels, BeforeSpawn, Pipe

\* Messages wait on the control pipe only inside hprintf, the process writes
\* only while it is watched, and the labels of the release are reached with
\* both output pipes read empty (ConnInv).
THEOREM ConnInvCorrect == ConnSpec => []ConnInv
  <1>1. ConnTypeOK /\ ConnInv /\ [ConnNext]_connVars => ConnInv'
    <2> SUFFICES ASSUME ConnTypeOK, ConnInv, [ConnNext]_connVars PROVE ConnInv'
      OBVIOUS
    <2>1. CASE ConnNext
      BY <2>1, ThreadInv, ProcInv, ClientInv DEF ConnNext, ClientNext
    <2>2. CASE UNCHANGED connVars
      BY <2>2 DEF ConnInv, Loc, ReleaseLabels, BeforeSpawn, connVars, pipeVars, threadVars
    <2> QED BY <2>1, <2>2
  <1> QED BY InitInv, ConnTypeCorrect, <1>1, PTL DEF ConnSpec

\* One read of the control pipe returns at most one message, for every client
\* and whichever Windows calls fail.
THEOREM OneMessageCorrect == ConnSpec => []OneMessagePerRead
  <1>1. ConnInv => OneMessagePerRead
    BY DEF ConnInv, OneMessagePerRead
  <1> QED BY ConnInvCorrect, <1>1, PTL

\* No message and no output is thrown away under a client that is connected.
THEOREM NothingDiscardedCorrect == ConnSpec => []NothingDiscarded
  <1>1. ConnInv => NothingDiscarded
    BY DEF ConnInv, NothingDiscarded
  <1> QED BY ConnInvCorrect, <1>1, PTL

\* An exit code on the control pipe comes after the end of the process and
\* after the client has read all of its output.
THEOREM CodeAfterOutputCorrect == ConnSpec => []CodeAfterOutput
  <1>1. ConnInv => CodeAfterOutput
    BY DEF ConnInv, CodeAfterOutput, Flushed, Loc, ReleaseLabels
  <1> QED BY ConnInvCorrect, <1>1, PTL

----------------------------------------------------------------------------
\* What the thread owns.

\* Every step of the thread preserves OwnInv.
LEMMA ThreadOwn ==
  ASSUME ThreadTypeOK, ConnInv, OwnInv, ThreadNext
  PROVE  OwnInv'
  <1> cont # "flush"
    BY DEF ConnInv
  <1> USE DEF OwnInv, Loc, BeforeSpawn, HoldsIn, HoldsOut, HoldsErr, AccountAsked
  <1>1. CASE HprintfReturn
    BY <1>1 DEF HprintfReturn, Goto
  <1>2. CASE Accept
    BY <1>2 DEF Accept
  <1>28. CASE AcceptUnserved
    BY <1>28 DEF AcceptUnserved, hprintf
  <1>3. CASE AcceptFails
    BY <1>3 DEF AcceptFails, Goto
  <1>4. CASE HgetsFails
    BY <1>4 DEF HgetsFails, NextLine, Goto
  <1>5. CASE Unknown
    BY <1>5 DEF Unknown, NextLine, ReadAndReply, context
  <1>6. CASE cmd_get
    BY <1>6 DEF cmd_get, NextLine, ReadAndReply, Goto, context
  <1>7. CASE cmd_set
    BY <1>7 DEF cmd_set, NextLine, ReadAndReply, Goto, context
  <1>8. CASE cmd_run
    BY <1>8 DEF cmd_run, NextLine, Goto
  <1>9. CASE TokenLogon
    BY <1>9 DEF TokenLogon, Fails, hprintf, context
  <1>10. CASE TokenOpenProcess
    BY <1>10 DEF TokenOpenProcess, Fails, hprintf, context
  <1>11. CASE TokenImpersonate
    BY <1>11 DEF TokenImpersonate, Fails, hprintf, context
  <1>12. CASE TokenDuplicate
    BY <1>12 DEF TokenDuplicate, Fails, hprintf, context
  <1>13. CASE TokenCloseTmp
    BY <1>13 DEF TokenCloseTmp
  <1>14. CASE TokenRevert
    BY <1>14 DEF TokenRevert, Fails, hprintf, context
  <1>15. CASE MakePipes
    BY <1>15 DEF MakePipes, MakePipe, Fails, hprintf, context
  <1>16. CASE SendStdIoErr
    BY <1>16 DEF SendStdIoErr, hprintf, context
  <1>17. CASE ConnectPipes
    BY <1>17 DEF ConnectPipes, ConnectPipe, Goto, Fails, hprintf, context
  <1>18. CASE Spawn
    BY <1>18 DEF Spawn, Fails, hprintf, context
  <1>19. CASE Watch
    BY <1>19 DEF Watch
  <1>20. CASE WaitControl
    BY <1>20 DEF WaitControl
  <1>21. CASE WaitProcess
    BY <1>21 DEF WaitProcess
  <1>22. CASE FlushOut
    BY <1>22 DEF FlushOut, Goto
  <1>23. CASE FlushErr
    BY <1>23 DEF FlushErr, Goto
  <1>24. CASE SendReturnCode
    BY <1>24 DEF SendReturnCode, hprintf, context
  <1>25. CASE Release
    BY <1>25 DEF Release, DisconnectPipe, ClosePipe, Goto
  <1>26. CASE CloseToken
    BY <1>26 DEF CloseToken
  <1>27. CASE Finish
    BY <1>27 DEF Finish, ClosePipe
  <1> QED
    BY <1>1, <1>2, <1>3, <1>4, <1>5, <1>6, <1>7, <1>8, <1>9, <1>10, <1>11, <1>12, <1>13, <1>14,
       <1>15, <1>16, <1>17, <1>18, <1>19, <1>20, <1>21, <1>22, <1>23, <1>24, <1>25, <1>26, <1>27, <1>28
    DEF ThreadNext

\* The process and the client change nothing the thread owns; the exit of the
\* process only turns "running" into "exited".
LEMMA OthersOwn ==
  ASSUME OwnInv, ProcNext \/ AnyClient
  PROVE  OwnInv'
  <1> USE DEF OwnInv, Loc, BeforeSpawn, HoldsIn, HoldsOut, HoldsErr, AccountAsked
  <1>1. CASE UNCHANGED threadVars
    BY <1>1 DEF threadVars
  <1>2. ASSUME NEW code \in ExitCodes, ProcExit(code) PROVE OwnInv'
    BY <1>2 DEF ProcExit
  <1> QED BY <1>1, <1>2 DEF ProcNext, ProcWrite, ProcRead, AnyClient

LEMMA InitOwn == ConnInit => OwnInv
  BY DEF ConnInit, ThreadInit, OwnInv, Loc, BeforeSpawn

\* What the thread owns, and whom it acts for, at each label (OwnInv).
THEOREM OwnInvCorrect == ConnSpec => []OwnInv
  <1>1. ConnTypeOK /\ ConnInv /\ OwnInv /\ [ConnNext]_connVars => OwnInv'
    <2> SUFFICES ASSUME ConnTypeOK, ConnInv, OwnInv, [ConnNext]_connVars PROVE OwnInv'
      OBVIOUS
    <2>1. CASE ConnNext
      BY <2>1, ThreadOwn, OthersOwn DEF ConnNext, ClientNext, ConnTypeOK
    <2>2. CASE UNCHANGED connVars
      BY <2>2 DEF OwnInv, Loc, AccountAsked, connVars, threadVars
    <2> QED BY <2>1, <2>2
  <1> QED BY InitOwn, ConnTypeCorrect, ConnInvCorrect, <1>1, PTL DEF ConnSpec

\* A thread that has returned holds no handle, on every path through the
\* labels of cmd_run, but for c->token when RevertToSelf fails, and for the
\* control pipe when there was no memory for the command.
THEOREM HandlesCorrect == ConnSpec => []HandlesReleased
  <1>1. ConnTypeOK /\ OwnInv => HandlesReleased
    BY DEF ConnTypeOK, ThreadTypeOK, OwnInv, HandlesReleased, Loc, HoldsIn,
           HoldsOut, HoldsErr, Pipe
  <1> QED BY ConnTypeCorrect, OwnInvCorrect, <1>1, PTL

\* The process runs under the account the "set" commands asked for.
THEOREM RunsAsCorrect == ConnSpec => []RunsAsRequested
  <1>1. OwnInv => RunsAsRequested
    BY DEF OwnInv, RunsAsRequested
  <1> QED BY OwnInvCorrect, <1>1, PTL

\* A thread that impersonates its client holds no standard pipe and has
\* started no process.
THEOREM ServesAsItselfCorrect == ConnSpec => []ServesAsItself
  <1>1. OwnInv => ServesAsItself
    BY DEF OwnInv, ServesAsItself, Loc, HoldsIn, HoldsOut, HoldsErr, Std
  <1> QED BY OwnInvCorrect, <1>1, PTL
=============================================================================
