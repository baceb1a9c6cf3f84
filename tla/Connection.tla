----------------------------- MODULE Connection -----------------------------
(***************************************************************************)
(* One connection thread of winexesvc (handle_connection and the cmd_*     *)
(* functions of winexesvc.c), the process it runs for its client, and a    *)
(* client that may do anything a named pipe allows at any time.            *)
(*                                                                         *)
(* pc is the next statement of the thread that another party can tell from *)
(* its neighbours; "flush" is the FlushFileBuffers inside hprintf, after   *)
(* which the thread goes on at cont.                                       *)
(***************************************************************************)
EXTENDS Pipes, FiniteSets

CONSTANTS
    ExitCodes,  \* exit codes of the processes that are run
    Versions,   \* version numbers the installed service may have; 0 stands
                \* for a service older than the "get" command
    MayFail,    \* the calls that may fail
    Capacity,   \* chunks a standard stream pipe holds (BUFSIZE)
    Writes,     \* the sequences of lines the client may write at once
    MaxQueued   \* bound on the writes a client has queued on one pipe

Aborted == 4660         \* 0x1234, the code given to TerminateProcess

Api == {"CreateThread", "malloc", "LogonUser", "OpenProcessToken", "Impersonate",
        "OpenThreadToken", "DuplicateToken", "RevertToSelf",
        "CreateNamedPipe", "ConnectNamedPipe", "CreateProcess"}

Std == {"in", "out", "err"}

\* What a client can write on the control pipe: the verb of a line and what
\* the command finds after the first blank ("none": there is no blank).
Line == [verb : {"get", "set", "run", "unknown", "empty"},
         arg  : {"none", "version", "system", "nosystem", "implevel", "runas",
                 "command", "other"}]

Chunk == [verb |-> "data", arg |-> "none"]

\* What the service side writes.  An error begins with "error" and a blank; the
\* one of a failed malloc with "error:", which is not the same to a client.
Msg(t, v) == [type |-> t, val |-> v]
Error == Msg("error", 0)
NoMemory == Msg("error:", 0)
Data  == Msg("data", 0)
Message == [type : {"version", "error", "error:", "std_io_err", "return_code", "data"},
            val  : Nat]

ASSUME ConnectionAssumption ==
    /\ ExitCodes \subseteq Nat
    /\ Versions \subseteq Nat
    /\ MayFail \subseteq Api
    /\ Capacity \in Nat
    /\ MaxQueued \in Nat
    /\ Writes \subseteq Seq(Line)

VARIABLES
    pc, cont,   \* where the thread is, and where hprintf returns to
    ver,        \* version of the running service
    settings,   \* c->system, c->implevel, c->runas that a "set" has stored
    token,      \* whose token c->token is
    imp,        \* the thread impersonates the client of the pipe
    handles,    \* handles the thread has open
    proc,       \* the remote process
    runner,     \* the account it was started under
    pcode,      \* its exit code
    ec,         \* the local ec of cmd_run
    ovl         \* the one-byte ReadFile on the control pipe during the wait

threadVars == <<pc, cont, ver, settings, token, imp, handles, proc, runner,
                pcode, ec, ovl>>
connVars == <<pipeVars, threadVars>>

PC == {"idle", "hgets", "flush", "token", "dup", "closetmp", "revert",
       "mkin", "mkout", "mkerr", "stdio", "connin", "connout", "connerr",
       "spawn", "watch", "wait", "flushout", "flusherr", "report",
       "discerr", "discout", "discin", "closeerr", "closeout", "closein",
       "closetoken", "finish", "done", "unserved"}

Accounts == {"none", "runas", "system", "client"}

ThreadInit ==
    /\ c2s = [p \in Pipe |-> <<>>]
    /\ s2c = [p \in Pipe |-> <<>>]
    /\ discarded = FALSE
    /\ pc = "idle"
    /\ cont = "done"
    /\ ver \in Versions
    /\ settings = {}
    /\ token = "none"
    /\ imp = FALSE
    /\ handles = {}
    /\ proc = "none"
    /\ runner = "none"
    /\ pcode = 0
    /\ ec = 0
    /\ ovl = "idle"

\* The pipes of a service: server_loop has the first control pipe ready, or
\* has not come so far.
NewPipes(ready) == [p \in Pipe |-> IF p = "ctrl" /\ ready THEN "listen" ELSE "none"]

ConnInit ==
    /\ inst = NewPipes(TRUE)
    /\ ThreadInit

----------------------------------------------------------------------------
\* The thread moves on, changing nothing else of its own.
Goto(l) ==
    /\ pc' = l
    /\ UNCHANGED <<cont, ver, settings, token, imp, handles, proc, runner,
                   pcode, ec, ovl>>

\* hprintf: write the message, then wait in FlushFileBuffers.
hprintf(m, l) ==
    /\ WriteFile("ctrl", m)
    /\ pc' = "flush"
    /\ cont' = l

HprintfReturn ==
    /\ pc = "flush"
    /\ Flushed("ctrl")
    /\ Goto(cont)
    /\ UNCHANGED pipeVars

\* The rest of the connection context when only pc and cont change.
context == <<ver, settings, token, imp, handles, proc, runner, pcode, ec, ovl>>

Fails(call, l) ==
    /\ call \in MayFail
    /\ hprintf(Error, l)
    /\ UNCHANGED context

----------------------------------------------------------------------------
\* server_loop: a client has connected; a thread takes its pipe over.
Accept ==
    /\ pc = "idle"
    /\ inst["ctrl"] \in {"conn", "broken"}
    /\ pc' = "hgets"
    /\ handles' = {"ctrl"}
    /\ UNCHANGED <<cont, ver, settings, token, imp, proc, runner, pcode, ec, ovl>>
    /\ UNCHANGED pipeVars

\* ... or the client has already left again (ERROR_NO_DATA), or CreateThread
\* fails: the pipe is closed.
AcceptFails ==
    /\ pc = "idle"
    /\ \/ inst["ctrl"] = "broken"
       \/ inst["ctrl"] = "conn" /\ "CreateThread" \in MayFail
    /\ Disconnect("ctrl")
    /\ Goto("done")

\* ... or handle_connection gets no buffer for the command: it says so and
\* returns, and nobody disconnects or closes the pipe.
AcceptUnserved ==
    /\ pc = "idle"
    /\ inst["ctrl"] \in {"conn", "broken"}
    /\ "malloc" \in MayFail
    /\ hprintf(NoMemory, "unserved")
    /\ handles' = {"ctrl"}
    /\ UNCHANGED <<ver, settings, token, imp, proc, runner, pcode, ec, ovl>>

\* hgets and the search of cmd_table: the next line of the control pipe.
NextLine(verb) ==
    /\ pc = "hgets"
    /\ c2s["ctrl"] # <<>>
    /\ Head(c2s["ctrl"]).verb = verb

\* hgets returns 0: the pipe is broken and read empty, or the line is empty.
HgetsFails ==
    /\ pc = "hgets"
    /\ \/ c2s["ctrl"] = <<>> /\ inst["ctrl"] # "conn" /\ UNCHANGED pipeVars
       \/ NextLine("empty") /\ ReadFile("ctrl")
    /\ Goto("finish")

\* Mutant: hprintf without FlushFileBuffers.
ReadAndReplyUnflushed(m, l) ==
    /\ c2s' = [c2s EXCEPT !["ctrl"] = Tail(@)]
    /\ s2c' = IF inst["ctrl"] = "conn"
              THEN [s2c EXCEPT !["ctrl"] = Append(@, m)] ELSE s2c
    /\ pc' = l
    /\ cont' = l
    /\ UNCHANGED <<inst, discarded>>

\* A command reads its line and replies: both change the pipe, so the line
\* is dropped and the reply appended in one step.
ReadAndReply(m, l) ==
    /\ c2s' = [c2s EXCEPT !["ctrl"] = Tail(@)]
    /\ s2c' = IF inst["ctrl"] = "conn"
              THEN [s2c EXCEPT !["ctrl"] = Append(@, m)] ELSE s2c
    /\ pc' = "flush"
    /\ cont' = l
    /\ UNCHANGED <<inst, discarded>>

Arg == Head(c2s["ctrl"]).arg

\* A service that is too old has no "get" in its cmd_table.
Unknown ==
    /\ NextLine("unknown") \/ (NextLine("get") /\ ver = 0)
    /\ ReadAndReply(Error, "hgets")
    /\ UNCHANGED context

cmd_get ==
    /\ NextLine("get") /\ ver # 0
    /\ \/ Arg = "version" /\ ReadAndReply(Msg("version", ver), "hgets") /\ UNCHANGED context
       \/ Arg = "none" /\ ReadFile("ctrl") /\ Goto("finish")
       \/ /\ Arg \notin {"version", "none"}
          /\ ReadAndReply(Error, "finish")
          /\ UNCHANGED context

\* Mutant: the number after "system" is not looked at.
cmd_setUnparsed ==
    /\ NextLine("set")
    /\ Arg \in {"system", "nosystem", "implevel", "runas"}
    /\ ReadFile("ctrl")
    /\ settings' = settings \union {Arg}
    /\ UNCHANGED <<pc, cont, ver, token, imp, handles, proc, runner, pcode, ec, ovl>>

\* "set system 0" clears what "set system 1" stored; the others only set.
cmd_set ==
    /\ NextLine("set")
    /\ \/ /\ Arg \in {"system", "nosystem", "implevel", "runas"}
          /\ ReadFile("ctrl")
          /\ settings' = IF Arg = "nosystem" THEN settings \ {"system"}
                                             ELSE settings \union {Arg}
          /\ UNCHANGED <<pc, cont, ver, token, imp, handles, proc, runner, pcode, ec, ovl>>
       \/ /\ Arg = "none"
          /\ ReadFile("ctrl")
          /\ Goto("finish")
       \/ /\ Arg \in {"version", "command", "other"}
          /\ ReadAndReply(Error, "finish")
          /\ UNCHANGED context

cmd_run ==
    /\ NextLine("run")
    /\ ReadFile("ctrl")
    /\ Goto(IF Arg = "none" THEN "finish" ELSE "token")

----------------------------------------------------------------------------
\* get_token.

TokenLogon ==
    /\ pc = "token" /\ "runas" \in settings
    /\ \/ /\ token' = "runas"
          /\ handles' = handles \union {"token"}
          /\ pc' = "mkin"
          /\ UNCHANGED <<cont, ver, settings, imp, proc, runner, pcode, ec, ovl>>
          /\ UNCHANGED pipeVars
       \/ Fails("LogonUser", "finish")

\* Mutant: "system" is looked at although "runas" was given.
TokenOpenProcessFirst ==
    /\ pc = "token" /\ "system" \in settings
    /\ handles' = handles \union {"tmp"}
    /\ pc' = "dup"
    /\ UNCHANGED <<cont, ver, settings, token, imp, proc, runner, pcode, ec, ovl>>
    /\ UNCHANGED pipeVars

TokenOpenProcess ==
    /\ pc = "token" /\ "runas" \notin settings /\ "system" \in settings
    /\ \/ /\ handles' = handles \union {"tmp"}
          /\ pc' = "dup"
          /\ UNCHANGED <<cont, ver, settings, token, imp, proc, runner, pcode, ec, ovl>>
          /\ UNCHANGED pipeVars
       \/ Fails("OpenProcessToken", "finish")

\* ImpersonateNamedPipeClient, then OpenThreadToken.
TokenImpersonate ==
    /\ pc = "token" /\ settings \intersect {"runas", "system"} = {}
    /\ \/ /\ imp' = TRUE
          /\ handles' = handles \union {"tmp"}
          /\ pc' = "dup"
          /\ UNCHANGED <<cont, ver, settings, token, proc, runner, pcode, ec, ovl>>
          /\ UNCHANGED pipeVars
       \/ /\ "OpenThreadToken" \in MayFail
          /\ imp' = TRUE
          /\ hprintf(Error, "revert")
          /\ UNCHANGED <<ver, settings, token, handles, proc, runner, pcode, ec, ovl>>
       \/ Fails("Impersonate", "finish")

TokenDuplicate ==
    /\ pc = "dup"
    /\ \/ /\ token' = IF imp THEN "client" ELSE "system"
          /\ handles' = handles \union {"token"}
          /\ pc' = "closetmp"
          /\ UNCHANGED <<cont, ver, settings, imp, proc, runner, pcode, ec, ovl>>
          /\ UNCHANGED pipeVars
       \/ Fails("DuplicateToken", "closetmp")

\* Mutant: no RevertToSelf on the way out.
TokenCloseTmpUnreverted ==
    /\ pc = "closetmp"
    /\ handles' = handles \ {"tmp"}
    /\ pc' = IF token # "none" THEN "mkin" ELSE "finish"
    /\ UNCHANGED <<cont, ver, settings, token, imp, proc, runner, pcode, ec, ovl>>
    /\ UNCHANGED pipeVars

\* finishCloseToken of get_token; RevertToSelf is skipped for "set system 1".
TokenCloseTmp ==
    /\ pc = "closetmp"
    /\ handles' = handles \ {"tmp"}
    /\ pc' = IF "system" \notin settings THEN "revert"
             ELSE IF token # "none" THEN "mkin" ELSE "finish"
    /\ UNCHANGED <<cont, ver, settings, token, imp, proc, runner, pcode, ec, ovl>>
    /\ UNCHANGED pipeVars

\* get_token returns res; when RevertToSelf fails res is 0 although c->token
\* may be open, and cmd_run returns without closing it.
TokenRevert ==
    /\ pc = "revert"
    /\ \/ /\ imp' = FALSE
          /\ pc' = IF token # "none" THEN "mkin" ELSE "finish"
          /\ UNCHANGED <<cont, ver, settings, token, handles, proc, runner, pcode, ec, ovl>>
          /\ UNCHANGED pipeVars
       \/ Fails("RevertToSelf", "finish")

----------------------------------------------------------------------------
\* cmd_run, from the creation of the pipes to the wait for the process.

\* CreateNamedPipe for pipe p; on failure what was created is closed at l.
MakePipe(at, p, next, l) ==
    /\ pc = at
    /\ \/ /\ CreateNamedPipe(p)
          /\ handles' = handles \union {p}
          /\ pc' = next
          /\ UNCHANGED <<cont, ver, settings, token, imp, proc, runner, pcode, ec, ovl>>
       \/ Fails("CreateNamedPipe", l)

\* Mutant: the label of the error pipe is one too low.
MakePipesWrongLabel ==
    \/ MakePipe("mkin",  "in",  "mkout", "closetoken")
    \/ MakePipe("mkout", "out", "mkerr", "closein")
    \/ MakePipe("mkerr", "err", "stdio", "closein")

MakePipes ==
    \/ MakePipe("mkin",  "in",  "mkout", "closetoken")
    \/ MakePipe("mkout", "out", "mkerr", "closein")
    \/ MakePipe("mkerr", "err", "stdio", "closeout")

SendStdIoErr ==
    /\ pc = "stdio"
    /\ hprintf(Msg("std_io_err", 0), "connin")
    /\ UNCHANGED context

\* ConnectNamedPipe blocks until a client opens the pipe; it fails with
\* ERROR_NO_DATA when the client has opened it and left before the call.
ConnectPipe(at, p, next, l) ==
    /\ pc = at
    /\ \/ /\ inst[p] \in {"conn", "broken"}
          /\ Goto(next)
          /\ UNCHANGED pipeVars
       \/ /\ inst[p] = "broken"
          /\ hprintf(Error, l)
          /\ UNCHANGED context
       \/ Fails("ConnectNamedPipe", l)

ConnectPipes ==
    \/ ConnectPipe("connin",  "in",  "connout", "closeerr")
    \/ ConnectPipe("connout", "out", "connerr", "discin")
    \/ ConnectPipe("connerr", "err", "spawn",   "discout")

\* Mutant: a process that cannot be created is tried again.
SpawnRetries ==
    /\ pc = "spawn"
    /\ \/ /\ proc' = "running"
          /\ runner' = token
          /\ pc' = "watch"
          /\ UNCHANGED <<cont, ver, settings, token, imp, handles, pcode, ec, ovl>>
          /\ UNCHANGED pipeVars
       \/ Fails("CreateProcess", "spawn")

Spawn ==
    /\ pc = "spawn"
    /\ \/ /\ proc' = "running"
          /\ runner' = token
          /\ pc' = "watch"
          /\ UNCHANGED <<cont, ver, settings, token, imp, handles, pcode, ec, ovl>>
          /\ UNCHANGED pipeVars
       \/ Fails("CreateProcess", "discerr")

\* ResetEvent and the overlapped one-byte ReadFile on the control pipe: it
\* completes, stays pending, or fails at once and leaves the event reset.
Watch ==
    /\ pc = "watch"
    /\ \/ ReadFile("ctrl") /\ ovl' = "done"
       \/ /\ c2s["ctrl"] = <<>>
          /\ ovl' = IF inst["ctrl"] = "conn" THEN "pending" ELSE "failed"
          /\ UNCHANGED pipeVars
    /\ pc' = "wait"
    /\ UNCHANGED <<cont, ver, settings, token, imp, handles, proc, runner, pcode, ec>>

\* Mutant: the loss of the client does not count.
ControlSignalledByData == ovl = "done" \/ (ovl = "pending" /\ c2s["ctrl"] # <<>>)

\* The event of the control pipe is set: a byte came, or the read was cut off.
ControlSignalled ==
    \/ ovl = "done"
    \/ ovl = "pending" /\ (c2s["ctrl"] # <<>> \/ inst["ctrl"] # "conn")

\* Mutant: the process is not terminated.
WaitControlOnly ==
    /\ pc = "wait"
    /\ ControlSignalled
    /\ ec' = Aborted
    /\ pc' = "flushout"
    /\ UNCHANGED <<cont, ver, settings, token, imp, handles, proc, runner, pcode, ovl>>
    /\ UNCHANGED pipeVars

\* WaitForMultipleObjects reports the lowest signalled index: the control
\* pipe wins over the process, and then 0x1234 is the code even if the
\* process had already ended (TerminateProcess fails unnoticed).
WaitControl ==
    /\ pc = "wait"
    /\ ControlSignalled
    /\ pcode' = IF proc = "running" THEN Aborted ELSE pcode
    /\ proc' = "exited"
    /\ ec' = Aborted
    /\ pc' = "flushout"
    /\ UNCHANGED <<cont, ver, settings, token, imp, handles, runner, ovl>>
    /\ UNCHANGED pipeVars

\* Mutant: GetExitCodeProcess is left out, the index of the wait is sent.
WaitProcessIndex ==
    /\ pc = "wait"
    /\ ~ControlSignalled
    /\ proc = "exited"
    /\ ec' = 1
    /\ pc' = "flushout"
    /\ UNCHANGED <<cont, ver, settings, token, imp, handles, proc, runner, pcode, ovl>>
    /\ UNCHANGED pipeVars

WaitProcess ==
    /\ pc = "wait"
    /\ ~ControlSignalled
    /\ proc = "exited"
    /\ ec' = pcode
    /\ pc' = "flushout"
    /\ UNCHANGED <<cont, ver, settings, token, imp, handles, proc, runner, pcode, ovl>>
    /\ UNCHANGED pipeVars

\* Mutants: no FlushFileBuffers on the output, on the error pipe.
FlushOutSkipped == pc = "flushout" /\ Goto("flusherr") /\ UNCHANGED pipeVars
FlushErrSkipped == pc = "flusherr" /\ Goto("report") /\ UNCHANGED pipeVars

\* The output is flushed before the exit code is reported.
FlushOut ==
    /\ pc = "flushout"
    /\ Flushed("out")
    /\ Goto("flusherr")
    /\ UNCHANGED pipeVars

FlushErr ==
    /\ pc = "flusherr"
    /\ Flushed("err")
    /\ Goto("report")
    /\ UNCHANGED pipeVars

SendReturnCode ==
    /\ pc = "report"
    /\ hprintf(Msg("return_code", ec), "discerr")
    /\ UNCHANGED context

----------------------------------------------------------------------------
\* The labels at the end of cmd_run and of handle_connection.

DisconnectPipe(at, p, next) ==
    /\ pc = at
    /\ Disconnect(p)
    /\ Goto(next)

ClosePipe(at, p, next) ==
    /\ pc = at
    /\ Disconnect(p)
    /\ handles' = handles \ {p}
    /\ pc' = next
    /\ UNCHANGED <<cont, ver, settings, token, imp, proc, runner, pcode, ec, ovl>>

\* Mutant: the handle of the output pipe is not closed.
ReleaseLeaky ==
    \/ DisconnectPipe("discerr", "err", "discout")
    \/ DisconnectPipe("discout", "out", "discin")
    \/ DisconnectPipe("discin",  "in",  "closeerr")
    \/ ClosePipe("closeerr", "err", "closein")
    \/ ClosePipe("closein",  "in",  "closetoken")

Release ==
    \/ DisconnectPipe("discerr", "err", "discout")
    \/ DisconnectPipe("discout", "out", "discin")
    \/ DisconnectPipe("discin",  "in",  "closeerr")
    \/ ClosePipe("closeerr", "err", "closeout")
    \/ ClosePipe("closeout", "out", "closein")
    \/ ClosePipe("closein",  "in",  "closetoken")

CloseToken ==
    /\ pc = "closetoken"
    /\ handles' = handles \ {"token"}
    /\ token' = "none"
    /\ pc' = "finish"
    /\ UNCHANGED <<cont, ver, settings, imp, proc, runner, pcode, ec, ovl>>
    /\ UNCHANGED pipeVars

\* handle_connection: FlushFileBuffers, DisconnectNamedPipe, CloseHandle.
Finish ==
    /\ pc = "finish"
    /\ Flushed("ctrl")
    /\ ClosePipe("finish", "ctrl", "done")

----------------------------------------------------------------------------
\* The remote process: writes its output, reads its input, exits.

ProcWrite(p) ==
    /\ proc = "running"
    /\ inst[p] = "conn"
    /\ Len(s2c[p]) < Capacity
    /\ WriteFile(p, Data)
    /\ UNCHANGED threadVars

ProcRead ==
    /\ proc = "running"
    /\ ReadFile("in")
    /\ UNCHANGED threadVars

ProcExit(code) ==
    /\ proc = "running"
    /\ proc' = "exited"
    /\ pcode' = code
    /\ UNCHANGED <<pc, cont, ver, settings, token, imp, handles, runner, ec, ovl>>
    /\ UNCHANGED pipeVars

ProcNext ==
    \/ \E p \in {"out", "err"} : ProcWrite(p)
    \/ ProcRead
    \/ \E code \in ExitCodes : ProcExit(code)

----------------------------------------------------------------------------
ThreadNext ==
    \/ HprintfReturn
    \/ Accept \/ AcceptFails \/ AcceptUnserved
    \/ HgetsFails \/ Unknown \/ cmd_get \/ cmd_set \/ cmd_run
    \/ TokenLogon \/ TokenOpenProcess \/ TokenImpersonate
    \/ TokenDuplicate \/ TokenCloseTmp \/ TokenRevert
    \/ MakePipes \/ SendStdIoErr \/ ConnectPipes
    \/ Spawn \/ Watch \/ WaitControl \/ WaitProcess
    \/ FlushOut \/ FlushErr \/ SendReturnCode
    \/ Release \/ CloseToken \/ Finish

\* Any client: it opens, writes, reads and closes as the pipes allow.
AnyClient ==
    /\ \/ \E p \in Pipe : ClientOpen(p) \/ ClientRead(p) \/ ClientClose(p)
       \/ \E w \in Writes : ClientWrite("ctrl", w)
       \/ ClientWrite("in", <<Chunk>>)
    /\ UNCHANGED threadVars

ClientNext == AnyClient /\ \A p \in Pipe : c2s'[p] = c2s[p] \/ Len(c2s[p]) < MaxQueued

ConnNext == ThreadNext \/ ProcNext \/ ClientNext

\* The thread is scheduled; the client and the process may stop for ever.
ConnSpec == ConnInit /\ [][ConnNext]_connVars /\ WF_connVars(ThreadNext)
----------------------------------------------------------------------------
\* Properties: what one connection promises to any client.

PipeTypeOK ==
    /\ inst \in [Pipe -> InstState]
    /\ c2s \in [Pipe -> Seq(Line \union {Chunk})]
    /\ s2c \in [Pipe -> Seq(Message)]
    /\ discarded \in BOOLEAN

ThreadTypeOK ==
    /\ pc \in PC /\ cont \in PC
    /\ ver \in Versions
    /\ settings \subseteq {"system", "implevel", "runas"}
    /\ token \in Accounts /\ runner \in Accounts
    /\ imp \in BOOLEAN
    /\ handles \subseteq Pipe \union {"token", "tmp"}
    /\ proc \in {"none", "running", "exited"}
    /\ pcode \in Nat /\ ec \in Nat
    /\ ovl \in {"idle", "pending", "done", "failed"}

ConnTypeOK == PipeTypeOK /\ ThreadTypeOK

\* At most one message waits on the control pipe, whatever the client does:
\* every hprintf waits in FlushFileBuffers before the thread goes on.  The
\* client's on_ctrl_pipe_read looks only at the first message of what one
\* read returns, so a second one would be lost.
OneMessagePerRead == Len(s2c["ctrl"]) <= 1

\* No message and no output of the process is thrown away by
\* DisconnectNamedPipe or CloseHandle under a client that is still connected,
\* on any path through the labels at the end of cmd_run.
NothingDiscarded == ~discarded

\* When the exit code is on the control pipe, the process has ended and the
\* client has read all of its output: the client ends on the code's heels.
CodeAfterOutput ==
    (s2c["ctrl"] # <<>> /\ Head(s2c["ctrl"]).type = "return_code")
        => proc = "exited" /\ Flushed("out") /\ Flushed("err")

\* Why that is so, as an invariant every step preserves: messages wait on the
\* control pipe only inside hprintf, the process writes only while the thread
\* watches it, and the labels of the release are reached with both output
\* pipes read empty.
Loc == IF pc = "flush" THEN cont ELSE pc
ReleaseLabels == {"discerr", "discout", "discin", "closeerr", "closeout",
                  "closein", "closetoken"}
BeforeSpawn == {"idle", "hgets", "token", "dup", "closetmp", "revert", "mkin",
                "mkout", "mkerr", "stdio", "connin", "connout", "connerr", "spawn", "unserved"}

ConnInv ==
    /\ \A p \in Pipe : inst[p] # "conn" => s2c[p] = <<>>
    /\ pc # "flush" => s2c["ctrl"] = <<>>
    /\ Len(s2c["ctrl"]) <= 1
    /\ s2c["in"] = <<>>
    /\ Loc \in BeforeSpawn => proc = "none"
    /\ proc = "none" => s2c["out"] = <<>> /\ s2c["err"] = <<>>
    /\ proc = "running" => pc \in {"watch", "wait"}
    /\ Loc \in ReleaseLabels \union {"flusherr", "report"} => s2c["out"] = <<>>
    /\ Loc \in ReleaseLabels \union {"report"} => s2c["err"] = <<>>
    /\ pc \in {"flushout", "flusherr", "report"} => proc = "exited"
    /\ (s2c["ctrl"] # <<>> /\ Head(s2c["ctrl"]).type = "return_code")
          => cont = "discerr" /\ proc = "exited"
    /\ cont \notin {"flush", "watch", "wait", "flushout", "flusherr", "report"}
    /\ ~discarded

\* A thread that has returned holds no handle, whichever call failed, but in
\* two cases: c->token when RevertToSelf fails, and the control pipe when there
\* was no memory for the command.
HandlesReleased ==
    /\ pc = "done" => handles = {} \/ (imp /\ handles = {"token"})
    /\ pc = "unserved" => handles = {"ctrl"}

\* The process runs under the account that was asked for: "set runas" before
\* "set system 1" before the identity of the client.
AccountAsked ==
    IF "runas" \in settings THEN "runas"
    ELSE IF "system" \in settings THEN "system" ELSE "client"

RunsAsRequested == proc # "none" => runner = AccountAsked

\* While the thread impersonates its client it owns no standard pipe and has
\* started no process: it has reverted to itself before, or gives up.
ServesAsItself == imp => handles \intersect Std = {} /\ proc = "none"

\* Where each standard pipe may be open.
HoldsErr == {"stdio", "connin", "connout", "connerr", "spawn", "watch", "wait",
             "flushout", "flusherr", "report", "discerr", "discout", "discin",
             "closeerr"}
HoldsOut == HoldsErr \union {"mkerr", "closeout"}
HoldsIn  == HoldsOut \union {"mkout", "closein"}

\* Why the three hold, as an invariant every step preserves: what the thread
\* owns and whom it acts for at each label of get_token and cmd_run.
OwnInv ==
    /\ "token" \in handles <=> token # "none"
    /\ "ctrl" \in handles => Loc \notin {"idle", "done"}
    /\ "tmp" \in handles => Loc \in {"dup", "closetmp"}
    /\ "in" \in handles => Loc \in HoldsIn
    /\ "out" \in handles => Loc \in HoldsOut
    /\ "err" \in handles => Loc \in HoldsErr
    /\ Loc = "unserved" => "ctrl" \in handles
    /\ Loc \in {"idle", "hgets", "token", "dup", "unserved"} => token = "none"
    /\ Loc \in {"finish", "done"} /\ token # "none" => imp
    /\ Loc \in {"mkin", "mkout", "mkerr", "stdio", "connin", "connout",
                "connerr", "spawn"} => token # "none"
    /\ token # "none" => token = AccountAsked
    /\ Loc \in {"dup", "closetmp"} => AccountAsked = IF imp THEN "client" ELSE "system"
    /\ Loc = "revert" => imp
    /\ Loc \in {"watch", "wait"} => proc # "none"
    /\ imp => /\ Loc \in {"dup", "closetmp", "revert", "finish", "done"}
              /\ AccountAsked = "client"
              /\ proc = "none"
    /\ proc # "none" => Loc \notin BeforeSpawn /\ runner = AccountAsked

\* A byte on the control pipe ("abort"), once the read of the control pipe is
\* under way, ends the process.
ControlStopsProcess ==
    (pc = "wait" /\ ovl = "pending" /\ c2s["ctrl"] # <<>>) ~> proc = "exited"

\* A client that is gone for good during the wait leaves nothing behind: the
\* wait ends, the thread gets through every flush and ends.
ClientGoneReleases ==
    (/\ pc = "wait" /\ ovl = "pending"
     /\ \A p \in Pipe : inst[p] # "conn") ~> pc = "done"
=============================================================================
