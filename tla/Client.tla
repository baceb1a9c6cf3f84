------------------------------- MODULE Client -------------------------------
(***************************************************************************)
(* The winexe client: the callbacks of winexe.c on the four pipes, the     *)
(* asynchronous requests of async.c they are built on, and the part of the *)
(* SMB transport that decides which request a reply, a timeout or the loss *)
(* of the connection is given to.                                          *)
(*                                                                         *)
(* An action is one callback of the event loop.  mode tells where the      *)
(* process is: in the event loop, in one of the blocking service calls a   *)
(* callback makes ("install", "reinstall", "exiting"), or gone.            *)
(***************************************************************************)
EXTENDS Naturals, Sequences, SequencesExt

CONSTANTS
    VERSION,    \* version of the client (and of the service it carries)
    Asked,      \* accounts the user may ask for: "runas", "system", "client"
    Signals     \* signals the user may send

ASSUME ClientAssumption ==
    /\ VERSION \in Nat
    /\ Asked \subseteq {"runas", "system", "client"}

PipeName == {"ctrl", "in", "out", "err"}

VARIABLES
    account,    \* the options --runas and --system
    state,      \* c->state
    activated,  \* the static flag of on_ctrl_pipe_error
    return_code,
    mode,
    fd,         \* c->fd of each async_context, 0 before it is opened
    io_read,    \* the file number cached in io_read, 0 for NULL
    io_write,   \* the file number cached in io_write, 0 for NULL
    pending,    \* transport->pending_recv, oldest request first
    reqTimeout, \* transport->options.request_timeout is not 0
    abort_requested,
    caught,     \* signals whose handler is catch_alarm
    timers,     \* timed events armed with timer()
    stdinEv,    \* the fd event on standard input: "none" before the pipe of the
                \* input is open, then the system call that watches it
    typed,      \* chunks read from standard input
    shown,      \* chunks written to standard output and standard error
    codeSeen,   \* history: a return_code message was handled
    abortSent,  \* history: "abort" was written after the "run" command
    net,        \* "up"; "down": lost, not noticed yet; "dead"
    toSrv,      \* requests on the wire
    toCli       \* replies on the wire

stateVars == <<account, state, activated, return_code, mode>>
ioVars    == <<fd, io_read, io_write>>
reqVars   == <<pending, reqTimeout, toSrv>>
sigVars   == <<abort_requested, caught, timers, abortSent>>
userVars  == <<stdinEv, typed, shown, codeSeen>>
clientVars == <<stateVars, ioVars, reqVars, sigVars, userVars, net, toCli>>

Gone == {"exited", "killed"}

Request(op, p, f, items) == [op |-> op, pipe |-> p, fnum |-> f, items |-> items]

CommandLine(verb, arg) == [verb |-> verb, arg |-> arg]
GetVersion == <<CommandLine("get", "version")>>
Abort      == <<CommandLine("unknown", "none")>>
Input      == <<CommandLine("data", "none")>>

\* Mutant: the account is set after the command was started.
RunCommandLate ==
    CASE account = "runas"  -> <<CommandLine("run", "command"), CommandLine("set", "runas")>>
      [] account = "system" -> <<CommandLine("run", "command"), CommandLine("set", "system")>>
      [] OTHER              -> <<CommandLine("run", "command")>>

\* The command built for the service from the options.
RunCommandOf(a) ==
    CASE a = "runas"  -> <<CommandLine("set", "runas"), CommandLine("run", "command")>>
      [] a = "system" -> <<CommandLine("set", "system"), CommandLine("run", "command")>>
      [] OTHER        -> <<CommandLine("run", "command")>>
RunCommand == RunCommandOf(account)

----------------------------------------------------------------------------
\* async.c on top of the transport.

\* Mutant: async_read leaves the timeout on.
SendOnTimed(link, rest, rs) ==
    /\ pending' = IF link = "dead" THEN rest
                  ELSE rest \o [i \in DOMAIN rs |->
                                 [op |-> rs[i].op, pipe |-> rs[i].pipe,
                                  fnum |-> rs[i].fnum, timed |-> reqTimeout]]
    /\ toSrv' = IF link = "up" THEN toSrv \o rs ELSE toSrv
    /\ UNCHANGED reqTimeout

\* Requests rs are sent in this order, rest being what is pending otherwise.
\* On a dead transport a request is neither sent nor ever completed.
\* async_read clears the timeout of the requests that follow it.
SendOn(link, rest, rs) ==
    /\ pending' = IF link = "dead" THEN rest
                  ELSE rest \o [i \in DOMAIN rs |->
                                 [op |-> rs[i].op, pipe |-> rs[i].pipe,
                                  fnum |-> rs[i].fnum, timed |-> reqTimeout]]
    /\ toSrv' = IF link = "up" THEN toSrv \o rs ELSE toSrv
    /\ reqTimeout' = (reqTimeout /\ \A i \in DOMAIN rs : rs[i].op # "read")

Send(rest, rs) == SendOn(net, rest, rs)

\* io_read and io_write remember the file number of their first use.
Cached(io, p, f) == IF io[p] # 0 THEN io[p] ELSE f

async_open(p) == Request("open", p, 0, <<>>)
async_read(p, f) == Request("read", p, Cached(io_read, p, f), <<>>)
async_write(p, f, items) == Request("write", p, Cached(io_write, p, f), items)
async_close(p) == Request("close", p, fd[p], <<>>)

ReadIssued(p, f)  == io_read'  = [io_read  EXCEPT ![p] = Cached(io_read, p, f)]
WriteIssued(p, f) == io_write' = [io_write EXCEPT ![p] = Cached(io_write, p, f)]

\* async_close destroys the open or read of its pipe that is under way, the
\* last one there is.
Destroyed(p, q) == q.pipe = p /\ q.op \in {"open", "read"}
Undestroyed(p, rest) ==
    LET rreq == {i \in DOMAIN rest : Destroyed(p, rest[i])}
    IN IF rreq = {} THEN rest
       ELSE RemoveAt(rest, CHOOSE i \in rreq : \A j \in rreq : j <= i)

\* Standard input is a file or /dev/null: epoll refuses it, and select, which
\* the event loop then falls back on, serves the newest event that is ready.
\* That is standard input for ever, also at its end: no reply is read again.
Starved == stdinEv = "select"

\* smbcli_transport_finish_recv: the request a reply belongs to.  A callback
\* that blocks in a nested event loop gets no further reply meanwhile: the
\* packet layer serialises them.
Receiving == mode = "loop" /\ ~Starved
Matching(r) == {i \in DOMAIN pending : /\ pending[i].op = r.op
                                       /\ pending[i].pipe = r.pipe
                                       /\ (r.op # "open" => pending[i].fnum = r.fnum)}
Matched(r) == CHOOSE i \in Matching(r) : \A j \in Matching(r) : i <= j
Rest(r) == RemoveAt(pending, Matched(r))

Reply == Head(toCli)
Receive(op, ok) ==
    /\ Receiving
    /\ toCli # <<>>
    /\ Reply.op = op
    /\ (Reply.status = "ok") = ok
    /\ Matching(Reply) # {}
    /\ toCli' = Tail(toCli)

\* A reply nobody waits for is dropped by the transport.
DropReply ==
    /\ Receiving
    /\ toCli # <<>>
    /\ Matching(Reply) = {}
    /\ toCli' = Tail(toCli)
    /\ UNCHANGED <<stateVars, ioVars, reqVars, sigVars, userVars, net>>

exit_program == mode' = "exiting"

----------------------------------------------------------------------------
\* Completed requests.

\* async_open_recv, on_ctrl_pipe_open.
CtrlOpened ==
    /\ Receive("open", TRUE) /\ Reply.pipe = "ctrl"
    /\ fd' = [fd EXCEPT !["ctrl"] = Reply.fnum]
    /\ state' = "GETTING_VERSION"
    /\ Send(Rest(Reply), <<async_write("ctrl", Reply.fnum, GetVersion),
                           async_read("ctrl", Reply.fnum)>>)
    /\ WriteIssued("ctrl", Reply.fnum)
    /\ ReadIssued("ctrl", Reply.fnum)
    /\ caught' = {"SIGINT", "SIGTERM"}
    /\ timers' = timers + 1
    /\ UNCHANGED <<account, activated, return_code, mode, abort_requested,
                   abortSent, userVars, net>>

\* async_open_recv for a standard stream; on_in_pipe_open, which cannot know
\* what standard input is.
StdOpened ==
    /\ Receive("open", TRUE) /\ Reply.pipe # "ctrl"
    /\ fd' = [fd EXCEPT ![Reply.pipe] = Reply.fnum]
    /\ stdinEv' \in IF Reply.pipe = "in" THEN {"epoll", "select"} ELSE {stdinEv}
    /\ Send(Rest(Reply), <<async_read(Reply.pipe, Reply.fnum)>>)
    /\ ReadIssued(Reply.pipe, Reply.fnum)
    /\ UNCHANGED <<stateVars, io_write, sigVars, typed, shown, codeSeen, net>>

\* smb_raw_read_recv stores into *io_read, smb_raw_write_recv into *io_write:
\* the structure that the completion of reply r writes to.
Target(r) == IF r.op = "read" THEN io_read[r.pipe] ELSE io_write[r.pipe]
Stores(r) == r.op \in {"read", "write"} /\ r.status = "ok" /\ Matching(r) # {}

\* async_read_recv on the control pipe; message m is the one acted upon.
CtrlRead(type) ==
    /\ Receive("read", TRUE) /\ Reply.pipe = "ctrl"
    /\ Head(Reply.data).type = type
    /\ ReadIssued("ctrl", fd["ctrl"])
    /\ UNCHANGED <<account, activated, mode, fd, sigVars, net>>

NextRead == async_read("ctrl", fd["ctrl"])

\* on_ctrl_pipe_read, "std_io_err": open the three streams.
OnStdIoErr ==
    /\ CtrlRead("std_io_err")
    /\ Send(Rest(Reply), <<async_open("in"), async_open("out"), async_open("err"), NextRead>>)
    /\ UNCHANGED <<state, return_code, io_write, userVars>>

OnReturnCode ==
    /\ CtrlRead("return_code")
    /\ return_code' = Head(Reply.data).val
    /\ codeSeen' = TRUE
    /\ Send(Rest(Reply), <<NextRead>>)
    /\ UNCHANGED <<state, io_write, stdinEv, typed, shown>>

\* ... "error: unable to allocate ..." of a service without memory: the word is
\* not "error", so it is an unknown command.
OnUnknown ==
    /\ CtrlRead("error:")
    /\ Send(Rest(Reply), <<NextRead>>)
    /\ UNCHANGED <<state, return_code, io_write, userVars>>

\* async_close from inside the read callback, with no other open or read under
\* way; async_read_recv then still sends a read on the file that is being closed.
CloseForReinstall ==
    /\ state' = "CLOSING_FOR_REINSTALL"
    /\ Send(Rest(Reply), <<async_close("ctrl"), NextRead>>)
    /\ UNCHANGED <<return_code, io_write, userVars>>

Compatible(v) == v \div 10 = VERSION \div 10

OnVersion ==
    /\ CtrlRead("version")
    /\ Compatible(Head(Reply.data).val)
    /\ state' = "RUNNING"
    /\ Send(Rest(Reply), <<async_write("ctrl", fd["ctrl"], RunCommand), NextRead>>)
    /\ WriteIssued("ctrl", fd["ctrl"])
    /\ UNCHANGED <<return_code, userVars>>

OnBadVersion ==
    /\ CtrlRead("version")
    /\ ~Compatible(Head(Reply.data).val)
    /\ CloseForReinstall

\* on_ctrl_pipe_read, "error": only during the version check does it mean
\* that the service is too old.
OnServiceError ==
    /\ CtrlRead("error")
    /\ IF state = "GETTING_VERSION"
       THEN CloseForReinstall
       ELSE /\ Send(Rest(Reply), <<NextRead>>)
            /\ UNCHANGED <<state, return_code, io_write, userVars>>

\* on_out_pipe_read, on_err_pipe_read.
OutputRead ==
    /\ Receive("read", TRUE) /\ Reply.pipe # "ctrl"
    /\ shown' = [shown EXCEPT ![Reply.pipe] = @ + Len(Reply.data)]
    /\ Send(Rest(Reply), <<async_read(Reply.pipe, fd[Reply.pipe])>>)
    /\ ReadIssued(Reply.pipe, fd[Reply.pipe])
    /\ UNCHANGED <<stateVars, fd, io_write, sigVars, stdinEv, typed, codeSeen, net>>

\* Mutant: io_write is freed after every write.
WrittenFreed ==
    /\ Receive("write", TRUE)
    /\ pending' = Rest(Reply)
    /\ io_write' = [io_write EXCEPT ![Reply.pipe] = 0]
    /\ UNCHANGED <<stateVars, fd, io_read, reqTimeout, toSrv, sigVars, userVars, net>>

\* async_write_recv; the write queue it looks at is always empty, because
\* nothing ever sets c->wreq.
Written ==
    /\ Receive("write", TRUE)
    /\ pending' = Rest(Reply)
    /\ UNCHANGED <<stateVars, ioVars, reqTimeout, toSrv, sigVars, userVars, net>>

\* async_close_recv (whatever the status), on_ctrl_pipe_close.
CloseDone(p, rest) ==
    /\ pending' = rest
    /\ io_read'  = [io_read  EXCEPT ![p] = 0]
    /\ io_write' = [io_write EXCEPT ![p] = 0]
    /\ mode' = IF p = "ctrl" /\ state = "CLOSING_FOR_REINSTALL"
               THEN "reinstall" ELSE mode
    /\ UNCHANGED <<account, state, activated, return_code, fd, reqTimeout, toSrv,
                   sigVars, userVars>>

Closed ==
    /\ \E ok \in BOOLEAN : Receive("close", ok)
    /\ CloseDone(Reply.pipe, Rest(Reply))
    /\ UNCHANGED net

----------------------------------------------------------------------------
\* Failed requests: an error reply, a timeout, the loss of the connection.

\* Mutant: the failed read of the closed control pipe is not told apart.
OnCtrlErrorExit(op, status, rest) ==
    /\ pending' = rest
    /\ IF ~activated /\ status = "notfound"
       THEN mode' = "install" /\ UNCHANGED return_code
       ELSE exit_program /\ return_code' = IF op = "open" THEN 1 ELSE return_code
    /\ UNCHANGED <<reqTimeout, toSrv>>

\* Mutant: every failed read of the control pipe is ignored.
OnCtrlErrorStay(op, status, rest) ==
    /\ pending' = rest
    /\ IF op = "read" THEN UNCHANGED <<mode, return_code>>
       ELSE IF ~activated /\ status = "notfound"
       THEN mode' = "install" /\ UNCHANGED return_code
       ELSE exit_program /\ return_code' = IF op = "open" THEN 1 ELSE return_code
    /\ UNCHANGED <<reqTimeout, toSrv>>

\* on_ctrl_pipe_error.
OnCtrlError(op, status, rest) ==
    /\ pending' = rest
    /\ \/ /\ ~activated /\ status = "notfound"
          /\ mode' = "install"
          /\ UNCHANGED return_code
       \/ /\ activated \/ status # "notfound"
          /\ op = "open"
          /\ return_code' = 1
          /\ exit_program
       \/ /\ activated \/ status # "notfound"
          /\ op = "read" /\ state = "OPENING"
          /\ UNCHANGED <<mode, return_code>>
       \/ /\ activated \/ status # "notfound"
          /\ op # "open" /\ ~(op = "read" /\ state = "OPENING")
          /\ exit_program
          /\ UNCHANGED return_code
    /\ UNCHANGED <<reqTimeout, toSrv>>

\* on_in_pipe_error, on_out_pipe_error, on_err_pipe_error.
OnStdError(link, p, rest) ==
    /\ SendOn(link, Undestroyed(p, rest), <<async_close(p)>>)
    /\ UNCHANGED <<mode, return_code>>

\* The _recv function of a failed open, read or write calls cb_error.
Fail(link, op, p, status, rest) ==
    /\ op \in {"open", "read", "write"}
    /\ io_write' = IF op = "write" THEN [io_write EXCEPT ![p] = 0] ELSE io_write
    /\ IF p = "ctrl" THEN OnCtrlError(op, status, rest) ELSE OnStdError(link, p, rest)
    /\ UNCHANGED <<account, state, activated, fd, io_read, sigVars, userVars>>

ErrorReply ==
    /\ \E op \in {"open", "read", "write"} : Receive(op, FALSE)
    /\ Fail(net, Reply.op, Reply.pipe, Reply.status, Rest(Reply))
    /\ UNCHANGED net

\* smbcli_timeout_handler.  In the event loops of the service calls timers go on
\* too, but no request with a timer is pending there: the control pipe has been
\* read, or nothing but its open has been asked for.
RequestTimeout ==
    /\ mode = "loop"
    /\ \E i \in DOMAIN pending :
          /\ pending[i].timed
          /\ Fail(net, pending[i].op, pending[i].pipe, "timeout", RemoveAt(pending, i))
    /\ UNCHANGED <<net, toCli>>

\* smbcli_transport_dead: only the request sent last is told.  A client that is
\* starved does not read the end of the stream, but a write of it may fail.
TransportDead ==
    /\ mode = "loop" /\ net = "down" /\ toCli = <<>>
    /\ net' = "dead"
    /\ IF pending = <<>>
       THEN UNCHANGED <<stateVars, ioVars, reqVars, sigVars, userVars>>
       ELSE LET q == Last(pending) IN
            IF q.op = "close" THEN CloseDone(q.pipe, Front(pending))
                              ELSE Fail("dead", q.op, q.pipe, "network", Front(pending))
    /\ UNCHANGED toCli

----------------------------------------------------------------------------
\* Events that are not completions.

\* on_stdin_read_event: every chunk is a write of its own, sent at once.  At the
\* end of the input nothing is read and the event stays: epoll gives the socket
\* its turn all the same, select does not, see Starved.
StdinRead ==
    /\ mode = "loop"
    /\ stdinEv # "none"
    /\ typed' = typed + 1
    /\ Send(pending, <<async_write("in", fd["in"], Input)>>)
    /\ WriteIssued("in", fd["in"])
    /\ UNCHANGED <<stateVars, fd, io_read, sigVars, stdinEv, shown, codeSeen, net, toCli>>

\* timer(): when no abort is requested the event only re-arms itself.  It also
\* runs in the nested event loops of the service calls.
Timer ==
    /\ mode \in {"loop", "install", "reinstall"}
    /\ timers > 0 /\ abort_requested
    /\ timers' = timers - 1
    /\ Send(pending, <<async_write("ctrl", fd["ctrl"], Abort)>>)
    /\ WriteIssued("ctrl", fd["ctrl"])
    /\ abortSent' = (abortSent \/ state = "RUNNING")
    /\ UNCHANGED <<stateVars, fd, io_read, abort_requested, caught, userVars, net, toCli>>

\* catch_alarm puts the default action back: the same signal again, or a
\* signal before the control pipe is open, kills the client.
Signal(s) ==
    /\ mode \notin Gone
    /\ abort_requested' = (abort_requested \/ s \in caught)
    /\ caught' = caught \ {s}
    /\ mode' = IF s \in caught THEN mode ELSE "killed"
    /\ UNCHANGED <<account, state, activated, return_code, ioVars, reqVars, timers,
                   abortSent, userVars, net, toCli>>

\* on_ctrl_pipe_error after svc_install.
Installed(ok) ==
    /\ mode = "install"
    /\ IF ok THEN /\ activated' = TRUE
                  /\ mode' = "loop"
                  /\ Send(pending, <<async_open("ctrl")>>)
                  /\ UNCHANGED return_code
             ELSE /\ return_code' = 1
                  /\ exit_program
                  /\ UNCHANGED <<activated, reqVars>>
    /\ UNCHANGED <<account, state, ioVars, sigVars, userVars, net, toCli>>

\* on_ctrl_pipe_close after svc_uninstall and svc_install, whose results it
\* does not look at.
Reinstalled ==
    /\ mode = "reinstall"
    /\ mode' = "loop"
    /\ state' = "OPENING"
    /\ Send(pending, <<async_open("ctrl")>>)
    /\ UNCHANGED <<account, activated, return_code, ioVars, sigVars, userVars, net, toCli>>

\* exit_program: svc_uninstall if it was asked for, then exit().
Exit ==
    /\ mode = "exiting"
    /\ mode' = "exited"
    /\ UNCHANGED <<account, state, activated, return_code, ioVars, reqVars, sigVars,
                   userVars, net, toCli>>

----------------------------------------------------------------------------
\* Mutant: an exit code that exit() cannot return.
InitialCodeNegative == 0 - 1

InitialCode == 99

\* main: the control pipe is being opened.
ClientInit ==
    /\ account \in Asked
    /\ state = "OPENING"
    /\ activated = FALSE
    /\ return_code = InitialCode
    /\ mode = "loop"
    /\ fd = [p \in PipeName |-> 0]
    /\ io_read = [p \in PipeName |-> 0]
    /\ io_write = [p \in PipeName |-> 0]
    /\ pending = <<[op |-> "open", pipe |-> "ctrl", fnum |-> 0, timed |-> TRUE]>>
    /\ reqTimeout = TRUE
    /\ abort_requested = FALSE
    /\ caught = {}
    /\ timers = 0
    /\ stdinEv = "none"
    /\ typed = 0
    /\ shown = [p \in {"out", "err"} |-> 0]
    /\ codeSeen = FALSE
    /\ abortSent = FALSE
    /\ net = "up"
    /\ toSrv = <<async_open("ctrl")>>
    /\ toCli = <<>>

\* The callbacks that complete a request.
Completion ==
    \/ DropReply
    \/ CtrlOpened \/ StdOpened
    \/ OnStdIoErr \/ OnReturnCode \/ OnVersion \/ OnBadVersion \/ OnServiceError \/ OnUnknown
    \/ OutputRead \/ Written \/ Closed \/ ErrorReply
=============================================================================
