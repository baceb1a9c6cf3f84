# winexe: specifications

winexe runs a command on a remote Windows machine and behaves like that
command: what the user types goes to its standard input, what it writes comes
back, and winexe exits with its exit code. The client (`winexe`, Linux) installs
a small service (`winexesvc`, Windows) over SMB and talks to it through named
pipes. This directory holds TLA+ models of both programs and of what joins
them, abstract specifications that they are shown to implement, the runs that
check them with TLC, and proofs that TLAPS checks: about the connection thread of
the service and its accept loop, the installation by any number of clients, the
SMB requests of the client, and a whole run of winexe.

Paths below are relative to `src/winexe-1.00/source4/`. The repository is a
whole Samba 4 tree; winexe is the directory `winexe/` and uses `libcli/` below
it.

## The system

| part | code | state it keeps | operations |
|---|---|---|---|
| callbacks of the client | `winexe/winexe.c` | `c->state`, `return_code`, the static `activated`, `abort_requested`, four `async_context`s | `on_*_open/read/close/error`, `catch_alarm`, `timer`, `on_stdin_read_event`, `exit_program` |
| asynchronous pipe I/O | `winexe/async.c` | per pipe: `fd`, the cached `io_read` and `io_write`, the request under way | `async_open/read/write/close` and the four `_recv` |
| installation | `winexe/service.c`, `libcli/smb_composite/savefile.c` | handles on the remote service manager; the file in `ADMIN$` | `svc_install`, `svc_UploadService`, `svc_uninstall` |
| SMB transport | `libcli/raw/clitransport.c`, `rawrequest.c`, `lib/stream/packet.c`, `../lib/tevent` | pending requests and their mids, timers, the send queue, the socket and its events, the lock of the packet layer | send, match a reply, time out, destroy, declare dead |
| service: start and stop | `winexe/winexesvc/service.c` | the service status | `winexesvcStart`, `winexesvcCtrlHandler`, `main` |
| service: accept loop | `winexesvc.c`, `server_loop` | the control pipe instance that listens, `conn_number` | create, connect, hand over to a thread |
| service: connection thread | `winexesvc.c`, `handle_connection`, `cmd_*` | pipe handles, token, settings, process | `hgets`, `hprintf`, `get`, `set`, `run` |
| options, lines and credentials | `winexe.c`, `on_ctrl_pipe_read`; `winexesvc.c`, `hgets`, `cmd_set`, `prepare_credentials` | the text in the pipe, the settings of the connection | options to lines, lines to settings, account and command |

How they interact. The client's event loop completes SMB requests on the control
pipe `\pipe\ahexec` and on three pipes per connection. A client opens the
control pipe (installing the service when it is not there), asks `get version`
(replacing the service when it does not fit), sends `set ...` and `run ...`,
gets `std_io_err`, opens the three standard pipes, and then copies data both
ways until it gets `return_code` and the control pipe breaks. The thread of
the service creates a token and the pipes, waits for the client to open them,
starts the process, and waits for the process or for the control pipe, on which
any byte (`abort`) or the loss of the client ends the process.

What is hard here: results that come back in an order nobody chose; pipes that
lose data when they are disconnected; several messages read as one; a thread
that acts for its client and must stop doing so on every path; a client that
vanishes at each point; two signals; a network that breaks; a service that is
reported as running before its pipe exists and as stopped before its process is
gone; several clients that install and remove the same service.

What makes each part correct, and so what is checked:

- connection thread: one message per read, no data thrown away, code after
  output, every handle released, the right account, no leftover impersonation,
  no orphan after the wait;
- client: the right exit code, never before the output, no timeout while the
  command runs, the command at most once, an end;
- client and service together: one command on another machine as if it were
  run here (`RemoteRun`);
- installation: clients that agree do not disturb each other, removal is
  complete, replacement happens once;
- accept loop: a thread, a number and pipes of its own for each client, whoever
  else comes, goes or stops the service; nobody is left waiting;
- lines: what is asked for is what is done, for every account and command that
  fits;
- requests: own reply, one end, in order, nothing forgotten (`Requests`).

## Modules

| module | models | built from |
|---|---|---|
| `Pipes` | Windows named pipes and their SMB side (external) | |
| `Connection` | one connection thread, its process, any client | `Pipes` |
| `ConnectionProofs` | theorems about `Connection` | `Connection`, `TLAPS` |
| `Client` | winexe.c, async.c, the transport's decisions | |
| `RemoteRun` | abstract: what winexe promises to its caller | |
| `Session` | one run of winexe: `Client` and `Connection` joined by the SMB server and a service that can be installed and replaced; implements `RemoteRun` | `Connection`, `Client`, `RemoteRun` |
| `SessionProofs` | theorems about `Session` | `Session`, `ConnectionProofs` |
| `SessionStoreProofs` | theorem about where the client stores completions | `SessionProofs` |
| `SessionRunProofs` | theorem that `Session` implements `RemoteRun` | `SessionStoreProofs` |
| `SessionEndProofs` | theorem about runs without faults | `SessionRunProofs` |
| `SvcControl` | several clients, the service manager, the file, the service processes | |
| `SvcControlProofs` | theorems about handles, and about sharing, removing and replacing a service | `SvcControl`, `TLAPS` |
| `ServerLoop` | the accept loop, several clients, a service that stops and starts | |
| `ServerLoopProofs` | theorems about `ServerLoop` | `ServerLoop`, `TLAPS` |
| `Text` | the lines of a connection, character by character | |
| `Requests` | abstract: what the SMB requests promise to async.c | |
| `Transport` | the requests of one SMB connection; implements `Requests` | `Requests` |
| `TransportProofs` | theorems about `Transport`, among them that it implements `Requests` | `Transport`, `TLAPS` |
| `MCConnection`, `MCSession`, `MCSvcControl`, `MCServerLoop`, `MCTransport` | small instances for TLC | |

### Pipes and Connection

`inst[p]` is the state of the one instance of each pipe, `c2s` and `s2c` its two
buffers. A read by the client returns everything in the buffer (byte pipes);
`FlushFileBuffers` is the guard `Flushed`; `DisconnectNamedPipe` and
`CloseHandle` empty the buffers, and the history variable `discarded` records
that this hit a client that was still connected.

`pc` names the next statement of the thread that somebody else can tell from
its neighbours; the labels `discerr ... closetoken` are the labels at the end of
`cmd_run` and `cont` is where `hprintf` returns to. A line on the control pipe is
a record of its verb and of what the command finds after the first blank.
`MayFail` is the set of Windows calls, and `malloc`, that may fail. When there is no memory
for the lines, the thread says so and returns with its control pipe open (`unserved`):
next to a token that a failed `RevertToSelf` leaves, this is the second of the two
exceptions `HandlesReleased` names. The message begins with `error:`, which is not the
word `error`, so winexe takes it for an unknown command, reads again and waits.
The client of `Connection` is not winexe: it opens, writes, reads and closes as the pipes allow (`AnyClient`);
`MaxQueued` bounds it for TLC only (`ClientNext`), and the theorems do without it.

### Client

One action per callback. `pending` is `transport->pending_recv`; a reply is
matched by operation, pipe and file number. A callback that calls
`svc_install` or `svc_uninstall` blocks in a nested event loop: `mode` is then
`install`, `reinstall` or `exiting`; signals and the timer still run there, other
completions do not, because the packet layer serialises them
(`lib/stream/packet.c`, `packet_recv`). No request can time out there, because none that
is pending has a timer (`TimedInv`: the timeout was cleared by the read before), and a lost
connection is not noticed, because `packet_recv` does not look at the socket while a
completion runs; so `RequestTimeout` and `TransportDead` are steps of the mode `loop`. `async_read` clears the timeout of the
transport (`reqTimeout`), and `io_read`, `io_write` hold the file number they
were first used with, 0 for NULL. `net` is `up`, `down` (lost, not noticed) and
`dead` (after `smbcli_transport_dead`); on a dead transport a request is
accepted and never completed.

### Session

`ServeX` actions are the SMB server, one request at a time and in order; a read of
an empty pipe is parked and answered later. The service is `down` (not there),
`starting` (RUNNING, but no control pipe) or `up`, in any version of `Versions`;
version 0 stands for a service without `get`. Here `svc_install` and
`svc_uninstall` are one step each: their steps are `SvcControl`'s.

`RunsRemotely` maps a session to `RemoteRun`: the command is the process, the
result is `return_code`, the caller is told once the client knows the code.
`RemoteRun` says that the command is started once, that it ends by itself or for
a caller who interrupted it or cannot be reached, that output is shown in order
and before the code is told, and that the code is the command's. The mapping
hides pipes, messages, versions and installations, and a run that ends without
the code is `Fail` or `Leave`.

What a client that dies leaves behind is the subject of `ServiceRests`: its thread
ends with everything released, or stays in one of two places (`Hung`). It waits
without a limit for a client to open a standard pipe, or the read that should tell
it of the loss of the client failed when it was made, and the process goes on.

A standard input that epoll refuses (a file, `/dev/null`) makes `tevent` fall back to
`select`, which serves the newest ready event only: standard input, for ever, also at
its end. The client then reads no reply any more, and does not notice a lost connection
(`Starved`): it may never end, and its thread stays in `FlushFileBuffers`. Which of the
two it is, is open when the pipe of standard input is opened, so `session_normal`
has both, and `AlwaysEnds` and `ServiceFollows` except the starved client. On a
terminal or a pipe end of file changes nothing but time: the event is served in its turn.

### SvcControl

`rec` is the record of the service manager with its deletion mark, `open` the
handles on it, `file` the file in `ADMIN$`, `procs` the processes. `cpc` is the
next remote call of a client; `ret` tells who called `svc_install` or
`svc_uninstall`, because only `on_ctrl_pipe_error` looks at the result. `flags` are the options, chosen
at the start among those of the run. The properties name what they take for granted as
definitions of their own: `Agreed` (the versions agree, also with what is on the
machine, and the types, and nobody removes the service), `AllRemoved` (nobody was killed,
or missed a call without which the service stays), `NoneReplaces`,
`Undisturbed` (one client, which reaches the service manager, and a process that exits
in time).

`Faults` says what may go wrong: a client is `kill`ed between two calls, an `upload`
breaks off, any other remote `call` fails, the service cannot `start` (its status goes from
START_PENDING to STOPPED), or its process is slow to exit (`slowexit`). A call that fails has done
nothing; one that was carried out and whose reply is lost is not modelled. What follows
is the code's: most failures return from `svc_install` or `svc_uninstall` (`CallFails`), with
the handle on the service left open; those of `ControlService`, `DeleteService` and
`CloseServiceHandle` in `svc_uninstall` are not looked at (`CallMissed`). A service that reported STOPPED has a
process still (`leaving`), which overlaps with one that is started next.
 Versions are compared as `on_ctrl_pipe_read` does, by their tens. 
`need` is `need_start`: `IOpen` gives it an arbitrary value, since the code gives it none.

### ServerLoop

`listener` is the instance in the hands of `server_loop`; between `LoopAccept` and
`LoopCreate` there is none, and an open in between is refused, or finds no name
when there is no other instance either (`OpenControl`). The threads are reduced to
the phases that matter to others: from `CreateNamedPipe` to `CloseHandle` they own
the names built from `pipe_nr`, and `CreateProcessAsUser` hands every inheritable
handle to the new process, also those of other connections (`holds`), which
outlive `Stop`. A thread makes its pipes inheritable just before `CreateProcessAsUser` and
closes them at its end, so those of a thread that is before the one or in the other may
be handed over or not (`MayInherit`). A `ConnectNamedPipe` that fails costs the client that
came its connection (`LoopAcceptFails`); the thread of a client may have no memory
(`ThreadUnserved`), and that client is the one case in which `NobodyWaits` lets somebody wait.
`Stop` ends the process at once: its overlap with the next one is in `SvcControl`. `pipe_nr` is kept as its two 16-bit halves because TLC's integers
have 32 bits. A client that was told a number may use it after its service was
stopped and started again.

`exotic` records that a process id came again modulo 2^16, or that a service had
2^16 connections: `OwnPipes` and `NamesFree` are false then and say so.

### Text

A text is a sequence of characters. `Lines` are what `on_ctrl_pipe_read` writes once
the version fits; `ReadLine` is one round of `handle_connection` with `hgets`, the
search of `cmd_table` and `cmd_set` or `cmd_run`; `ReadByte` is the read of the wait,
for which every character is an abort. `set implevel` and `get` are left out: the
first is never sent, the second is `Connection`'s. `AskedIsDone` says that the
process has the account and the command winexe was given; `Fits` and `Separable`
are exactly what that needs: lines of at most 32766 characters without an end of
line in them, and a name whose first slash (or, without one, backslash) ends the
domain and whose user has no percent sign.

### Transport

A request and a reply are two units long and may be transferred in parts.
`pending` is `transport->pending_recv` (newest first), `timed` the requests with
a timer, `queue` and `wire` what is still to be sent and what the server has.
`processing` is the lock of the packet layer: from the call of a completion
function to `CallbackReturns` further replies are put off (`RecvLater`), while
timeouts pass, requests are made and destroyed. A reply that is too short, of a bad size or a
bad signature ends its request with an error. `smbcli_transport_dead` tells the
newest request. `StdinAtEnd` is standard input that is a file: epoll refuses it,
`tevent` falls back to `select`, which handles the first ready event only, and the
socket is never looked at again (`starved`). A freed event that
`EVENT_FD_READABLE` is applied to after the socket died is taken to be without
effect.

`KeepsPromise` maps this to `Requests`, which knows neither mids nor queues: each
request is waiting, answered by its own reply, failed, withdrawn or refused; only
requests that reached the server, in the order they were made, are answered; the
loss of the line is told to the newest one only. `Timely` is an assumption on the
server: a request that was given up is answered before so many others are made
that its mid comes again. Nothing in the code checks it; with 65535 mids and at
most nine requests under way it is weak. `MidsSuffice` says how many mids that
takes: `Window` plus the requests under way are fewer than `MidSpace`, where mid 0 is
nobody's.

## Runs

| run | what it shows | bounds |
|---|---|---|
| `connection` | seven safety properties of the thread; the wait ends; a vanished client leaves nothing | one queued write, 13 kinds of lines, every call and `malloc` failing, one chunk per stream |
| `session_normal` | without faults client and thread end, with the process's code, under the account asked for, unless standard input starves the client | versions 0, 90, 100; three accounts; one chunk per stream; standard input that epoll takes or not, without data |
| `session_loss` | no timeout while running; at most one launch; the session implements `RemoteRun` | broken network, timeouts, failing `CreateProcess` and `malloc`, failing installs and one failing reinstall, slow start, versions 0 and 100 |
| `session_input` | no completion without its structure | two chunks typed, timeouts, versions 90 and 100 |
| `session_interrupt` | the session implements `RemoteRun`: the exit code is real, a process is terminated only for an interrupt | SIGINT at any time, versions 90 and 100 |
| `session_abort` | an abort takes effect; the service comes to rest after a client that died | SIGINT twice, the second at any time |
| `session_netloss` | **violated**, see findings | broken network |
| `svc_share` | agreeing clients coexist; removal is complete | two clients, interchangeable (symmetry); neither, both with `--uninstall` or `--interactive 1`, one with `--interactive 2`; kills, uploads that break off, every remote call failing; three starts |
| `svc_replace` | replaced once; `--reinstall` runs its own version; the client ends | one client, four sets of options, versions 90, 100, 105, both types, or a file without a service; uploads that break off, kill, services that do not come up |
| `svc_start` | **violated**, see findings | one client, no faults |
| `server_loop` | own thread, own pipes, free names, nobody waits; and what is asked is done | two clients, one of them run twice, one stop, three process ids, 0 or 65534 connections before, every call of the loop failing; texts of one character of four, lines of up to 15 |
| `transport` | mids, one completion, order, nothing forgotten, `Requests` implemented | four requests, two under way, three mids, two units, malformed replies |

Why the bounds are enough. A chunk stands for any amount of data: what matters is
whether a buffer is empty, so one chunk per stream separates "read" from "not
read", and two typed chunks let two writes overlap. Input is left to `session_input`,
since it multiplies the states of the others; for one version and one account
`AlwaysEnds` and `ServiceFollows` hold with a typed chunk too. One queued write of lines may
hold two lines, which is what winexe sends. A reinstallation meets the three
kinds of service: of the same version, of another, without `get`. In
`SvcControl`, `MaxStarts` cuts off behaviours in which two clients of
another type than the service they find go on restarting it; clients that agree with it
start it once or twice. In `svc_replace` a client that met the bound would be stuck and `ClientsEnd`
would fail, so it is not met there.

In `server_loop` the ids 4 and 65540 differ in their upper half only, and 65534
connections before let both clients take the number over 2^16: both cases in
which pipe names come again are met. One stop and one further run give a client a
number from a service that is gone, with a process that still holds its pipes. The
run is two in one: the accept loop and the text of the lines have no state in
common, and a behaviour is one of either. With `Limit` 15 instead of 32768 some
requests fit exactly, some with a character to spare, and some not at all. In
`transport` three mids make the fourth request meet the mids of the first ones,
and `Window` plus the requests under way are as many as the mids: with one more
`KeepsPromise` fails, by a late reply.

`CHECK_DEADLOCK FALSE` is set everywhere: both programs end.

Fairness. `WF(ThreadNext)`: the thread is an operating system thread that runs
when no call blocks it. In `FairSpec` the event loop of the client, the SMB
server and the service manager are fair too; the user, the process, the network
and every other fault are not. `EndingSpec` adds that the remote process ends,
without which winexe rightly waits for ever. `SvcFairSpec`: each client and each
kind of step of the service process; being killed is not fair. `LoopFairness`: the
loop, the threads and each client; leaving, stopping and the exit of a process are
not fair. `TransFairSpec`: the event loop looks at the socket and at its timers,
and completion functions return, which those of winexe do (a nested event loop
ends with its own requests); the server need not answer.

## Findings

- `session_netloss`: `libcli/raw/clitransport.c:143-146` says the caller "has to
  cope with only one network error". The request that is told is the one sent
  last; if it is the read of a standard pipe, `on_out_pipe_error` closes that
  pipe on the dead transport and nothing else ever happens: winexe hangs.
- `svc_start`: `need_start` (`winexe/service.c:257`) is never initialised. When the
  service exists, is stopped and has the right type, "Start, Creates, Install
  service if necccesary" starts it only if the stack happens to be nonzero. When
  it runs, a nonzero value makes `StartService` fail: the result is ignored in
  `main`, but not in `on_ctrl_pipe_error`.

A further disagreement has no run of its own: RUNNING is reported before the
control pipe exists (`winexesvc/service.c:130`), so with `--reinstall` a client that
opens the pipe in between uploads again, over a running file, fails and exits. The
behaviour is part of `SvcControl`.

The hazards in `PROJECT.json` list more places; those without a property say why.

## Proofs

All for every value of the constants, from the assumptions that the modules name.
Those say what the constants are and bound nothing: any number of clients,
requests, chunks, versions, accounts and faults, and any set of failing calls. A
few say more:

- `SvcAssumption`: there is a client;
- `SessionAssumption`: the version of the client is one of `Versions`, and the lines
  it writes are among `Writes`;
- `ServedAssumption` (for the names of pipes): the service process that runs at the
  start has not yet had 2^16 connections;
- `MidsSuffice` (for `KeepsPromise` alone): `Window` and the requests under way are
  fewer than the mids. It cannot be weakened: with `MidSpace` = 4 and both of them 2, a
  late reply finds its mid on a new request. The client has 65535 mids;
- `Smooth` (for `NormalEnd` alone): no call fails, no connection is lost and nobody
  interrupts (`MayFail`, `Faults` and `Signals` are empty, as in `session_normal`). With any
  fault the client may have to give up.

| module | theorems |
|---|---|
| `ConnectionProofs` | types; one message per read, nothing discarded, code after output; handles, account, impersonation |
| `SessionProofs` | types; the service keeps what `Connection` promises (`ServiceInvCorrect`); `RunsAsAskedCorrect`; `LongRunUntimedCorrect`; `RunAtMostOnceCorrect` |
| `SessionStoreProofs` | `NoNullDereferenceCorrect`: no completion is stored through a structure that was freed |
| `SessionRunProofs` | `RunsRemotelyCorrect`: `Session` implements `RemoteRun` |
| `SessionEndProofs` | `NormalEndCorrect`: without faults the client ends with the code of the process |
| `SvcControlProofs` | types; agreeing clients coexist; removal is complete; replaced once; `--reinstall` runs its own |
| `TransportProofs` | types; distinct mids, told once, in order; `Transport` implements `Requests` |
| `ServerLoopProofs` | types; a thread each; own pipes, free names |

None of these is inductive; what each proof adds is this.

**Connection.** "Nothing is discarded" needs to know that the output pipes are empty
at each label after the flushes, which needs the process to have ended there, which
needs to know that nobody starts it again: `ConnInv`. "Handles are released" needs
to know at which labels each handle may be open, and "runs as requested" what the
token is worth at each label of `get_token`: `OwnInv`.

**Session.** Types already say something here. `Wired(a)` are the requests of a client
for account `a`: it writes its three kinds of lines on the control pipe and input on
`in`. In `Replied` a read that succeeds is not empty, so that `on_ctrl_pipe_read` has a
first message, and only an open finds no name. For that the control pipe must hold
nothing but lines and the other way nothing but messages, also when the service is
replaced: the step `ServiceStep` is what any step of a session is for the service,
and `FreshInv` what a service is before its pipe exists. The invariants of
`Connection` then carry over (`ServiceInvCorrect`).

`RunsAsAsked` follows the options on their way. `AccountInv`: what the thread has
stored is what this client asked for or nothing; what is still in the control pipe is
`Orderly`, that is, no `run` comes before the `set` that belongs to it; and from `run`
on the settings are complete. The hard case is a reinstallation, which puts a fresh
thread under a client that has not written to it yet.

`LongRunUntimed` rests on `TimedInv`. As long as the timeout is on, the client has sent
nothing but opens of the control pipe (`FirstOpen`). The open that succeeds sends a
write and a read with the timeout, and the read turns it off. While the client waits
for the version (`AsksVersion`), the pending requests are the write, the read and what
`timer` adds, oldest first; and while the write is pending the server has not
answered it, or the answer is on the wire, before that to any read (`WriteFirst`).
So a read that completes finds the write answered, and leaves nothing with a
timeout; a failure of either ends the client.

`RunAtMostOnce` holds because the client never asks a second time: it sends `run` when
it has met a service of its own version, and from then on it does not reinstall. That
is true only if what it learns of the version is said by the service there is, and not
by the one it has replaced, whose answer may still be on the wire. `OnceInv` has five
parts:

- `ReadInv`: while the client waits for the version at most one read of the control
  pipe can still bring a message, wherever it is (`Live` on the wire to the server,
  parked there, `Fetched` on the way back), and while it opens or closes the pipe none;
- `GivenInv`: the file numbers of the control pipe that the client holds, or will be
  told, are ones the server has given out, so that a read sent on an earlier file can
  never reach the pipe that is opened next;
- `OpenInv`: there is one open of the control pipe in a round of the reinstallation,
  and none once it was answered;
- `VersionInv`: versions in the control pipe and in replies under way are those of the
  service that is installed, and a client that sent its command met a compatible one;
- `LaunchInv`: before that no line with `run` has been sent, is in the pipe or
  was read, and nothing was started; and a thread goes through its spawn once.

`NoNullDereference` is about all four pipes and both directions. async.c keeps one
`io_read` and one `io_write` for a pipe while several requests on it are under way, and
frees them on a close and on a failed write. What has to be shown is that where one is
freed no success is left to be stored there (`FreedInv`), wherever the request is: sent,
parked at the server, or answered. As any request may still be taken by the server, this
needs to know which ones it could answer well (`Alive`: on the file that is open now, and
for a write on an instance that has a client). `StoreInv` says so of every client that is
not on its way out, in six parts:

- `NumberInv`: what the client holds of a pipe, and whatever it has sent, is never ahead
  of the last file number the server gave out, and equal to it but for an open that was
  answered and not yet looked at. So a request that names an earlier file stays dead;
- `RoundInv`: one open of a pipe at a time, and one close of the control pipe, for its
  reinstallation: a second open would give the client a file number while requests on
  the first can still succeed;
- `CloseInv`: a close is asked for and answered last. After the answer to it nothing
  succeeds on that pipe, so that what `async_close_recv` frees is not needed;
- `TellInv`: `std_io_err` is told once, by a thread that has passed the labels
  `BeforeStdio`, and before it is looked at there is nothing of the standard pipes
  (`StdQuiet`). That there is only one rests on `OnceInv`: one start of the command;
- `StdInv`: hence each standard pipe is opened once, and a write on it that failed found
  the file closed or the instance gone, for good, so that no later one succeeds;
- `FreedInv` itself.

The actions of `SessNext` are not taken one at a time. To this invariant a step of the client
is a `Move` (what it looked at, what it sends, what it frees), one of the server is
`Served` (a request taken and settled, or a parked read that is due), any other, also the
loss of the connection, is
`Fades` (nothing is asked or answered, fewer requests can succeed). Each step is shown to be one of
the three, and each part to be preserved by the three.

`RunsRemotely` is the refinement: each step of a session is one of `RemoteRun`, or none.
It is a safety statement (what the caller sees is never wrong; that something is seen
is for the liveness properties) and holds for any faults. Two chains of events have to be
followed from end to end.

The way there: the command runs undisturbed until its caller interrupts it or cannot be
reached (`Cut`). The thread ends a running command when its read on the control pipe
is signalled, so nothing may come behind the `run` line, and the pipe must not close.
`LineInv` says so; it needs that one answer to `get version` exists at most, as the
client sends its command on each of them (`AskInv`), that the pipe is open when the
client learns so (`HeldInv`), and what there is before the command (`IdleInv`).

The way back: `FlowInv` counts. What the process wrote on a pipe is what was shown, plus
what the one answer under way has, plus what is in the pipe; there is one read of each
output pipe at most, and the client still waits for it (`OutReadInv`). Both hold as long
as the client is not on its way out. `CodeInv` follows the code: every
`return_code` on its way is `ec`, which is the code of the process, or -2 when the
command was cut off; while one is on its way the process has ended and the output
pipes were drained. As an answer with the code is behind those with the output on the
wire (`Flow`), everything is shown by the time the code is told.

Together they are `RunInv`. It is shown for the service by what a step does to each
pipe (`PipeMoves`, `ReadsMove`), and for the client in the way of `StoreInv`: most
callbacks are `Quiet` (they send nothing that the parts speak of) and `Learns` (the
caller learns nothing but that the client gives up). The three that are not, the open of the
control pipe, a message on it and a piece of output, are looked at one by one.

`NormalEnd` says that without faults nothing makes the client give up: it exits with the
code of the process and at no other time. Every error path of the callbacks has to be
shown unreachable in such a run, and those that belong to it (no service yet,
another version of it, the close that lets it be replaced) to lead back. `SmoothInv`
describes the run until the code is known; after that only `return_code = pcode` is left to say.

- `TalkInv`: client and service take turns on the control pipe. Before more is written
  what was written is answered, and what is read is what the state of the client expects;
- `OpeningInv`: one open of the control pipe, and it finds the instance that listens, or
  no name while there is no service;
- `ReadingInv` and `FileInv`: as long as the pipe is open one read of it is under way, on
  the file that is open, and it succeeds with a single message;
- `ClosingInv`: when the pipe is closed for a reinstallation, the close is answered
  before the parked read fails. The client looks at the failure when it is opening the new
  service and ignores it; in the other order it would still be closing, and exit;
- `StdFineInv`: a request on a standard pipe finds its instance listening, when it is the
  open, or its own file, until the thread has disconnected the pipe; the thread does so
  when it is about to report the code, and what fails then is only closed;
- `PathInv`: a thread that leaves the normal path has a code to report;
- `FineInv`: no abort and no timeout, and a service is installed only where there is none.

That a code which arrives is the code of the process is `CodeInv` of `RunInv`. Steps that
leave the control pipe alone (`Aside`, with `Alike` sequences of requests and replies) keep
all but the two last parts at once; the others are taken one at a time.

**SvcControl.** `HandleInv` and `HeldInv`: a client between opening and closing has a
handle, and a record with an open handle stays, marked or not. `ProcInv`: processes
and the state of the record belong together. `CallInv`: who called `svc_install` or
`svc_uninstall` at which label. On these rest

- `AgreeInv` and `VersionInv`: agreeing clients are at none of the labels that stop,
  configure or remove, the record is of the type all of them want, no process is
  leaving, and no file or process has a version that somebody would replace;
- `RemoveInv`, `UploadInv` and `FileInv`: once every client is on its way out, one of
  them still has the record, or the file, to remove; only one that was excused (killed,
  failed or unable to make its call) leaves it behind. `FileInv` says which client that is:
  where the record is in use (`BusyFile`), where nobody has a handle on it (`UnheldFile`), and where
  it is marked for deletion (`MarkedFile`);
- `ReplaceInv`: after its replacement a client finds file and processes of its own
  version only (`OwnOnly`), so that it does not replace again; or nothing but a file
  that its own upload has yet to write over (`Stale`).

**Transport.** `ListOK` relates the list, the timers and the states of requests: what is
on the list is in state `recv`, a timer belongs to a request on the list, and what was
told is done or in error. With it mids stay distinct, because a new one is chosen
among those no request on the list has, and a second completion is impossible.
`OrderOK` says that what the server has and what is queued are together all requests in
order, as long as the link is up, and that the socket is given up only when it is not.
For the refinement `LapInv` measures how far the mid counter has come since a request
was made: less than one lap within `Window` requests, as each of those and each older
one that waits accounts for one step. `ReplyInv` is what follows: a request whose
reply may still come shares its mid with none that waits, so a reply completes its
own request. `FateInv` ties the states to the wire: done means answered by its own reply.

**ServerLoop.** `Placed` says where a client is when a thread or the listening instance
is its own; without it a client could open a second connection. `OwnPipes` and
`NamesFree` hold as long as `exotic` is empty. `NameInv` calls a name *spent* when no
connection to come can have it: its process is an older one, or its number has been
given out (`FreshName`). `Told`: what a client was told is spent, and the number of its
own thread if of any. `Held`: what a process holds is spent, and the number of no
thread that has yet to create its pipes. `Apart` is what an empty `exotic` means:
process ids differ modulo 2^16 and the connection counter is below it.

Model-checked only: liveness, above all that a run without faults does end
(fairness and ENABLED are out of the prover's reach); and `AskedIsDone`, because texts
would need induction.

## Abstractions

- The text of messages: in `Connection` a line is its verb and argument (its
  characters are `Text`'s), an error message longer than the 256 bytes of one read
  and the printing of numbers are left out. `return_code` is sent as 32 bits and
  `exit` keeps 8 of them: the models stop at `return_code`.
- The write queue of async.c (`c->wq`) is unreachable and left out.
- In `Client` replies are matched by operation, pipe and file number instead of
  the mid, which `DistinctMids` and `KeepsPromise` justify; requests are sent at
  once and whole, which `WireInOrder` and `AllSent` justify.
- The polling timer is a step only when an abort was requested. In `Client` end of
  file on standard input is not a step, because it sends nothing and keeps the event;
  what it does to the event loop is `Starved`, and `StdinAtEnd` in `Transport`.
- The remote process is one process; grandchildren that keep the pipes open are
  left out, and `TerminateProcess` takes effect at once.
- An error path that frees what was never allocated for lack of memory is left
  out, and so are the two mallocs of `server_loop` that nobody checks.
- Replies that arrive while `exit_program` is at work are not looked at.
- `cmd_run` has one outstanding read on the control pipe; its buffer on the stack
  and the shared OVERLAPPED are left out.
- STOP_PENDING does not occur: the handler reports STOPPED at once. The waits of
  service.c then end at their first look, or the service is in another state.
- The 300 ms in `svc_uninstall` suffice for the process to exit, unless
  `slowexit` is among the faults.

## Not modelled

- `CreatePipesSA` (one constant; its failure is an end of `server_loop`), `bin2c` and
  the embedded executables (generated).
- The popt tables of `parse_args` and the file of `--runas-file`: they set the
  constants and texts the models start from.
- Of the transport: the session request, echo, oplock breaks, `readbraw` and
  signing, and the replies in parts of a `recv_helper`, which only transactions have: winexe does not
  use them or they only change the bytes; connecting
  and logging on, which happen before the first pipe is opened.
- The rest of Samba. The repository bundles a whole Samba 4 tree (over 3000 files of
  C, half of them generated marshalling code), of which winexe is four source files
  and the service two; so the models cover nearly all of the program's own code
  and a very small share of the repository.

## What is left

1. `SaveFile`: the upload write by write, which `SvcControl`'s `ISave` abstracts.
2. `SvcControl`'s clients as an implementation of what `Session` and `ServerLoop`
   take `svc_install` to be.
