------------------------------ MODULE Session -------------------------------
(***************************************************************************)
(* One run of winexe: a Client and a Connection joined by the SMB server   *)
(* of the remote machine, which carries out the requests of one TCP        *)
(* connection in order and keeps a read of an empty pipe until there is    *)
(* something to answer.  The service may be down, starting or up when the  *)
(* client begins, in any version.                                          *)
(***************************************************************************)
EXTENDS Connection, Client

CONSTANTS
    Faults,         \* what may go wrong around the two programs
    MaxOut,         \* chunks the process writes on each stream
    MaxIn,          \* chunks the user types
    MaxReinstall    \* reinstallations that leave the old service in place

FaultKinds == {"net",        \* the TCP connection is lost
               "timeout",    \* a request is not answered in 60 seconds
               "install",    \* svc_install fails
               "reinstall",  \* svc_uninstall or svc_install fails unnoticed
               "kill",       \* a signal comes while its action is the default
               "slow"}       \* RUNNING is reported before the pipe exists

ASSUME SessionAssumption ==
    /\ Faults \subseteq FaultKinds
    /\ MaxOut \in Nat /\ MaxIn \in Nat /\ MaxReinstall \in Nat
    /\ VERSION \in Versions
    /\ {GetVersion, Abort} \union {RunCommandOf(a) : a \in Asked} \subseteq Writes

VARIABLES
    svc,        \* "down" (not there), "starting" (no control pipe yet) or "up"
    srvOpen,    \* pipes the SMB server holds open for the client
    srvFnum,    \* the file number given to the last open of each pipe
    parked,     \* pipes with a read that waits in the SMB server for data
    wrote,      \* history: chunks the process wrote on each output stream
    launches,   \* history: how often CreateProcessAsUser was called
    reinstalls  \* reinstallations that failed, up to MaxReinstall

srvVars == <<srvOpen, srvFnum, parked>>
histVars == <<wrote, launches, reinstalls>>
sessVars == <<connVars, clientVars, svc, srvVars, histVars>>

Starting == {"up"} \union (IF "slow" \in Faults THEN {"starting"} ELSE {})

SessInit ==
    /\ svc \in Starting \union {"down"}
    /\ inst = NewPipes(svc = "up")
    /\ ThreadInit
    /\ ClientInit
    /\ srvOpen = {}
    /\ srvFnum = [p \in Pipe |-> 0]
    /\ parked = {}
    /\ wrote = [p \in {"out", "err"} |-> 0]
    /\ launches = 0
    /\ reinstalls = 0

----------------------------------------------------------------------------
\* The SMB server.

Answer(op, p, f, status, data) ==
    [op |-> op, pipe |-> p, fnum |-> f, status |-> status, data |-> data]

\* Answers do not reach a client that is gone.
Answers(rs) == toCli' = IF net = "up" /\ mode \notin Gone THEN toCli \o rs ELSE toCli

Query == Head(toSrv)
Valid == Query.pipe \in srvOpen /\ srvFnum[Query.pipe] = Query.fnum
Serve(op) == toSrv # <<>> /\ Query.op = op /\ toSrv' = Tail(toSrv)
Result(status, data) == Answers(<<Answer(Query.op, Query.pipe, Query.fnum, status, data)>>)
Refuse(status) == Result(status, <<>>) /\ UNCHANGED <<pipeVars, srvVars>>

ServeOpen ==
    /\ Serve("open")
    /\ \/ /\ ClientOpen(Query.pipe)
          /\ srvOpen' = srvOpen \union {Query.pipe}
          /\ srvFnum' = [srvFnum EXCEPT ![Query.pipe] = @ + 1]
          /\ Answers(<<Answer("open", Query.pipe, srvFnum[Query.pipe] + 1, "ok", <<>>)>>)
          /\ UNCHANGED parked
       \/ inst[Query.pipe] # "listen" /\ Refuse("notfound")

ServeWrite ==
    /\ Serve("write")
    /\ \/ /\ Valid
          /\ ClientWrite(Query.pipe, Query.items)
          /\ Result("ok", <<>>)
          /\ UNCHANGED srvVars
       \/ Valid /\ inst[Query.pipe] # "conn" /\ Refuse("broken")
       \/ ~Valid /\ Refuse("invalid")

ServeRead ==
    /\ Serve("read")
    /\ \/ /\ Valid
          /\ parked' = parked \union {Query.pipe}
          /\ UNCHANGED <<pipeVars, srvOpen, srvFnum, toCli>>
       \/ ~Valid /\ Refuse("invalid")

\* A read that waits is answered when there is data, or the service has
\* disconnected the pipe.
AnswerRead ==
    /\ \E p \in parked :
          /\ \/ /\ ClientRead(p)
                /\ Answers(<<Answer("read", p, srvFnum[p], "ok", s2c[p])>>)
             \/ /\ inst[p] # "conn"
                /\ Answers(<<Answer("read", p, srvFnum[p], "broken", <<>>)>>)
                /\ UNCHANGED pipeVars
          /\ parked' = parked \ {p}
    /\ UNCHANGED <<srvOpen, srvFnum, toSrv>>

\* Closing a file cancels the read that waits on it.
ServeClose ==
    /\ Serve("close")
    /\ \/ /\ Valid
          /\ Answers((IF Query.pipe \in parked
                      THEN <<Answer("read", Query.pipe, Query.fnum, "cancelled", <<>>)>>
                      ELSE <<>>)
                     \o <<Answer("close", Query.pipe, Query.fnum, "ok", <<>>)>>)
          /\ parked' = parked \ {Query.pipe}
          /\ srvOpen' = srvOpen \ {Query.pipe}
          /\ IF inst[Query.pipe] = "conn" THEN ClientClose(Query.pipe) ELSE UNCHANGED pipeVars
          /\ UNCHANGED srvFnum
       \/ ~Valid /\ Refuse("invalid")

\* The TCP connection has ended: the server closes the files of the client.
Hangup ==
    /\ mode \in Gone \/ net # "up"
    /\ toSrv = <<>>
    /\ srvOpen # {}
    /\ ClientVanish(srvOpen)
    /\ srvOpen' = {}
    /\ parked' = {}
    /\ UNCHANGED <<srvFnum, toSrv, toCli>>

ServerNext ==
    /\ ServeOpen \/ ServeWrite \/ ServeRead \/ AnswerRead \/ ServeClose \/ Hangup
    /\ UNCHANGED <<threadVars, stateVars, ioVars, pending, reqTimeout, sigVars,
                   userVars, net, svc, histVars>>

\* What was on the wire is lost, or still arrives.
NetFail ==
    /\ "net" \in Faults
    /\ net = "up" /\ mode \notin Gone
    /\ net' = "down"
    /\ toSrv' \in {toSrv, <<>>}
    /\ toCli' \in {toCli, <<>>}
    /\ UNCHANGED <<connVars, stateVars, ioVars, pending, reqTimeout, sigVars,
                   userVars, svc, srvVars, histVars>>

----------------------------------------------------------------------------
\* The service control calls of the client, as seen by this session; the
\* steps inside them are the subject of another module.

\* A service process of version v: no connection thread, no standard pipes.
Restart(s, v) ==
    /\ svc' = s
    /\ ver' = v
    /\ inst' = NewPipes(s = "up")
    /\ c2s' = [p \in Pipe |-> <<>>]
    /\ s2c' = [p \in Pipe |-> <<>>]
    /\ pc' = "idle" /\ cont' = "done"
    /\ settings' = {} /\ token' = "none" /\ imp' = FALSE /\ handles' = {}
    /\ proc' = "none" /\ runner' = "none" /\ pcode' = 0 /\ ec' = 0 /\ ovl' = "idle"
    /\ UNCHANGED discarded

\* svc_install creates and starts a service that is not there, with the
\* winexesvc.exe it finds, whatever its version.  A service that is there, but
\* had no pipe yet, is waited for, or svc_install fails because it tries to
\* start it: that is up to a need_start that was never given a value.
InstallOk ==
    /\ Installed(TRUE)
    /\ \/ svc = "down" /\ \E s \in Starting, v \in Versions : Restart(s, v)
       \/ svc # "down" /\ UNCHANGED <<connVars, svc>>
    /\ UNCHANGED <<srvVars, histVars>>

InstallFails ==
    /\ Installed(FALSE)
    /\ svc # "down" \/ "install" \in Faults
    /\ UNCHANGED <<connVars, svc, srvVars, histVars>>

\* server_loop creates the control pipe after the status became RUNNING.
ServerLoopReady ==
    /\ svc = "starting"
    /\ svc' = "up"
    /\ inst' = NewPipes(TRUE)
    /\ UNCHANGED <<c2s, s2c, discarded, threadVars, clientVars, srvVars, histVars>>

ReinstallOk ==
    /\ Reinstalled
    /\ \E s \in Starting : Restart(s, VERSION)
    /\ UNCHANGED <<srvVars, histVars>>

ReinstallFails ==
    /\ "reinstall" \in Faults /\ reinstalls < MaxReinstall
    /\ reinstalls' = reinstalls + 1
    /\ Reinstalled
    /\ \E s \in {"up", "down"} : Restart(s, ver)
    /\ UNCHANGED <<srvVars, wrote, launches>>

----------------------------------------------------------------------------
\* The two programs and the process.

ThreadStep ==
    /\ ThreadNext
    /\ launches' = IF pc = "spawn" THEN launches + 1 ELSE launches
    /\ UNCHANGED <<clientVars, svc, srvVars, wrote, reinstalls>>

ProcWriteStep ==
    /\ \E p \in {"out", "err"} :
          /\ wrote[p] < MaxOut
          /\ ProcWrite(p)
          /\ wrote' = [wrote EXCEPT ![p] = @ + 1]
    /\ UNCHANGED <<clientVars, svc, srvVars, launches, reinstalls>>

ProcReadStep == ProcRead /\ UNCHANGED <<clientVars, svc, srvVars, histVars>>

ProcExitStep ==
    /\ \E code \in ExitCodes : ProcExit(code)
    /\ UNCHANGED <<clientVars, svc, srvVars, histVars>>

Remote == <<connVars, svc, srvVars, histVars>>

CompletionStep == Completion /\ UNCHANGED Remote
TimeoutStep == "timeout" \in Faults /\ RequestTimeout /\ UNCHANGED Remote
DeadStep  == TransportDead /\ UNCHANGED Remote
StdinStep == typed < MaxIn /\ StdinRead /\ UNCHANGED Remote
TimerStep == Timer /\ UNCHANGED Remote
SignalStep ==
    /\ \E s \in Signals : (s \in caught \/ "kill" \in Faults) /\ Signal(s)
    /\ UNCHANGED Remote
InstallStep == InstallOk \/ InstallFails \/ ReinstallOk \/ ReinstallFails
ExitStep  == Exit /\ UNCHANGED Remote

SessNext ==
    \/ ServerNext \/ NetFail
    \/ ThreadStep \/ ProcWriteStep \/ ProcReadStep \/ ProcExitStep
    \/ CompletionStep \/ TimeoutStep \/ DeadStep
    \/ StdinStep \/ TimerStep \/ SignalStep
    \/ InstallStep \/ ServerLoopReady \/ ExitStep

\* Fair: both programs, the SMB server and the service manager.  Not fair:
\* the user, the remote process and every fault.
SessFairness ==
    /\ WF_sessVars(ServerNext)
    /\ WF_sessVars(ThreadStep)
    /\ WF_sessVars(CompletionStep)
    /\ WF_sessVars(~Starved /\ DeadStep)
    /\ WF_sessVars(TimerStep)
    /\ WF_sessVars(InstallStep)
    /\ WF_sessVars(ServerLoopReady)
    /\ WF_sessVars(ExitStep)

SessSpec == SessInit /\ [][SessNext]_sessVars
FairSpec == SessSpec /\ SessFairness

\* The remote process ends some time.
EndingSpec == FairSpec /\ WF_sessVars(ProcExitStep)

----------------------------------------------------------------------------
\* Properties of a whole run.

ReqOp == {"open", "read", "write", "close"}

\* A pending request, a request and a reply on the wire.  What the client
\* writes depends on the account a it was asked to use.
Waiting == [op : ReqOp, pipe : Pipe, fnum : Nat, timed : BOOLEAN]
Wired(a) ==
    {q \in [op : ReqOp, pipe : Pipe, fnum : Nat,
            items : {<<>>, GetVersion, Abort, RunCommandOf(a), Input}] :
        q.op = "write" => \/ q.pipe = "ctrl" /\ q.items \in {GetVersion, Abort, RunCommandOf(a)}
                          \/ q.pipe = "in" /\ q.items = Input}
Replied ==
    {r \in [op : ReqOp, pipe : Pipe, fnum : Nat, data : Seq(Message),
            status : {"ok", "notfound", "invalid", "broken", "cancelled"}] :
        /\ r.op = "read" /\ r.status = "ok" => r.data # <<>>
        /\ r.status = "notfound" => r.op = "open"}

ClientTypeOK ==
    /\ account \in Asked
    /\ state \in {"OPENING", "GETTING_VERSION", "RUNNING", "CLOSING_FOR_REINSTALL"}
    /\ activated \in BOOLEAN /\ return_code \in Nat
    /\ mode \in {"loop", "install", "reinstall", "exiting"} \union Gone
    /\ fd \in [Pipe -> Nat] /\ io_read \in [Pipe -> Nat] /\ io_write \in [Pipe -> Nat]
    /\ pending \in Seq(Waiting) /\ reqTimeout \in BOOLEAN
    /\ abort_requested \in BOOLEAN /\ caught \subseteq {"SIGINT", "SIGTERM"}
    /\ timers \in Nat /\ abortSent \in BOOLEAN
    /\ stdinEv \in {"none", "epoll", "select"} /\ typed \in 0..MaxIn
    /\ shown \in [{"out", "err"} -> Nat] /\ codeSeen \in BOOLEAN
    /\ net \in {"up", "down", "dead"}
    /\ toSrv \in Seq(Wired(account)) /\ toCli \in Seq(Replied)

ServerTypeOK ==
    /\ svc \in {"down", "starting", "up"}
    /\ srvOpen \subseteq Pipe /\ parked \subseteq srvOpen
    /\ srvFnum \in [Pipe -> Nat]
    /\ wrote \in [{"out", "err"} -> 0..MaxOut]
    /\ launches \in Nat /\ reinstalls \in 0..MaxReinstall

SessTypeOK == ConnTypeOK /\ ClientTypeOK /\ ServerTypeOK

\* No completion is stored through an io_read or io_write that a failed write
\* or a close of the same pipe has freed, although requests overlap freely.
NoNullDereference ==
    (Receiving /\ toCli # <<>> /\ Stores(Reply)) => Target(Reply) # 0

\* The service is made to start the command at most once, also across
\* reinstallations and after error messages that arrive late.
RunAtMostOnce == launches <= 1

\* While the command runs no request is subject to the 60 seconds timeout,
\* which would end a client that waits for a command that takes longer.
LongRunUntimed ==
    state = "RUNNING" => \A i \in DOMAIN pending : ~pending[i].timed

\* The command runs under the account that --runas and --system ask for.
RunsAsAsked == proc # "none" => runner = account

\* Without faults a client only exits with the code of the process, whatever
\* version of the service it finds and replaces.
NormalEnd == mode \in Gone => codeSeen /\ return_code = pcode

\* ... and it does exit, and its service thread has ended and released
\* everything by then or later, unless standard input is a file or /dev/null:
\* then it may wait for ever, and its thread with it.
AlwaysEnds == <>(mode = "exited" \/ Starved)
ServiceFollows == <>[]((pc = "done" /\ handles = {}) \/ Starved)

\* An interrupt that was sent on to the service ends the process, even when a
\* second one kills the client; abortSent stays true and no process is started
\* again, so the end is for good.
AbortEndsProcess == abortSent ~> proc # "running"

\* Client, SMB server and service together run one command as RemoteRun says:
\* started at most once, ended only by itself or for a caller that interrupted
\* it or cannot be reached, the code told after all of the output.
Caller == CASE mode \in Gone -> "gone"
            [] mode \notin Gone /\ codeSeen -> "told"
            [] mode = "exiting" /\ ~codeSeen -> "failing"
            [] OTHER -> "waits"

Remotely == INSTANCE RemoteRun WITH
    Stream <- {"out", "err"}, Code <- ExitCodes, Initial <- InitialCode, Failure <- 1,
    command <- proc, code <- pcode, written <- wrote, caller <- Caller,
    result <- return_code, cut <- abortSent \/ net # "up" \/ mode \in Gone

RunsRemotely == Remotely!RemoteSpec

\* Once the client has gone, the service comes to rest: its thread has released
\* everything, or hangs in one of two places nothing gets it out of.  It waits for
\* a client to open a standard pipe, or the read that should tell it of the end
\* of the client failed when it was made, and the process goes on.
Hung ==
    \/ pc = "connin" /\ inst["in"] = "listen"
    \/ pc = "connout" /\ inst["out"] = "listen"
    \/ pc = "connerr" /\ inst["err"] = "listen"
    \/ pc = "wait" /\ ovl = "failed" /\ proc = "running"

ServiceRests ==
    <>[](mode \in Gone => pc = "idle" \/ (pc = "done" /\ handles = {}) \/ Hung)

\* "The caller has to cope with only one network error"
\* (smbcli_transport_dead): a client that is told of it ends.
NetworkErrorEnds == net = "dead" ~> mode \in Gone
=============================================================================
