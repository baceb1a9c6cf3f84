----------------------------- MODULE SvcControl ------------------------------
(***************************************************************************)
(* How winexe clients install, start, stop and remove the winexesvc        *)
(* service: svc_install, svc_UploadService and svc_uninstall of service.c, *)
(* one remote call at a time, for several clients of one machine; the      *)
(* places in winexe.c that call them; and the start and stop of the        *)
(* service process (winexesvc/service.c).                                  *)
(*                                                                         *)
(* The session itself, the subject of Session, is reduced to what the      *)
(* service calls depend on: the control pipe opens or not, the version     *)
(* fits or not, the session ends or is cut off.                            *)
(***************************************************************************)
EXTENDS Naturals

CONSTANTS
    Client,
    ClientVersion,  \* version of each client, and of the service it carries
    Options,        \* the options the clients may be given, a set of functions
    Present,        \* versions of the service that may be on the machine
    Types,          \* whether that service may be interactive
    Faults,         \* what may go wrong, see FaultKinds
    MaxStarts       \* bound on the starts of the service

OptionKinds == {"reinstall",    \* --reinstall     (SVC_FORCE_UPLOAD)
                "uninstall",    \* --uninstall     (SVC_UNINSTALL)
                "interactive",  \* --interactive 1 (SVC_INTERACTIVE)
                "ignore"}       \* --interactive 2 (SVC_IGNORE_INTERACTIVE)
FaultKinds == {"kill",      \* a client is killed
               "upload",    \* the upload of the file breaks off
               "call",      \* another remote call fails, and does nothing
               "start",     \* the service cannot create its thread
               "slowexit"}  \* a stopped service needs more than 300 ms to exit

ASSUME SvcAssumption ==
    /\ Client # {} /\ ClientVersion \in [Client -> Nat \ {0}]
    /\ Options \subseteq [Client -> SUBSET OptionKinds]
    /\ Present \subseteq Nat \ {0} /\ Types \subseteq BOOLEAN
    /\ Faults \subseteq FaultKinds
    /\ MaxStarts \in Nat

VARIABLES
    file,       \* winexesvc.exe in ADMIN$: its version (0: none), and
                \* whether all of it is there
    rec,        \* the record of the service in the service manager
    open,       \* how many handles on that record each client holds
    procs,      \* the service processes that have not exited
    starts,     \* processes so far; the number names the newest
    flags,      \* the options of each client
    cpc,        \* the next remote call of each client
    ret,        \* who has called svc_install or svc_uninstall
    need,       \* need_start of svc_install
    active,     \* the static flag of on_ctrl_pipe_error
    conn,       \* the process the control pipe leads to, 0 for none
    reinst,     \* history: how often a client replaced the service
    result      \* history: how its session ended, and what hindered it

recVars     == <<rec, open>>
procVars    == <<procs, starts>>
callVars    == <<flags, cpc, ret, active, conn, reinst, result>>
svcVars     == <<file, recVars, procVars, callVars, need>>

NoFile   == [ver |-> 0, whole |-> FALSE]
NoRecord == [exists |-> FALSE, state |-> "stopped", interactive |-> FALSE,
             marked |-> FALSE]

SvcInit ==
    /\ \/ /\ rec = NoRecord /\ procs = {} /\ starts = 0
          /\ \/ file = NoFile
             \/ \E v \in Present : file = [ver |-> v, whole |-> TRUE]
             \/ "upload" \in Faults /\ \E v \in Present : file = [ver |-> v, whole |-> FALSE]
       \/ \E v \in Present, i \in Types, running \in BOOLEAN :
             /\ file = [ver |-> v, whole |-> TRUE]
             /\ rec = [exists |-> TRUE, interactive |-> i, marked |-> FALSE,
                       state |-> IF running THEN "running" ELSE "stopped"]
             /\ procs = IF running
                        THEN {[id |-> 1, ver |-> v, phase |-> "running", pipe |-> TRUE]}
                        ELSE {}
             /\ starts = IF running THEN 1 ELSE 0
    /\ open = [c \in Client |-> 0]
    /\ flags \in Options
    /\ cpc = [c \in Client |-> "main"]
    /\ ret = [c \in Client |-> "main"]
    /\ need = [c \in Client |-> FALSE]
    /\ active = [c \in Client |-> FALSE]
    /\ conn = [c \in Client |-> 0]
    /\ reinst = [c \in Client |-> 0]
    /\ result = [c \in Client |-> {}]

Gone(c) == cpc[c] = "gone"
Has(c, o) == o \in flags[c]

----------------------------------------------------------------------------
\* The service manager and the file system of the machine.

\* A record that is marked for deletion goes once the service is stopped and
\* nobody holds a handle on it.
SetRecord(r, o) ==
    /\ open' = o
    /\ rec' = IF r.marked /\ r.state = "stopped" /\ \A c \in Client : o[c] = 0
              THEN NoRecord ELSE r
SetState(s) == SetRecord([rec EXCEPT !.state = s], open)
OpenHandle(c)  == [open EXCEPT ![c] = @ + 1]
CloseHandle(c) == [open EXCEPT ![c] = @ - 1]

Writers == {c \in Client : cpc[c] = "i_save"}

\* winexesvcCtrlHandler reports STOPPED at once; the process then leaves
\* StartServiceCtrlDispatcher and main.
StopService ==
    /\ SetState("stopped")
    /\ procs' = {IF p.phase = "running" THEN [p EXCEPT !.phase = "leaving"] ELSE p : p \in procs}
    /\ UNCHANGED starts

\* The service manager runs the file, when it can be run at all.
Startable == /\ rec.state = "stopped" /\ ~rec.marked
             /\ file.whole /\ Writers = {}
StartProcess ==
    /\ starts < MaxStarts
    /\ starts' = starts + 1
    /\ procs' = procs \union {[id |-> starts + 1, ver |-> file.ver,
                               phase |-> "starting", pipe |-> FALSE]}
    /\ SetState("starting")

----------------------------------------------------------------------------
\* The service process.

\* winexesvcStart: server_loop has a thread, the status becomes RUNNING.
ReportRunning(p) ==
    /\ p.phase = "starting"
    /\ procs' = (procs \ {p}) \union {[p EXCEPT !.phase = "running"]}
    /\ SetState("running")
    /\ UNCHANGED <<file, starts, callVars, need>>

\* ... or it has none, and the status becomes STOPPED, as it does in the service
\* manager when RegisterServiceCtrlHandler fails and the process just ends.
ReportStopped(p) ==
    /\ "start" \in Faults
    /\ p.phase = "starting" /\ ~p.pipe
    /\ procs' = (procs \ {p}) \union {[p EXCEPT !.phase = "failed"]}
    /\ SetState("stopped")
    /\ UNCHANGED <<file, starts, callVars, need>>

\* server_loop: the control pipe is there, before or after that.
PipeReady(p) ==
    /\ ~p.pipe /\ p.phase # "failed"
    /\ procs' = (procs \ {p}) \union {[p EXCEPT !.pipe = TRUE]}
    /\ UNCHANGED <<file, recVars, starts, callVars, need>>

Ending == {"leaving", "failed"}
ProcessExit(p) ==
    /\ p.phase \in Ending
    /\ procs' = procs \ {p}
    /\ UNCHANGED <<file, recVars, starts, callVars, need>>

----------------------------------------------------------------------------
\* winexe: the calls of svc_install and svc_uninstall.

Goto(c, l) == cpc' = [cpc EXCEPT ![c] = l] /\ UNCHANGED flags

Jump(c, l) == Goto(c, l) /\ UNCHANGED <<ret, active, conn, reinst, result>>

Call(c, l, r) ==
    /\ Goto(c, l)
    /\ ret' = [ret EXCEPT ![c] = r]

Note(c, how) == result' = [result EXCEPT ![c] = @ \union {how}]

exit_program(c, how) ==
    /\ Note(c, how)
    /\ IF Has(c, "uninstall") THEN Call(c, "u_open", "exit") ELSE Call(c, "leave", "exit")
    /\ UNCHANGED <<active, reinst>>

\* main after svc_uninstall: the result is not looked at.
MainInstall(c) ==
    IF Has(c, "ignore") THEN Call(c, "opening", "main_install")
                        ELSE Call(c, "i_upload", "main_install")

\* Mutant: the failed installation is neither noticed nor remembered.
ReturnRetries(c, ok) ==
    \/ /\ ret[c] = "main"
       /\ MainInstall(c)
       /\ UNCHANGED <<active, conn, reinst, result>>
    \/ /\ ret[c] = "reinstall"
       /\ Call(c, "i_upload", "reinstall_install")
       /\ UNCHANGED <<active, conn, reinst, result>>
    \/ /\ ret[c] \in {"main_install", "reinstall_install", "error"}
       /\ Jump(c, "opening")
    \/ /\ ret[c] = "exit"
       /\ Jump(c, "leave")

\* svc_install and svc_uninstall return; only on_ctrl_pipe_error looks at the
\* result.
Return(c, ok) ==
    \/ /\ ret[c] = "main"
       /\ MainInstall(c)
       /\ UNCHANGED <<active, conn, reinst, result>>
    \/ /\ ret[c] = "reinstall"
       /\ Call(c, "i_upload", "reinstall_install")
       /\ UNCHANGED <<active, conn, reinst, result>>
    \/ /\ ret[c] \in {"main_install", "reinstall_install"}
       /\ Jump(c, "opening")
    \/ /\ ret[c] = "error" /\ ok
       /\ active' = [active EXCEPT ![c] = TRUE]
       /\ Goto(c, "opening")
       /\ UNCHANGED <<ret, conn, reinst, result>>
    \/ /\ ret[c] = "error" /\ ~ok
       /\ exit_program(c, "failed")
       /\ UNCHANGED conn
    \/ /\ ret[c] = "exit"
       /\ Jump(c, "leave")

\* A call that its function cannot do without fails, and has done nothing; at
\* the end of the program the service then stays.
Unreached(c) ==
    \/ /\ ret[c] = "error"
       /\ exit_program(c, "unreached")
       /\ UNCHANGED conn
    \/ /\ ret[c] # "error"
       /\ Goto(c, IF ret[c] = "exit" THEN "leave" ELSE "opening")
       /\ Note(c, "unreached")
       /\ UNCHANGED <<ret, active, conn, reinst>>
CallFails(c, at) ==
    /\ "call" \in Faults
    /\ cpc[c] = at
    /\ IF ret[c] = "exit" THEN Unreached(c) ELSE Return(c, FALSE)

\* The failure of a call is not looked at.
CallMissed(c, next) ==
    /\ "call" \in Faults
    /\ Goto(c, next)
    /\ IF ret[c] = "exit" THEN Note(c, "unreached") ELSE UNCHANGED result
    /\ UNCHANGED <<ret, active, conn, reinst>>

main(c) ==
    /\ cpc[c] = "main"
    /\ IF Has(c, "reinstall") THEN Call(c, "u_open", "main") ELSE MainInstall(c)
    /\ UNCHANGED <<active, conn, reinst, result>>
    /\ UNCHANGED <<file, recVars, procVars, need>>

\* svc_UploadService: a file that is there is left alone, unless the upload is
\* forced; smbcli_unlink fails while the file runs or is being written, and
\* then only a file that does not run can be written over.
IUpload(c) ==
    /\ \/ /\ cpc[c] = "i_upload"
          /\ ~Has(c, "reinstall") /\ file.ver # 0
          /\ Jump(c, "i_open")
          /\ UNCHANGED file
       \/ /\ cpc[c] = "i_upload"
          /\ Has(c, "reinstall") \/ file.ver = 0
          /\ IF procs = {}
             THEN /\ file' = [ver |-> ClientVersion[c], whole |-> FALSE]
                  /\ Jump(c, "i_save")
             ELSE Return(c, FALSE) /\ UNCHANGED file
       \/ CallFails(c, "i_upload") /\ UNCHANGED file
    /\ UNCHANGED <<recVars, procVars, need>>

\* smb_composite_savefile comes to its end; two uploads of different versions
\* at the same time leave neither.
ISave(c) ==
    /\ cpc[c] = "i_save"
    /\ \/ /\ file' = [ver |-> ClientVersion[c], whole |-> file.ver = ClientVersion[c]]
          /\ Jump(c, "i_open")
       \/ "upload" \in Faults /\ Return(c, FALSE) /\ UNCHANGED file
    /\ UNCHANGED <<recVars, procVars, need>>

\* svc_OpenService; need_start has no value yet, so the stack decides what
\* the calls below find in it.
IOpen(c) ==
    /\ \/ /\ cpc[c] = "i_open" /\ rec.exists
          /\ SetRecord(rec, OpenHandle(c))
          /\ \E garbage \in BOOLEAN : need' = [need EXCEPT ![c] = garbage]
          /\ Jump(c, IF Has(c, "ignore") THEN "i_start" ELSE "i_query")
       \/ /\ cpc[c] = "i_open" /\ ~rec.exists
          /\ Jump(c, "i_create")
          /\ UNCHANGED <<recVars, need>>
       \/ CallFails(c, "i_open") /\ UNCHANGED <<recVars, need>>
    /\ UNCHANGED <<file, procVars>>

\* Mutant: the handle of the new service is not counted as open.
ICreateUnheld(c) ==
    /\ cpc[c] = "i_create"
    /\ SetRecord([exists |-> TRUE, state |-> "stopped", marked |-> FALSE,
                  interactive |-> Has(c, "interactive")], open)
    /\ need' = [need EXCEPT ![c] = TRUE]
    /\ Jump(c, "i_start")
    /\ UNCHANGED <<file, procVars>>

\* svc_CreateService: somebody else may have been faster.
ICreate(c) ==
    /\ \/ /\ cpc[c] = "i_create" /\ rec.exists
          /\ Return(c, FALSE)
          /\ UNCHANGED <<recVars, need>>
       \/ /\ cpc[c] = "i_create" /\ ~rec.exists
          /\ SetRecord([exists |-> TRUE, state |-> "stopped", marked |-> FALSE,
                        interactive |-> Has(c, "interactive")], OpenHandle(c))
          /\ need' = [need EXCEPT ![c] = TRUE]
          /\ Jump(c, "i_start")
       \/ CallFails(c, "i_create") /\ UNCHANGED <<recVars, need>>
    /\ UNCHANGED <<file, procVars>>

\* Mutant: the type of the service is not compared with the one wanted.
IQueryAlways(c) ==
    /\ cpc[c] = "i_query"
    /\ need' = [need EXCEPT ![c] = TRUE]
    /\ Jump(c, IF rec.state # "stopped" THEN "i_stop" ELSE "i_config")
    /\ UNCHANGED <<file, recVars, procVars>>

\* svc_QueryServiceStatus: has the service the type that is wanted?
IQuery(c) ==
    /\ \/ /\ cpc[c] = "i_query" /\ rec.interactive = Has(c, "interactive")
          /\ Jump(c, "i_start")
          /\ UNCHANGED need
       \/ /\ cpc[c] = "i_query" /\ rec.interactive # Has(c, "interactive")
          /\ need' = [need EXCEPT ![c] = TRUE]
          /\ Jump(c, IF rec.state # "stopped" THEN "i_stop" ELSE "i_config")
       \/ CallFails(c, "i_query") /\ UNCHANGED need
    /\ UNCHANGED <<file, recVars, procVars>>

\* svc_ControlService(STOP) fails on a service that is not running.
IStop(c) ==
    /\ \/ /\ cpc[c] = "i_stop" /\ rec.state = "running"
          /\ StopService
          /\ Jump(c, "i_config")
       \/ /\ cpc[c] = "i_stop" /\ rec.state # "running"
          /\ Return(c, FALSE)
          /\ UNCHANGED <<recVars, procVars>>
       \/ CallFails(c, "i_stop") /\ UNCHANGED <<recVars, procVars>>
    /\ UNCHANGED <<file, need>>

\* svc_ChangeServiceConfig, and the query of a service that is not STOP_PENDING
\* by then: either may fail.
IConfig(c) ==
    /\ \/ /\ cpc[c] = "i_config" /\ rec.marked
          /\ Return(c, FALSE)
          /\ UNCHANGED recVars
       \/ /\ cpc[c] = "i_config" /\ ~rec.marked
          /\ SetRecord([rec EXCEPT !.interactive = Has(c, "interactive")], open)
          /\ Jump(c, "i_start") \/ CallFails(c, "i_config")
       \/ CallFails(c, "i_config") /\ UNCHANGED recVars
    /\ UNCHANGED <<file, procVars, need>>

\* svc_StartService.
IStart(c) ==
    /\ cpc[c] = "i_start"
    /\ IF Has(c, "ignore") \/ need[c]
       THEN \/ Startable /\ StartProcess /\ Jump(c, "i_wait")
            \/ ~Startable /\ Return(c, FALSE) /\ UNCHANGED <<recVars, procVars>>
            \/ CallFails(c, "i_start") /\ UNCHANGED <<recVars, procVars>>
       ELSE Jump(c, "i_wait") /\ UNCHANGED <<recVars, procVars>>
    /\ UNCHANGED <<file, need>>

\* The wait for the end of START_PENDING; the handle is closed only when the
\* service runs.  When the query fails the client knows nothing of the start.
IWait(c) ==
    /\ cpc[c] = "i_wait"
    /\ \/ rec.state = "running" /\ SetRecord(rec, CloseHandle(c)) /\ Return(c, TRUE)
       \/ rec.state = "stopped" /\ Return(c, FALSE) /\ UNCHANGED recVars
       \/ "call" \in Faults /\ Unreached(c) /\ UNCHANGED recVars
    /\ UNCHANGED <<file, procVars, need>>

svc_install(c) ==
    \/ IUpload(c) \/ ISave(c) \/ IOpen(c) \/ ICreate(c) \/ IQuery(c)
    \/ IStop(c) \/ IConfig(c) \/ IStart(c) \/ IWait(c)

----------------------------------------------------------------------------
\* svc_uninstall.

UOpen(c) ==
    /\ \/ /\ cpc[c] = "u_open" /\ rec.exists
          /\ SetRecord(rec, OpenHandle(c))
          /\ Jump(c, "u_stop")
       \/ /\ cpc[c] = "u_open" /\ ~rec.exists
          /\ Return(c, FALSE)
          /\ UNCHANGED recVars
       \/ CallFails(c, "u_open") /\ UNCHANGED recVars
    /\ UNCHANGED <<file, procVars, need>>

\* Mutant: the service is deleted without being stopped.
UStopSkipped(c) ==
    /\ cpc[c] = "u_stop"
    /\ Jump(c, "u_delete")
    /\ UNCHANGED <<file, recVars, procVars, need>>

UStop(c) ==
    /\ cpc[c] = "u_stop"
    /\ \/ rec.state = "running" /\ StopService /\ Jump(c, "u_wait")
       \/ rec.state # "running" /\ Jump(c, "u_wait") /\ UNCHANGED <<recVars, procVars>>
       \/ CallMissed(c, "u_wait") /\ UNCHANGED <<recVars, procVars>>
    /\ UNCHANGED <<file, need>>

\* The wait for the end of STOP_PENDING; another client may have started the
\* service again.
UWait(c) ==
    /\ \/ cpc[c] = "u_wait" /\ rec.state = "stopped" /\ Jump(c, "u_delete")
       \/ cpc[c] = "u_wait" /\ rec.state # "stopped" /\ Return(c, FALSE)
       \/ CallFails(c, "u_wait")
    /\ UNCHANGED <<file, recVars, procVars, need>>

\* Mutant: svc_DeleteService is left out.
UDeleteSkipped(c) ==
    /\ cpc[c] = "u_delete"
    /\ Jump(c, "u_close")
    /\ UNCHANGED <<file, recVars, procVars, need>>

UDelete(c) ==
    /\ cpc[c] = "u_delete"
    /\ \/ SetRecord([rec EXCEPT !.marked = TRUE], open) /\ Jump(c, "u_close")
       \/ CallMissed(c, "u_close") /\ UNCHANGED recVars
    /\ UNCHANGED <<file, procVars, need>>

UClose(c) ==
    /\ cpc[c] = "u_close"
    /\ SetRecord(rec, CloseHandle(c)) \/ ("call" \in Faults /\ UNCHANGED recVars)
    /\ Jump(c, "u_unlink")
    /\ UNCHANGED <<file, procVars, need>>

\* Mutant: the file is not deleted.
UUnlinkSkipped(c) ==
    /\ cpc[c] = "u_unlink"
    /\ Return(c, TRUE)
    /\ UNCHANGED <<file, recVars, procVars, need>>

\* 300 ms later the file is deleted, unless it still runs: the result of
\* smbcli_unlink is not looked at.
UUnlink(c) ==
    /\ \/ /\ cpc[c] = "u_unlink"
          /\ "slowexit" \in Faults \/ \A p \in procs : p.phase \notin Ending
          /\ file' = IF procs = {} /\ Writers = {} THEN NoFile ELSE file
          /\ Return(c, TRUE)
       \/ CallFails(c, "u_unlink") /\ UNCHANGED file
    /\ UNCHANGED <<recVars, procVars, need>>

svc_uninstall(c) ==
    UOpen(c) \/ UStop(c) \/ UWait(c) \/ UDelete(c) \/ UClose(c) \/ UUnlink(c)

----------------------------------------------------------------------------
\* The session, as far as the service calls depend on it.

\* on_ctrl_pipe_read ignores the last digit of the versions.
Same10(v, w) == v \div 10 = w \div 10

Connected(c) == \E p \in procs : p.id = conn[c]

\* async_open of the control pipe; STATUS_OBJECT_NAME_NOT_FOUND leads to one
\* svc_install, any second one to the end.
OpenPipe(c) ==
    /\ cpc[c] = "opening"
    /\ \/ \E p \in procs :
             /\ p.pipe
             /\ conn' = [conn EXCEPT ![c] = p.id]
             /\ Goto(c, "version")
             /\ UNCHANGED <<ret, active, reinst, result>>
       \/ /\ \A p \in procs : ~p.pipe
          /\ ~active[c]
          /\ Call(c, "i_upload", "error")
          /\ UNCHANGED <<active, conn, reinst, result>>
       \/ /\ \A p \in procs : ~p.pipe
          /\ active[c]
          /\ exit_program(c, "failed")
          /\ UNCHANGED conn
    /\ UNCHANGED <<file, recVars, procVars, need>>

Compatible(c) == \E p \in procs : p.id = conn[c] /\ Same10(p.ver, ClientVersion[c])

\* on_ctrl_pipe_read, on_ctrl_pipe_close: run the command or replace the
\* service; on_ctrl_pipe_error when the service is gone.
GotVersion(c) ==
    /\ cpc[c] = "version"
    /\ \/ Compatible(c) /\ Jump(c, "session")
       \/ /\ Connected(c) /\ ~Compatible(c)
          /\ Call(c, "u_open", "reinstall")
          /\ reinst' = [reinst EXCEPT ![c] = @ + 1]
          /\ UNCHANGED <<active, conn, result>>
       \/ ~Connected(c) /\ exit_program(c, "broken") /\ UNCHANGED conn
    /\ UNCHANGED <<file, recVars, procVars, need>>

\* The command ends, or the service goes away under it.
SessionEnds(c) ==
    /\ cpc[c] = "session"
    /\ exit_program(c, IF Connected(c) THEN "done" ELSE "broken")
    /\ UNCHANGED <<file, recVars, procVars, need, conn>>

\* The process of the client ends: its handles are closed.
Leave(c) ==
    /\ cpc[c] = "leave"
    /\ SetRecord(rec, [open EXCEPT ![c] = 0])
    /\ Jump(c, "gone")
    /\ UNCHANGED <<file, procVars, need>>

Kill(c) ==
    /\ "kill" \in Faults
    /\ cpc[c] \notin {"leave", "gone"}
    /\ Goto(c, "leave")
    /\ Note(c, "killed")
    /\ UNCHANGED <<ret, active, conn, reinst>>
    /\ UNCHANGED <<file, recVars, procVars, need>>

ClientStep(c) ==
    \/ main(c) \/ svc_install(c) \/ svc_uninstall(c)
    \/ OpenPipe(c) \/ GotVersion(c) \/ SessionEnds(c) \/ Leave(c)

ProcessStep == \E p \in procs : ReportRunning(p) \/ ReportStopped(p) \/ PipeReady(p) \/ ProcessExit(p)

SvcNext ==
    \/ \E c \in Client : ClientStep(c) \/ Kill(c)
    \/ ProcessStep

SvcSpec == SvcInit /\ [][SvcNext]_svcVars

\* The clients and the service process are scheduled, and commands end.
SvcFairSpec ==
    /\ SvcSpec
    /\ \A c \in Client : WF_svcVars(ClientStep(c))
    /\ WF_svcVars(\E p \in procs : ReportRunning(p))
    /\ WF_svcVars(\E p \in procs : PipeReady(p))
    /\ WF_svcVars(\E p \in procs : ProcessExit(p))

----------------------------------------------------------------------------
\* Properties.

Caller == {"main", "main_install", "error", "reinstall", "reinstall_install", "exit"}

SvcTypeOK ==
    /\ file \in [ver : Nat, whole : BOOLEAN]
    /\ rec \in [exists : BOOLEAN, state : {"stopped", "starting", "running"},
                interactive : BOOLEAN, marked : BOOLEAN]
    /\ open \in [Client -> Nat] /\ flags \in Options
    /\ starts \in 0..(MaxStarts + 1)
    /\ procs \subseteq [id : 1..starts, ver : Nat,
                        phase : {"starting", "running"} \union Ending, pipe : BOOLEAN]
    /\ cpc \in [Client -> {"main", "i_upload", "i_save", "i_open", "i_create", "i_query",
                           "i_stop", "i_config", "i_start", "i_wait", "u_open", "u_stop",
                           "u_wait", "u_delete", "u_close", "u_unlink", "opening",
                           "version", "session", "leave", "gone"}]
    /\ ret \in [Client -> Caller]
    /\ need \in [Client -> BOOLEAN] /\ active \in [Client -> BOOLEAN]
    /\ conn \in [Client -> Nat] /\ reinst \in [Client -> Nat]
    /\ result \in [Client -> SUBSET {"done", "failed", "broken", "killed", "unreached"}]

\* No version that may be met anywhere makes a client replace the service.
OneVersion ==
    \A c \in Client : /\ \A d \in Client : Same10(ClientVersion[d], ClientVersion[c])
                      /\ \A v \in Present : Same10(v, ClientVersion[c])

\* Clients that agree on the version and on the type of the service, with the
\* one on the machine and with each other, and do not remove it, leave each
\* other alone: no session is cut off, however their installations overlap and
\* whichever of their calls fail.
Agreed ==
    /\ OneVersion
    /\ \A c \in Client : flags[c] \intersect {"uninstall", "reinstall"} = {}
    /\ \E i \in BOOLEAN : Types \subseteq {i} /\ \A c \in Client : Has(c, "interactive") = i
AgreeingClientsCoexist == Agreed => \A c \in Client : "broken" \notin result[c]

\* When all clients were given --uninstall and have exited without being
\* killed, with no call failing in the removal or in the wait for the start,
\* the service is removed, with no process left working and no record left
\* behind by a handle that an error path of svc_install has not closed. If all
\* of them had the service running, none had to replace it, and its process
\* had time to exit, the file is removed as well, but for what is left of an
\* upload that broke off: svc_uninstall leaves the file alone when there is no
\* service to remove.
AllRemoved ==
    \A c \in Client : /\ Has(c, "uninstall") /\ Gone(c)
                      /\ result[c] \intersect {"killed", "unreached"} = {}
NoneReplaces ==
    /\ OneVersion /\ "slowexit" \notin Faults
    /\ \A c \in Client : ~Has(c, "reinstall")
UninstallRemoves ==
    AllRemoved =>
        /\ ~rec.exists /\ \A p \in procs : p.phase \in Ending
        /\ NoneReplaces /\ (\A c \in Client : "failed" \notin result[c]) => ~file.whole

\* A client alone on the machine, whose calls reach it, and which gives the
\* service the time to exit.
Undisturbed ==
    /\ \A c, d \in Client : c = d
    /\ Faults \intersect {"call", "slowexit"} = {}

\* Undisturbed, a client replaces a service of another version at most once.
ReplacedOnce == Undisturbed => \A c \in Client : reinst[c] <= 1

\* Undisturbed, a client that was given --reinstall runs its command on the
\* service it carries, not on one of another version that would be compatible,
\* also when an upload breaks off and on_ctrl_pipe_error has to repeat it.
ReinstallRunsOwn ==
    Undisturbed => \A c \in Client : Has(c, "reinstall") /\ cpc[c] = "session"
        => \A p \in procs : p.id = conn[c] => p.ver = ClientVersion[c]

\* Every client ends.
ClientsEnd == \A c \in Client : <>Gone(c)

=============================================================================
