----------------------------- MODULE ServerLoop ------------------------------
(***************************************************************************)
(* The accept loop of winexesvc (server_loop) with any number of clients:  *)
(* one instance of the control pipe listens at a time, and between two of  *)
(* them none does.  The connection threads, the subject of Connection, are *)
(* reduced to what joins them to each other: the numbers their standard    *)
(* pipes are named after and the handles their processes inherit.  The     *)
(* service may be stopped at any time, and started again by a client; that *)
(* its process outlives the report of its stop is the subject of           *)
(* SvcControl.                                                             *)
(***************************************************************************)
EXTENDS Integers, FiniteSets

CONSTANTS
    Client,
    Pids,       \* process ids the service may be given, none is 0
    Served,     \* connections the first service process may have had before
    MayFail,    \* calls that may fail, see LoopCalls
    MaxStops,   \* bound on how often the service is stopped
    MaxReruns   \* bound on how often a client is run again

LoopCalls == {"CreateNamedPipe", "ConnectNamedPipe", "CreateThread", "CreateProcess", "malloc"}
NoClient == "none"
Free == "free"
Half == 65536

ASSUME ServerLoopAssumption ==
    /\ Client \intersect {NoClient, Free} = {}
    /\ Pids \subseteq Nat \ {0}
    /\ Served \subseteq Nat
    /\ MayFail \subseteq LoopCalls
    /\ MaxStops \in Nat /\ MaxReruns \in Nat

\* The first service process has not yet had 2^16 connections.
ASSUME ServedAssumption == \A n \in Served : n < Half

VARIABLES
    pid,        \* the service process, 0 when there is none
    loop,       \* where server_loop is: "create", "connect" or "ended"
    listener,   \* the instance in its hands: none, free, or opened by a client
    conn_number,
    threads,    \* the connection threads
    procs,      \* the remote processes, with the pipe numbers they hold open
    at,         \* where each client is
    told,       \* the pipe number it is about to open, or empty
    stops,      \* how often the service was stopped, up to MaxStops
    reruns,     \* how often a client was run again, up to MaxReruns
    past,       \* history: process ids of the service so far
    exotic      \* history: "pid" of a service came again, "conn" reached 2^16

serviceVars == <<pid, loop, listener, conn_number>>
historyVars == <<stops, reruns, past, exotic>>
loopVars == <<serviceVars, threads, procs, at, told, historyVars>>

\* Mutants: only the process, only the connection.
pipe_nrOfProcess(p, n) == <<p % Half, 0>>
pipe_nrOfConnection(p, n) == <<0, n>>

\* cmd_run: (pid << 16) + n in a DWORD, the number in the names of the standard
\* pipes of connection n; written as its two halves.
pipe_nr(p, n) == <<(p + n \div Half) % Half, n % Half>>

\* A thread has the pipes from CreateNamedPipe to CloseHandle.
Number(t) == pipe_nr(pid, t.num)
HasPipes(t) == t.phase \in {"piped", "running", "ending"}
Holders(n) == {p \in procs : n \in p.holds}
InUse(n) == Holders(n) # {} \/ \E t \in threads : HasPipes(t) /\ Number(t) = n

LoopInit ==
    /\ pid \in Pids \union {0}
    /\ loop = "create" /\ listener = NoClient
    /\ conn_number \in IF pid = 0 THEN {0} ELSE Served
    /\ threads = {} /\ procs = {}
    /\ at = [c \in Client |-> "start"]
    /\ told = [c \in Client |-> <<>>]
    /\ stops = 0 /\ reruns = 0
    /\ past = {pid} \ {0}
    /\ exotic = {}

----------------------------------------------------------------------------
\* server_loop.

LoopCreate ==
    /\ pid # 0 /\ loop = "create"
    /\ \/ loop' = "connect" /\ listener' = Free
       \/ "CreateNamedPipe" \in MayFail /\ loop' = "ended" /\ UNCHANGED listener
    /\ UNCHANGED <<pid, conn_number, threads, procs, at, told, historyVars>>

\* Mutants: a connection is numbered by the threads there are; nobody waits for
\* the client to connect.
LoopAcceptUncounted ==
    /\ pid # 0 /\ loop = "connect" /\ listener \in Client
    /\ loop' = "create" /\ listener' = NoClient
    /\ conn_number' = Cardinality(threads) + 1
    /\ threads' = threads \union
           {[num |-> conn_number', client |-> listener, by |-> NoClient, phase |-> "lines"]}
    /\ UNCHANGED <<pid, procs, at, told, historyVars>>
LoopAcceptEarly ==
    /\ pid # 0 /\ loop = "connect"
    /\ loop' = "create" /\ listener' = NoClient
    /\ conn_number' = conn_number + 1
    /\ threads' = threads \union
           {[num |-> conn_number', client |-> listener, by |-> NoClient, phase |-> "lines"]}
    /\ UNCHANGED <<pid, procs, at, told, historyVars>>
\* ConnectNamedPipe: a client is there, or has opened the pipe and left again
\* before the call (ERROR_NO_DATA), which only closes the instance.
LoopAccept ==
    /\ pid # 0 /\ loop = "connect" /\ listener \in Client
    /\ loop' = "create" /\ listener' = NoClient
    /\ \/ /\ conn_number' = conn_number + 1
          /\ \/ threads' = threads \union
                    {[num |-> conn_number + 1, client |-> listener, by |-> NoClient, phase |-> "lines"]}
             \/ "CreateThread" \in MayFail /\ UNCHANGED threads
          /\ exotic' = IF conn_number + 1 >= Half THEN exotic \union {"conn"} ELSE exotic
       \/ at[listener] = "gone" /\ UNCHANGED <<conn_number, threads, exotic>>
    /\ UNCHANGED <<pid, procs, at, told, stops, reruns, past>>

\* ConnectNamedPipe, or the GetOverlappedResult that waits for its end, fails,
\* whether or not a client has opened the instance, which is closed.
LoopAcceptFails ==
    /\ "ConnectNamedPipe" \in MayFail
    /\ pid # 0 /\ loop = "connect"
    /\ loop' = "create" /\ listener' = NoClient
    /\ UNCHANGED <<pid, conn_number, threads, procs, at, told, historyVars>>

----------------------------------------------------------------------------
\* handle_connection and cmd_run.

Becomes(t, phase) == threads' = (threads \ {t}) \union {[t EXCEPT !.phase = phase]}

\* Without memory for the commands the function just returns, and leaves the
\* instance to the client.
ThreadUnserved(t) ==
    /\ "malloc" \in MayFail
    /\ t.phase = "lines"
    /\ Becomes(t, "unserved")
    /\ UNCHANGED <<serviceVars, procs, at, told, historyVars>>

\* The pipes are created and the client is told their number; names that
\* exist already cannot be had a second time.
ThreadPipes(t) ==
    /\ t.phase = "lines" /\ at[t.client] = "in"
    /\ \/ /\ ~InUse(Number(t))
          /\ Becomes(t, "piped")
          /\ told' = [told EXCEPT ![t.client] = Number(t)]
          /\ at' = [at EXCEPT ![t.client] = "told"]
       \/ /\ InUse(Number(t))
          /\ Becomes(t, "denied")
          /\ UNCHANGED <<told, at>>
    /\ UNCHANGED <<serviceVars, procs, historyVars>>

\* CreateProcessAsUser passes on every handle that is inheritable by then: those
\* of all connections that run a process, and of those between the opening of
\* their pipes and CreateProcessAsUser, or between the end of the process and
\* CloseHandle, that SetHandleInformation and CloseHandle, one handle at a time,
\* have or have not reached.
MayInherit(t) == {u \in threads \ {t} : /\ u.phase \in {"piped", "ending"}
                                      /\ u.by # NoClient}
Spawned(t, us) == [pid |-> pid, num |-> t.num,
                   holds |-> {Number(u) : u \in {t} \union us}]
ThreadSpawn(t) ==
    /\ t.phase = "piped"
    /\ t.by # NoClient
    /\ \/ /\ Becomes(t, "running")
          /\ \E us \in SUBSET MayInherit(t) :
                procs' = procs \union {Spawned(t, us \union {u \in threads : u.phase = "running"})}
       \/ "CreateProcess" \in MayFail /\ Becomes(t, "ending") /\ UNCHANGED procs
    /\ UNCHANGED <<serviceVars, at, told, historyVars>>

Own(t) == {p \in procs : p.pid = pid /\ p.num = t.num}

\* The process has ended, or the client is gone and it is terminated.
ThreadUnwatch(t) ==
    /\ t.phase = "running"
    /\ Own(t) = {} \/ at[t.client] = "gone"
    /\ Becomes(t, "ending")
    /\ procs' = procs \ Own(t)
    /\ UNCHANGED <<serviceVars, at, told, historyVars>>

\* Mutant: the function that failed does not end the connection.
ThreadEndDenied(t) ==
    /\ t.phase = "ending" \/ (t.phase = "lines" /\ at[t.client] = "gone")
    /\ threads' = threads \ {t}
    /\ at' = [at EXCEPT ![t.client] = "gone"]
    /\ told' = [told EXCEPT ![t.client] = <<>>]
    /\ UNCHANGED <<serviceVars, procs, historyVars>>

\* The end of handle_connection: a command failed or was the last one, or the
\* client is gone.  A thread in ConnectNamedPipe waits for its client.
ThreadEnd(t) ==
    /\ t.phase \in {"denied", "ending"} \/ (t.phase = "lines" /\ at[t.client] = "gone")
    /\ threads' = threads \ {t}
    /\ at' = [at EXCEPT ![t.client] = "gone"]
    /\ told' = [told EXCEPT ![t.client] = <<>>]
    /\ UNCHANGED <<serviceVars, procs, historyVars>>

ThreadStep(t) ==
    ThreadUnserved(t) \/ ThreadPipes(t) \/ ThreadSpawn(t) \/ ThreadUnwatch(t) \/ ThreadEnd(t)

ProcExit ==
    /\ \E p \in procs : procs' = procs \ {p}
    /\ UNCHANGED <<serviceVars, threads, at, told, historyVars>>

----------------------------------------------------------------------------
\* winexe, as far as the loop can tell.

Instances == ({listener} \ {NoClient}) \union {t.client : t \in threads}
Activated(c) == at[c] = "again"
Goes(c, l) == at' = [at EXCEPT ![c] = l]

\* The open of \pipe\ahexec: it needs the instance that is free; while there
\* are only others it is refused, and without any the name does not exist.
\* on_ctrl_pipe_error installs once for a missing name, and gives up otherwise.
OpenControl(c) ==
    /\ at[c] \in {"start", "again"}
    /\ \/ listener = Free /\ listener' = c /\ Goes(c, "in")
       \/ listener # Free /\ Instances # {} /\ Goes(c, "failed") /\ UNCHANGED listener
       \/ Instances = {} /\ ~Activated(c) /\ Goes(c, "install") /\ UNCHANGED listener
       \/ Instances = {} /\ Activated(c) /\ Goes(c, "failed") /\ UNCHANGED listener
    /\ UNCHANGED <<pid, loop, conn_number, threads, procs, told, historyVars>>

\* svc_install starts a service that is stopped; one that runs is left alone.
Install(c) ==
    /\ at[c] = "install"
    /\ Goes(c, "again")
    /\ \/ pid # 0 /\ UNCHANGED <<serviceVars, past, exotic>>
       \/ /\ pid = 0
          /\ pid' \in Pids
          /\ loop' = "create" /\ conn_number' = 0
          /\ past' = past \union {pid'}
          /\ exotic' = IF \E p \in past : p % Half = pid' % Half
                       THEN exotic \union {"pid"} ELSE exotic
          /\ UNCHANGED listener
    /\ UNCHANGED <<threads, procs, told, stops, reruns>>

\* on_ctrl_pipe_read, "std_io_err": the open of the standard pipes succeeds on
\* an instance nobody has opened yet.
Finds(c) == {t \in threads : t.phase = "piped" /\ Number(t) = told[c] /\ t.by = NoClient}
OpenStandard(c) ==
    /\ at[c] = "told"
    /\ told' = [told EXCEPT ![c] = <<>>]
    /\ \/ \E t \in Finds(c) : /\ threads' = (threads \ {t}) \union {[t EXCEPT !.by = c]}
                             /\ Goes(c, "streams")
       \/ Finds(c) = {} /\ Goes(c, "gone") /\ UNCHANGED threads
    /\ UNCHANGED <<serviceVars, procs, historyVars>>

\* The user ends a client.
Connected == {"in", "told", "streams"}
Leave(c) ==
    /\ at[c] \in Connected
    /\ Goes(c, "gone")
    /\ told' = [told EXCEPT ![c] = <<>>]
    /\ UNCHANGED <<serviceVars, threads, procs, historyVars>>

\* The user runs winexe again.
Rerun(c) ==
    /\ at[c] \in {"gone", "failed"} /\ c \notin Instances
    /\ reruns < MaxReruns
    /\ reruns' = reruns + 1
    /\ Goes(c, "start")
    /\ UNCHANGED <<serviceVars, threads, procs, told, stops, past, exotic>>

\* on_ctrl_pipe_error: the instance the client had opened is no more.
Lost(c) == c \notin Instances /\ Leave(c)

\* Somebody stops the service: its threads end wherever they are, the remote
\* processes live on with the handles they have inherited.
Stop ==
    /\ pid # 0 /\ stops < MaxStops
    /\ stops' = stops + 1
    /\ pid' = 0 /\ conn_number' = 0
    /\ loop' = "create" /\ listener' = NoClient
    /\ threads' = {}
    /\ UNCHANGED <<procs, at, told, reruns, past, exotic>>

----------------------------------------------------------------------------
LoopStep == LoopCreate \/ LoopAccept
ClientStep(c) == OpenControl(c) \/ Install(c) \/ OpenStandard(c) \/ Lost(c)

LoopNext ==
    \/ LoopStep \/ LoopAcceptFails
    \/ \E t \in threads : ThreadStep(t)
    \/ ProcExit \/ Stop
    \/ \E c \in Client : ClientStep(c) \/ Leave(c) \/ Rerun(c)

LoopSpec == LoopInit /\ [][LoopNext]_loopVars

\* The loop, the threads and the clients are scheduled; what the user, the
\* processes and whoever stops the service do is not, nor which calls fail.
LoopFairness ==
    /\ WF_loopVars(LoopStep)
    /\ WF_loopVars(\E t \in threads : ThreadStep(t))
    /\ \A c \in Client : WF_loopVars(ClientStep(c))

LoopFairSpec == LoopSpec /\ LoopFairness

----------------------------------------------------------------------------
\* Properties.

LoopTypeOK ==
    /\ pid \in Nat
    /\ loop \in {"create", "connect", "ended"}
    /\ listener \in Client \union {NoClient, Free}
    /\ conn_number \in Nat
    /\ threads \subseteq [num : Nat, client : Client, by : Client \union {NoClient},
                         phase : {"lines", "unserved", "piped", "running", "denied", "ending"}]
    /\ procs \subseteq [pid : Nat, num : Nat, holds : SUBSET (Nat \X Nat)]
    /\ at \in [Client -> {"start", "install", "again", "in", "told", "streams",
                          "gone", "failed"}]
    /\ told \in [Client -> (Nat \X Nat) \union {<<>>}]
    /\ stops \in Nat /\ reruns \in Nat /\ past \subseteq Nat /\ exotic \subseteq {"pid", "conn"}

\* However connections overlap, each has one thread, a number of its own that
\* no later connection of the process gets, and no client is in two of them.
OneThreadEach ==
    /\ \A t, u \in threads : t.num = u.num \/ t.client = u.client => t = u
    /\ \A t \in threads : t.num \in 1..conn_number /\ t.client # listener

\* The standard pipes a client opens by number are those of its own connection,
\* although the number may be old: the service may have been stopped, started
\* and connected to by others meanwhile.  Only a process id that comes again
\* (or differs in its upper half only) or 2^16 connections can mix them up.
OwnPipes == exotic = {} => \A t \in threads : t.by \in {NoClient, t.client}

\* ... and the names of a connection are free when it needs them, although
\* processes of other connections and of a stopped service have inherited
\* pipes and keep them.
NamesFree == exotic = {} => \A t \in threads : t.phase # "denied"

\* No client is left waiting on a control pipe nobody serves, whether the
\* client cannot be accepted, the thread cannot be created, the pipes cannot,
\* the loop has ended or the service is stopped, and however long other clients
\* stay; but for the one case that handle_connection has no memory, does not
\* disconnect the client and leaves it to its user.
Unserved(c) == \E t \in threads : t.client = c /\ t.phase = "unserved"
NobodyWaits == \A c \in Client : at[c] = "in" ~> at[c] \in {"told", "gone"} \/ Unserved(c)
=============================================================================
