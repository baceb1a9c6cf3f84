--------------------------- MODULE SvcControlProofs ---------------------------
(***************************************************************************)
(* Proofs about SvcControl, for any clients with any versions and options, *)
(* anything on the machine and anything that may go wrong: its types, and  *)
(* what always holds of the handles, the processes and the callers of the  *)
(* service functions.  Then what becomes of the clients and of the         *)
(* service: clients that agree leave each other alone, clients that remove *)
(* the service leave nothing of it, and a client that replaces it runs its *)
(* own, once (this last for a single client).                              *)
(***************************************************************************)
EXTENDS SvcControl, TLAPS

----------------------------------------------------------------------------
\* The handles. A client that is between opening and closing a handle has one,
\* an open handle keeps the record, and a record that could go is held.

HandleLabels == {"i_query", "i_stop", "i_config", "i_start", "i_wait",
                 "u_stop", "u_wait", "u_delete", "u_close"}
HandleInv ==
    \A c \in Client : /\ cpc[c] \in HandleLabels => open[c] > 0
                      /\ Gone(c) => open[c] = 0
HeldInv ==
    /\ \A c \in Client : open[c] > 0 => rec.exists
    /\ ~rec.exists => rec = NoRecord
    /\ (rec.marked /\ rec.state = "stopped") => \E c \in Client : open[c] > 0

\* The processes. One at most works for the service, and it is in the state
\* the service manager knows.
ProcInv ==
    /\ \A p \in procs : p.phase \notin Ending => p.phase = rec.state
    /\ \A p, q \in procs : p.phase \notin Ending /\ q.phase \notin Ending => p = q
    /\ \A p, q \in procs : p.id = q.id => p = q

\* The callers. svc_uninstall that is called by exit_program ends the client,
\* and a client that was killed calls nothing more.
Exiting == {"u_open", "u_stop", "u_wait", "u_delete", "u_close", "u_unlink",
            "leave", "gone"}
Hindered(c) == "killed" \in result[c] \/ "unreached" \in result[c]
CallInv ==
    /\ \A c \in Client :
          /\ ret[c] = "exit" => cpc[c] \in Exiting
          /\ cpc[c] \in {"leave", "gone"} => ret[c] = "exit" \/ "killed" \in result[c]
          /\ "killed" \in result[c] => cpc[c] \in {"leave", "gone"}
          /\ "unreached" \in result[c] => "call" \in Faults
    /\ rec.state = "starting" =>
          \E c \in Client : cpc[c] = "i_wait" \/ Hindered(c)

\* A step of a service process.
Works(p) == ReportRunning(p) \/ ReportStopped(p) \/ PipeReady(p) \/ ProcessExit(p)

SvcInv == SvcTypeOK /\ HandleInv /\ HeldInv /\ ProcInv /\ CallInv

----------------------------------------------------------------------------
\* What a client does to its own state, the other clients' untouched.

Labels == {"main", "i_upload", "i_save", "i_open", "i_create", "i_query",
           "i_stop", "i_config", "i_start", "i_wait", "u_open", "u_stop",
           "u_wait", "u_delete", "u_close", "u_unlink", "opening",
           "version", "session", "leave", "gone"}
Results == SUBSET {"done", "failed", "broken", "killed", "unreached"}

CallTypeOK ==
    /\ cpc \in [Client -> Labels] /\ ret \in [Client -> Caller]
    /\ result \in [Client -> Results] /\ active \in [Client -> BOOLEAN]
    /\ flags \in Options /\ conn \in [Client -> Nat] /\ reinst \in [Client -> Nat]

Record  == [exists : BOOLEAN, state : {"stopped", "starting", "running"},
            interactive : BOOLEAN, marked : BOOLEAN]
MachineTypeOK ==
    /\ file \in [ver : Nat, whole : BOOLEAN] /\ rec \in Record
    /\ open \in [Client -> Nat] /\ need \in [Client -> BOOLEAN]
    /\ starts \in 0..(MaxStarts + 1)
    /\ procs \subseteq [id : 1..starts, ver : Nat,
                        phase : {"starting", "running", "leaving", "failed"}, pipe : BOOLEAN]

LEMMA TypeParts ==
  /\ SvcTypeOK <=> CallTypeOK /\ MachineTypeOK
  /\ SvcTypeOK' <=> CallTypeOK' /\ MachineTypeOK'
  BY DEF SvcTypeOK, CallTypeOK, MachineTypeOK, Labels, Results, Record, Ending

Moves(c) ==
    /\ CallTypeOK' /\ flags' = flags
    /\ \A d \in Client \ {c} : /\ cpc'[d] = cpc[d] /\ ret'[d] = ret[d]
                               /\ result'[d] = result[d] /\ conn'[d] = conn[d]
                               /\ reinst'[d] = reinst[d]

\* Where a client goes on after exit_program, and after a call that returns.
Exits(c) ==
    /\ ret'[c] = "exit"
    /\ cpc'[c] = IF Has(c, "uninstall") THEN "u_open" ELSE "leave"

Returns(c) ==
    /\ conn' = conn /\ reinst' = reinst
    /\ \/ /\ cpc'[c] \in {"opening", "i_upload"} /\ result'[c] = result[c]
          /\ ret[c] # "exit" /\ ret'[c] # "exit"
       \/ ret[c] = "error" /\ Exits(c) /\ result'[c] = result[c] \union {"failed"}
       \/ ret[c] = "exit" /\ ret'[c] = "exit" /\ cpc'[c] = "leave" /\ result'[c] = result[c]

\* ... and after a call that fails.
Loses(c) ==
    /\ conn' = conn /\ reinst' = reinst /\ result'[c] = result[c] \union {"unreached"}
    /\ \/ ret[c] # "exit" /\ ret[c] # "error" /\ ret' = ret /\ cpc'[c] = "opening"
       \/ ret[c] = "error" /\ Exits(c)
       \/ ret[c] = "exit" /\ ret' = ret /\ cpc'[c] = "leave"
Fails(c, at) ==
    /\ "call" \in Faults /\ cpc[c] = at
    /\ \/ ret[c] = "exit" /\ Loses(c)
       \/ ret[c] # "exit" /\ Returns(c)

LEMMA ReturnMoves ==
  ASSUME CallTypeOK, NEW c \in Client, NEW ok \in BOOLEAN, Return(c, ok)
  PROVE  Moves(c) /\ Returns(c)
  <1> USE DEF Goto, Jump, Call, CallTypeOK, Moves, Returns, Exits, Return, Labels, Caller, Note
  <1>1. ret[c] \in Caller
    OBVIOUS
  <1>2. CASE ret[c] = "main"
    BY <1>2 DEF MainInstall
  <1>3. CASE ret[c] \in {"reinstall", "main_install", "reinstall_install", "exit"}
    BY <1>3
  <1>4. CASE ret[c] = "error" /\ ok
    BY <1>4
  <1>5. CASE ret[c] = "error" /\ ~ok
    BY <1>5 DEF exit_program, Results
  <1> QED BY <1>1, <1>2, <1>3, <1>4, <1>5

LEMMA UnreachedMoves ==
  ASSUME CallTypeOK, NEW c \in Client, Unreached(c)
  PROVE  Moves(c) /\ Loses(c)
  <1> USE DEF Goto, Call, CallTypeOK, Moves, Loses, Exits, Unreached, Labels, Caller, Note, Results
  <1>1. CASE ret[c] = "error"
    BY <1>1 DEF exit_program
  <1>2. CASE ret[c] # "error"
    BY <1>2
  <1> QED BY <1>1, <1>2

LEMMA FailsMove ==
  ASSUME CallTypeOK, NEW c \in Client, NEW at, CallFails(c, at)
  PROVE  Moves(c) /\ Fails(c, at)
  BY ReturnMoves, UnreachedMoves DEF CallFails, Fails

\* A call of svc_install or svc_uninstall leads to the next one of the same
\* function, or the function returns, or the call fails.
Installing == {"i_upload", "i_save", "i_open", "i_create", "i_query", "i_stop", "i_config",
               "i_start", "i_wait"}
Uninstalling == {"u_open", "u_stop", "u_wait", "u_delete", "u_close", "u_unlink"}
Goes(c) ==
    /\ ret' = ret /\ conn' = conn /\ reinst' = reinst
    /\ \/ cpc[c] \in Installing /\ cpc'[c] \in Installing \ {"i_upload"}
       \/ cpc[c] \in Uninstalling /\ cpc'[c] \in Uninstalling \ {"u_open"}
    /\ \/ result'[c] = result[c]
       \/ result'[c] = result[c] \union {"unreached"} /\ "call" \in Faults /\ ret[c] = "exit"
Served(c) == Returns(c) \/ (Loses(c) /\ "call" \in Faults) \/ Goes(c)

LEMMA CallsServed ==
  ASSUME CallTypeOK, NEW c \in Client, svc_install(c) \/ svc_uninstall(c)
  PROVE  Served(c)
  <1>a. /\ \A ok \in BOOLEAN : Return(c, ok) => Served(c)
        /\ Unreached(c) /\ "call" \in Faults => Served(c)
        /\ \A at : CallFails(c, at) => Served(c)
    BY ReturnMoves, UnreachedMoves, FailsMove DEF Served, Fails
  <1>b. ASSUME NEW k \in Installing, NEW l \in Installing \ {"i_upload"}, cpc[c] = k, Jump(c, l)
        PROVE  Served(c)
    BY <1>b DEF Served, Goes, Jump, Goto, CallTypeOK
  <1>c. ASSUME NEW k \in Uninstalling, NEW l \in Uninstalling \ {"u_open"}, cpc[c] = k,
               Jump(c, l) \/ CallMissed(c, l)
        PROVE  Served(c)
    BY <1>c DEF Served, Goes, Jump, Goto, CallMissed, Note, CallTypeOK
  <1> USE DEF Installing, Uninstalling
  <1> HIDE DEF Served
  <1>1. CASE IUpload(c)
    BY <1>1, <1>a, <1>b DEF IUpload
  <1>2. CASE ISave(c)
    BY <1>2, <1>a, <1>b DEF ISave
  <1>3. CASE IOpen(c)
    BY <1>3, <1>a, <1>b DEF IOpen
  <1>4. CASE ICreate(c)
    BY <1>4, <1>a, <1>b DEF ICreate
  <1>5. CASE IQuery(c)
    BY <1>5, <1>a, <1>b DEF IQuery
  <1>6. CASE IStop(c)
    BY <1>6, <1>a, <1>b DEF IStop
  <1>7. CASE IConfig(c)
    BY <1>7, <1>a, <1>b DEF IConfig
  <1>8. CASE IStart(c)
    BY <1>8, <1>a, <1>b DEF IStart
  <1>9. CASE IWait(c)
    BY <1>9, <1>a DEF IWait
  <1>10. CASE UOpen(c)
    BY <1>10, <1>a, <1>c DEF UOpen
  <1>11. CASE UStop(c)
    BY <1>11, <1>c DEF UStop
  <1>12. CASE UWait(c)
    BY <1>12, <1>a, <1>c DEF UWait
  <1>13. CASE UDelete(c)
    BY <1>13, <1>c DEF UDelete
  <1>14. CASE UClose(c)
    BY <1>14, <1>c DEF UClose
  <1>15. CASE UUnlink(c)
    BY <1>15, <1>a DEF UUnlink
  <1> QED BY <1>1, <1>2, <1>3, <1>4, <1>5, <1>6, <1>7, <1>8, <1>9, <1>10, <1>11, <1>12, <1>13, <1>14,
             <1>15 DEF svc_install, svc_uninstall

LEMMA CallsMove ==
  ASSUME SvcTypeOK, NEW c \in Client, ClientStep(c) \/ Kill(c)
  PROVE  Moves(c)
  <1> USE DEF Goto, Jump, Call, CallTypeOK, Moves, Labels, Caller, Results, callVars, Note, CallMissed
  <1>a. CallTypeOK /\ \A p \in procs : p.id \in Nat
    BY TypeParts DEF MachineTypeOK
  <1>b. /\ \A ok \in BOOLEAN : Return(c, ok) => Moves(c)
        /\ Unreached(c) => Moves(c)
        /\ \A at : CallFails(c, at) => Moves(c)
    BY <1>a, ReturnMoves, UnreachedMoves, FailsMove
  <1>1. CASE main(c)
    BY <1>1, <1>a, <1>b DEF main, MainInstall
  <1>2. CASE IUpload(c)
    BY <1>2, <1>a, <1>b DEF IUpload
  <1>3. CASE ISave(c)
    BY <1>3, <1>a, <1>b DEF ISave
  <1>4. CASE IOpen(c)
    BY <1>4, <1>a, <1>b DEF IOpen
  <1>5. CASE ICreate(c)
    BY <1>5, <1>a, <1>b DEF ICreate
  <1>6. CASE IQuery(c)
    BY <1>6, <1>a, <1>b DEF IQuery
  <1>7. CASE IStop(c)
    BY <1>7, <1>a, <1>b DEF IStop
  <1>8. CASE IConfig(c)
    BY <1>8, <1>a, <1>b DEF IConfig
  <1>9. CASE IStart(c)
    BY <1>9, <1>a, <1>b DEF IStart
  <1>10. CASE IWait(c)
    BY <1>10, <1>a, <1>b DEF IWait
  <1>11. CASE UOpen(c)
    BY <1>11, <1>a, <1>b DEF UOpen
  <1>12. CASE UStop(c)
    BY <1>12, <1>a, <1>b DEF UStop
  <1>13. CASE UWait(c)
    BY <1>13, <1>a, <1>b DEF UWait
  <1>14. CASE UDelete(c)
    BY <1>14, <1>a, <1>b DEF UDelete
  <1>15. CASE UClose(c)
    BY <1>15, <1>a, <1>b DEF UClose
  <1>16. CASE UUnlink(c)
    BY <1>16, <1>a, <1>b DEF UUnlink
  <1>17. CASE OpenPipe(c)
    BY <1>17, <1>a, <1>b DEF OpenPipe, exit_program
  <1>18. CASE GotVersion(c)
    BY <1>18, <1>a, <1>b DEF GotVersion, exit_program
  <1>19. CASE SessionEnds(c)
    BY <1>19, <1>a, <1>b DEF SessionEnds, exit_program
  <1>20. CASE Leave(c)
    BY <1>20, <1>a, <1>b DEF Leave
  <1>21. CASE Kill(c)
    BY <1>21, <1>a, <1>b DEF Kill
  <1> QED BY <1>1, <1>2, <1>3, <1>4, <1>5, <1>6, <1>7, <1>8, <1>9, <1>10, <1>11, <1>12, <1>13, <1>14, <1>15, <1>16, <1>17, <1>18, <1>19, <1>20, <1>21 DEF ClientStep, svc_install, svc_uninstall

----------------------------------------------------------------------------
\* Types and handles.

LEMMA SetRecordHeld ==
  ASSUME NEW r \in Record, NEW o \in [Client -> Nat], SetRecord(r, o),
         r.exists \/ r = NoRecord, \A c \in Client : o[c] > 0 => r.exists
  PROVE  rec' \in Record /\ open' \in [Client -> Nat] /\ HeldInv'
  <1> USE DEF SetRecord, NoRecord, Record
  <1>1. open' = o /\ (rec' = r \/ rec' = NoRecord)
    OBVIOUS
  <1>2. \A c \in Client : open'[c] > 0 => rec'.exists
    OBVIOUS
  <1>3. ~rec'.exists => rec' = NoRecord
    BY <1>1
  <1>4. (rec'.marked /\ rec'.state = "stopped") => \E c \in Client : open'[c] > 0
    OBVIOUS
  <1> QED BY <1>1, <1>2, <1>3, <1>4 DEF HeldInv

\* What a client's step has to do to the machine.
Serves(c) ==
    /\ file' \in [ver : Nat, whole : BOOLEAN] /\ need' \in [Client -> BOOLEAN]
    /\ rec' \in Record /\ open' \in [Client -> Nat] /\ HeldInv'
    /\ \A d \in Client \ {c} : open'[d] = open[d]
    /\ cpc'[c] \in HandleLabels => open'[c] > 0
    /\ cpc'[c] = "gone" => open'[c] = 0

ProcTypeOK ==
    /\ starts \in 0..(MaxStarts + 1)
    /\ procs \subseteq [id : 1..starts, ver : Nat,
                        phase : {"starting", "running", "leaving", "failed"}, pipe : BOOLEAN]

LEMMA ServesHandles ==
  ASSUME SvcTypeOK, HandleInv, NEW c \in Client, Moves(c), Serves(c), ProcTypeOK'
  PROVE  SvcTypeOK' /\ HandleInv' /\ HeldInv'
  <1>1. SvcTypeOK'
    BY TypeParts DEF MachineTypeOK, Moves, Serves, ProcTypeOK
  <1>2. HandleInv'
    BY TypeParts DEF HandleInv, Moves, Serves, Gone
  <1> QED BY <1>1, <1>2 DEF Serves

\* The steps that set the record.
LEMMA RecordHandles ==
  ASSUME SvcTypeOK, HandleInv, NEW c \in Client, Moves(c),
         NEW r \in Record, NEW o \in [Client -> Nat], SetRecord(r, o),
         r.exists \/ r = NoRecord, \A d \in Client : o[d] > 0 => r.exists,
         \A d \in Client \ {c} : o[d] = open[d],
         cpc'[c] \in HandleLabels => o[c] > 0, cpc'[c] = "gone" => o[c] = 0,
         file' \in [ver : Nat, whole : BOOLEAN], need' \in [Client -> BOOLEAN],
         ProcTypeOK'
  PROVE  SvcTypeOK' /\ HandleInv' /\ HeldInv'
  <1>1. rec' \in Record /\ open' \in [Client -> Nat] /\ HeldInv'
    BY SetRecordHeld
  <1>2. Serves(c)
    BY <1>1 DEF Serves, SetRecord
  <1> QED BY <1>2, ServesHandles

LEMMA FileValues ==
  ASSUME NEW v \in Nat, NEW b \in BOOLEAN
  PROVE  [ver |-> v, whole |-> b] \in [ver : Nat, whole : BOOLEAN]
  BY Zenon

LEMMA RecordValues ==
  ASSUME NEW i \in BOOLEAN, NEW m \in BOOLEAN, NEW s \in {"stopped", "starting", "running"}
  PROVE  [exists |-> TRUE, state |-> s, marked |-> m, interactive |-> i] \in Record
  BY DEF Record

LEMMA HandleStep ==
  ASSUME SvcAssumption, SvcTypeOK, HandleInv, HeldInv, NEW c \in Client,
         ClientStep(c) \/ Kill(c)
  PROVE  SvcTypeOK' /\ HandleInv' /\ HeldInv'
  <1> DEFINE Quiet == /\ UNCHANGED <<rec, open, procs, starts>>
                      /\ file' \in [ver : Nat, whole : BOOLEAN]
                      /\ need' \in [Client -> BOOLEAN]
                      /\ cpc'[c] \in HandleLabels => cpc[c] \in HandleLabels
                      /\ cpc'[c] # "gone"
  <1>a. CallTypeOK /\ MachineTypeOK /\ ProcTypeOK
    BY TypeParts DEF MachineTypeOK, ProcTypeOK
  <1>b. Moves(c)
    BY CallsMove
  <1>c. /\ \A ok \in BOOLEAN : Return(c, ok) => cpc'[c] \notin HandleLabels \union {"gone"}
        /\ Unreached(c) => cpc'[c] \notin HandleLabels \union {"gone"}
        /\ \A at : CallFails(c, at) => cpc'[c] \notin HandleLabels \union {"gone"}
    BY <1>a, ReturnMoves, UnreachedMoves, FailsMove DEF Returns, Loses, Fails, Exits, HandleLabels
  <1>d. CASE Quiet
    <2>1. Serves(c)
      BY <1>a, <1>d DEF Serves, HeldInv, HandleInv, MachineTypeOK
    <2>2. ProcTypeOK'
      BY <1>a, <1>d DEF ProcTypeOK
    <2> QED BY <1>b, <2>1, <2>2, ServesHandles
  <1>e. /\ OpenHandle(c) \in [Client -> Nat] /\ OpenHandle(c)[c] > 0
        /\ \A d \in Client \ {c} : OpenHandle(c)[d] = open[d]
    BY <1>a DEF OpenHandle, MachineTypeOK
  <1>f. Has(c, "interactive") \in BOOLEAN
    BY DEF Has
  <1> USE DEF Goto, Jump, Call, CallMissed, recVars, procVars, callVars, CallTypeOK, MachineTypeOK,
              HandleLabels
  <1>1. CASE main(c)
    <2>1. Quiet
      BY <1>1, <1>a DEF main, MainInstall
    <2> QED BY <2>1, <1>d
  <1>2. CASE IUpload(c)
    <2>1. file' = file \/ file' = [ver |-> ClientVersion[c], whole |-> FALSE]
      BY <1>2 DEF IUpload
    <2>2. file' \in [ver : Nat, whole : BOOLEAN]
      <3>1. ClientVersion[c] \in Nat
        BY DEF SvcAssumption
      <3> QED BY <2>1, <3>1, <1>a, FileValues
    <2>3. Quiet
      BY <1>2, <2>2, <1>a, <1>c, ZenonT(60) DEF IUpload
    <2> QED BY <2>3, <1>d
  <1>3. CASE ISave(c)
    <2>1. ClientVersion[c] \in Nat
      BY DEF SvcAssumption
    <2>2. [ver |-> ClientVersion[c], whole |-> file.ver = ClientVersion[c]]
             \in [ver : Nat, whole : BOOLEAN]
      BY <2>1, FileValues, Zenon
    <2>3. Quiet
      BY <1>3, <2>2, <1>a, <1>c DEF ISave
    <2> QED BY <2>3, <1>d
  <1>4. CASE IQuery(c)
    <2>1. Quiet
      BY <1>4, <1>a, <1>c DEF IQuery
    <2> QED BY <2>1, <1>d
  <1>5. CASE UWait(c)
    <2>1. Quiet
      BY <1>5, <1>a, <1>c DEF UWait
    <2> QED BY <2>1, <1>d
  <1>6. CASE UUnlink(c)
    <2>1. file' = file \/ file' = NoFile
      BY <1>6 DEF UUnlink
    <2>2. file' \in [ver : Nat, whole : BOOLEAN]
      BY <2>1, <1>a, FileValues DEF NoFile
    <2>3. Quiet
      BY <1>6, <2>2, <1>a, <1>c DEF UUnlink
    <2> QED BY <2>3, <1>d
  <1>7. CASE OpenPipe(c) \/ GotVersion(c) \/ SessionEnds(c) \/ Kill(c)
    <2>1. Quiet
      BY <1>7, <1>a DEF OpenPipe, GotVersion, SessionEnds, Kill, exit_program
    <2> QED BY <2>1, <1>d
  <1>8. CASE IOpen(c) \/ UOpen(c)
    <2>1. CASE Quiet
      BY <2>1, <1>d
    <2>2. CASE ~Quiet
      <3>1. /\ rec.exists /\ SetRecord(rec, OpenHandle(c))
            /\ need' \in [Client -> BOOLEAN] /\ cpc'[c] # "gone"
            /\ UNCHANGED <<file, procs, starts>>
        <4>1. CASE IOpen(c)
          <5>1. CASE rec.exists /\ SetRecord(rec, OpenHandle(c))
            BY <4>1, <5>1, <1>a, <1>c DEF IOpen
          <5>2. CASE ~(rec.exists /\ SetRecord(rec, OpenHandle(c)))
            BY <2>2, <4>1, <5>2, <1>a, <1>c DEF IOpen
          <5> QED BY <5>1, <5>2
        <4>2. CASE UOpen(c)
          BY <2>2, <4>2, <1>a, <1>c DEF UOpen
        <4> QED BY <1>8, <4>1, <4>2
      <3> QED BY <3>1, <1>a, <1>b, <1>e, RecordHandles DEF ProcTypeOK
    <2> QED BY <2>1, <2>2
  <1>9. CASE ICreate(c)
    <2>1. CASE Quiet
      BY <2>1, <1>d
    <2>2. CASE ~Quiet
      <3> DEFINE r == [exists |-> TRUE, state |-> "stopped", marked |-> FALSE,
                       interactive |-> Has(c, "interactive")]
      <3>1. /\ SetRecord(r, OpenHandle(c))
            /\ need' \in [Client -> BOOLEAN] /\ cpc'[c] # "gone"
            /\ UNCHANGED <<file, procs, starts>>
        BY <1>9, <2>2, <1>a, <1>c DEF ICreate
      <3>2. r \in Record /\ r.exists
        BY <1>f, RecordValues
      <3> HIDE DEF r
      <3> QED BY <3>1, <3>2, <1>a, <1>b, <1>e, RecordHandles DEF ProcTypeOK
    <2> QED BY <2>1, <2>2
  <1>10. CASE IStop(c) \/ UStop(c)
    <2>1. CASE Quiet
      BY <2>1, <1>d
    <2>2. CASE ~Quiet
      <3>1. /\ StopService /\ cpc[c] \in HandleLabels /\ cpc'[c] # "gone"
            /\ UNCHANGED <<file, need>>
        BY <1>10, <2>2, <1>a, <1>c DEF IStop, UStop
      <3>2. ProcTypeOK'
        <4>1. ASSUME NEW q \in procs'
              PROVE  q \in [id : 1..starts, ver : Nat,
                            phase : {"starting", "running", "leaving", "failed"}, pipe : BOOLEAN]
          BY <3>1, <1>a DEF StopService, ProcTypeOK
        <4> QED BY <3>1, <4>1, <1>a DEF StopService, ProcTypeOK
      <3>3. [rec EXCEPT !.state = "stopped"] \in Record /\ [rec EXCEPT !.state = "stopped"].exists
        BY <3>1, <1>a DEF Record, HandleInv, HeldInv
      <3> QED BY <3>1, <3>2, <3>3, <1>a, <1>b, RecordHandles
              DEF StopService, SetState, HandleInv
    <2> QED BY <2>1, <2>2
  <1>11. CASE IConfig(c)
    <2>1. CASE Quiet
      BY <2>1, <1>d
    <2>2. CASE ~Quiet
      <3> DEFINE r == [rec EXCEPT !.interactive = Has(c, "interactive")]
      <3>1. /\ SetRecord(r, open) /\ cpc[c] \in HandleLabels /\ cpc'[c] # "gone"
            /\ UNCHANGED <<file, procs, starts, need>>
        BY <1>11, <2>2, <1>a, <1>c DEF IConfig
      <3>2. r \in Record /\ r.exists
        BY <3>1, <1>a, <1>f DEF Record, HandleInv, HeldInv
      <3> HIDE DEF r
      <3> QED BY <3>1, <3>2, <1>a, <1>b, RecordHandles DEF ProcTypeOK, HandleInv
    <2> QED BY <2>1, <2>2
  <1>12. CASE IStart(c)
    <2>1. CASE Quiet
      BY <2>1, <1>d
    <2>2. CASE ~Quiet
      <3>1. /\ StartProcess /\ cpc[c] \in HandleLabels /\ cpc'[c] # "gone"
            /\ UNCHANGED <<file, need>>
        BY <1>12, <2>2, <1>a, <1>c DEF IStart
      <3>2. ProcTypeOK'
        <4> DEFINE p == [id |-> starts + 1, ver |-> file.ver, phase |-> "starting", pipe |-> FALSE]
        <4>1. starts' = starts + 1 /\ starts' \in 0..(MaxStarts + 1) /\ procs' = procs \union {p}
          BY <3>1, <1>a DEF StartProcess, ProcTypeOK, SvcAssumption
        <4>2. p \in [id : 1..starts', ver : Nat,
                     phase : {"starting", "running", "leaving", "failed"}, pipe : BOOLEAN]
          BY <4>1, <1>a
        <4> HIDE DEF p
        <4> QED BY <4>1, <4>2, <1>a DEF ProcTypeOK
      <3>3. [rec EXCEPT !.state = "starting"] \in Record /\ [rec EXCEPT !.state = "starting"].exists
        BY <3>1, <1>a DEF Record, HandleInv, HeldInv
      <3> QED BY <3>1, <3>2, <3>3, <1>a, <1>b, RecordHandles
              DEF StartProcess, SetState, HandleInv
    <2> QED BY <2>1, <2>2
  <1>13. CASE IWait(c) \/ UClose(c)
    <2>1. CASE Quiet
      BY <2>1, <1>d
    <2>2. CASE ~Quiet
      <3>1. /\ SetRecord(rec, CloseHandle(c)) /\ cpc[c] \in HandleLabels
            /\ cpc'[c] \notin HandleLabels \union {"gone"}
            /\ UNCHANGED <<file, procs, starts, need>>
        BY <1>13, <2>2, <1>a, <1>c DEF IWait, UClose
      <3>2. /\ CloseHandle(c) \in [Client -> Nat] /\ rec.exists
            /\ \A d \in Client \ {c} : CloseHandle(c)[d] = open[d]
        BY <3>1, <1>a DEF CloseHandle, HandleInv, HeldInv
      <3> QED BY <3>1, <3>2, <1>a, <1>b, RecordHandles DEF ProcTypeOK
    <2> QED BY <2>1, <2>2
  <1>14. CASE UDelete(c)
    <2>1. CASE Quiet
      BY <2>1, <1>d
    <2>2. CASE ~Quiet
      <3> DEFINE r == [rec EXCEPT !.marked = TRUE]
      <3>1. /\ SetRecord(r, open) /\ cpc[c] \in HandleLabels /\ cpc'[c] # "gone"
            /\ UNCHANGED <<file, procs, starts, need>>
        BY <1>14, <2>2, <1>a DEF UDelete
      <3>2. r \in Record /\ r.exists
        BY <3>1, <1>a DEF Record, HandleInv, HeldInv
      <3> HIDE DEF r
      <3> QED BY <3>1, <3>2, <1>a, <1>b, RecordHandles DEF ProcTypeOK, HandleInv
    <2> QED BY <2>1, <2>2
  <1>15. CASE Leave(c)
    <2> DEFINE o == [open EXCEPT ![c] = 0]
    <2>1. /\ SetRecord(rec, o) /\ cpc'[c] = "gone"
          /\ UNCHANGED <<file, procs, starts, need>>
      BY <1>15, <1>a DEF Leave
    <2>2. /\ o \in [Client -> Nat] /\ o[c] = 0 /\ \A d \in Client \ {c} : o[d] = open[d]
          /\ \A d \in Client : o[d] > 0 => rec.exists
      BY <1>a DEF HeldInv
    <2> HIDE DEF o
    <2>3. rec.exists \/ rec = NoRecord
      BY DEF HeldInv
    <2> QED BY <2>1, <2>2, <2>3, <1>a, <1>b, RecordHandles DEF ProcTypeOK
  <1> QED BY <1>1, <1>2, <1>3, <1>4, <1>5, <1>6, <1>7, <1>8, <1>9, <1>10, <1>11, <1>12,
             <1>13, <1>14, <1>15
          DEF ClientStep, svc_install, svc_uninstall

LEMMA ProcessHandles ==
  ASSUME SvcTypeOK, HandleInv, HeldInv, NEW p \in procs, Works(p),
         ReportRunning(p) \/ ReportStopped(p) => rec.exists
  PROVE  SvcTypeOK' /\ HandleInv' /\ HeldInv'
  <1>a. CallTypeOK /\ MachineTypeOK /\ ProcTypeOK
    BY TypeParts DEF MachineTypeOK, ProcTypeOK
  <1>b. UNCHANGED <<callVars, file, need, starts>>
    BY DEF Works, ReportRunning, ReportStopped, PipeReady, ProcessExit
  <1>c. CallTypeOK'
    BY <1>a, <1>b DEF CallTypeOK, callVars
  <1>d. ProcTypeOK'
    BY <1>a, <1>b DEF Works, ReportRunning, ReportStopped, PipeReady, ProcessExit, ProcTypeOK
  <1>e. rec' \in Record /\ open' = open /\ HeldInv'
    <2>1. ASSUME NEW s \in {"running", "stopped"}, SetState(s), rec.exists
          PROVE  rec' \in Record /\ open' = open /\ HeldInv'
      <3> DEFINE r == [rec EXCEPT !.state = s]
      <3>1. SetRecord(r, open)
        BY <2>1 DEF SetState
      <3>2. r \in Record /\ r.exists
        BY <2>1, <1>a DEF MachineTypeOK, Record
      <3> HIDE DEF r
      <3>3. rec' \in Record /\ HeldInv'
        BY <3>1, <3>2, <1>a, SetRecordHeld DEF HeldInv, MachineTypeOK
      <3> QED BY <3>1, <3>3 DEF SetRecord
    <2>2. CASE ReportRunning(p) \/ ReportStopped(p)
      BY <2>1, <2>2 DEF ReportRunning, ReportStopped
    <2>3. CASE PipeReady(p) \/ ProcessExit(p)
      BY <2>3, <1>a DEF PipeReady, ProcessExit, recVars, HeldInv, MachineTypeOK
    <2> QED BY <2>2, <2>3 DEF Works
  <1>f. HandleInv'
    BY <1>b, <1>e DEF HandleInv, Gone, callVars
  <1> QED BY <1>a, <1>b, <1>c, <1>d, <1>e, <1>f, TypeParts DEF MachineTypeOK, ProcTypeOK

----------------------------------------------------------------------------
\* Processes and callers.

LEMMA SetRecordState ==
  ASSUME NEW r \in Record, NEW o, SetRecord(r, o)
  PROVE  rec'.state = r.state
  BY DEF SetRecord, NoRecord, Record

\* A client stops the process that runs, or starts one where none works.
Stops(c) ==
    /\ StopService /\ rec.state = "running" /\ rec'.state = "stopped"
    /\ cpc[c] \in {"i_stop", "u_stop"}
Starts(c) ==
    /\ StartProcess /\ Startable /\ rec'.state = "starting"
    /\ cpc[c] = "i_start" /\ cpc'[c] = "i_wait" /\ ret' = ret /\ result' = result

LEMMA ClientProcesses ==
  ASSUME SvcTypeOK, HandleInv, HeldInv, NEW c \in Client, ClientStep(c) \/ Kill(c)
  PROVE  Stops(c) \/ Starts(c) \/ (UNCHANGED <<procs, starts>> /\ rec'.state = rec.state)
  <1> DEFINE Same == UNCHANGED <<procs, starts>> /\ rec'.state = rec.state
  <1>a. MachineTypeOK /\ CallTypeOK
    BY TypeParts
  <1>b. \A o : SetRecord(rec, o) => rec'.state = rec.state
    BY <1>a, SetRecordState DEF MachineTypeOK
  <1> USE DEF recVars, procVars, Jump, Goto, CallMissed
  <1>1. CASE main(c) \/ IUpload(c) \/ ISave(c) \/ IQuery(c) \/ UWait(c) \/ UUnlink(c)
    BY <1>1 DEF main, IUpload, ISave, IQuery, UWait, UUnlink
  <1>2. CASE OpenPipe(c) \/ GotVersion(c) \/ SessionEnds(c) \/ Kill(c)
    BY <1>2 DEF OpenPipe, GotVersion, SessionEnds, Kill
  <1>3. CASE IOpen(c) \/ UOpen(c) \/ IWait(c) \/ UClose(c) \/ Leave(c)
    BY <1>3, <1>b DEF IOpen, UOpen, IWait, UClose, Leave
  <1>4. CASE ICreate(c)
    <2> DEFINE r == [exists |-> TRUE, state |-> "stopped", marked |-> FALSE,
                     interactive |-> Has(c, "interactive")]
    <2>1. CASE rec.exists
      BY <1>4, <2>1 DEF ICreate
    <2>2. CASE ~rec.exists
      <3>1. Has(c, "interactive") \in BOOLEAN
        BY DEF Has
      <3>2. r \in Record /\ r.state = "stopped"
        BY <3>1, RecordValues
      <3>3. (SetRecord(r, OpenHandle(c)) \/ UNCHANGED rec) /\ UNCHANGED procVars
        BY <1>4, <2>2 DEF ICreate
      <3> HIDE DEF r
      <3>4. rec'.state = "stopped" \/ UNCHANGED rec
        BY <3>2, <3>3, SetRecordState
      <3> QED BY <2>2, <3>3, <3>4 DEF HeldInv, NoRecord
    <2> QED BY <2>1, <2>2
  <1>5. CASE IConfig(c) \/ UDelete(c)
    <2>1. ASSUME NEW b \in BOOLEAN
          PROVE  /\ [rec EXCEPT !.interactive = b] \in Record
                 /\ [rec EXCEPT !.interactive = b].state = rec.state
                 /\ [rec EXCEPT !.marked = TRUE] \in Record
                 /\ [rec EXCEPT !.marked = TRUE].state = rec.state
      BY <1>a DEF MachineTypeOK, Record
    <2>2. Has(c, "interactive") \in BOOLEAN
      BY DEF Has
    <2> QED BY <1>5, <2>1, <2>2, SetRecordState DEF IConfig, UDelete
  <1>6. CASE IStop(c) \/ UStop(c)
    <2>1. [rec EXCEPT !.state = "stopped"] \in Record
      BY <1>a DEF MachineTypeOK, Record
    <2>2. StopService => rec'.state = "stopped"
      BY <2>1, <1>a, SetRecordState DEF StopService, SetState, MachineTypeOK, Record
    <2> QED BY <1>6, <2>2 DEF IStop, UStop, Stops
  <1>7. CASE IStart(c)
    <2>1. [rec EXCEPT !.state = "starting"] \in Record
      BY <1>a DEF MachineTypeOK, Record
    <2>2. StartProcess => rec'.state = "starting"
      BY <2>1, <1>a, SetRecordState DEF StartProcess, SetState, MachineTypeOK, Record
    <2> QED BY <1>7, <2>2, <1>a DEF IStart, Starts, CallTypeOK
  <1> QED BY <1>1, <1>2, <1>3, <1>4, <1>5, <1>6, <1>7 DEF ClientStep, svc_install, svc_uninstall

LEMMA ClientProcInv ==
  ASSUME SvcTypeOK, HandleInv, HeldInv, ProcInv, NEW c \in Client, ClientStep(c) \/ Kill(c)
  PROVE  ProcInv'
  <1>a. ProcTypeOK
    BY TypeParts DEF MachineTypeOK, ProcTypeOK
  <1>1. CASE Stops(c)
    BY <1>1, <1>a DEF Stops, StopService, ProcInv, ProcTypeOK, Ending
  <1>2. CASE Starts(c)
    <2> DEFINE p == [id |-> starts + 1, ver |-> file.ver, phase |-> "starting", pipe |-> FALSE]
    <2>1. /\ procs' = procs \union {p} /\ rec'.state = "starting"
          /\ \A q \in procs : q.phase \in Ending /\ q.id \in 1..starts
      BY <1>2, <1>a DEF Starts, StartProcess, Startable, ProcInv, ProcTypeOK
    <2>2. p.id = starts + 1 /\ p.phase = "starting"
      OBVIOUS
    <2> HIDE DEF p
    <2> QED BY <1>a, <2>1, <2>2 DEF ProcInv, ProcTypeOK, Ending
  <1>3. CASE UNCHANGED <<procs, starts>> /\ rec'.state = rec.state
    BY <1>3 DEF ProcInv
  <1> QED BY <1>1, <1>2, <1>3, ClientProcesses

LEMMA ClientCallInv ==
  ASSUME SvcTypeOK, HandleInv, HeldInv, CallInv, NEW c \in Client, ClientStep(c) \/ Kill(c)
  PROVE  CallInv' /\ result[c] \subseteq result'[c]
  <1>a. CallTypeOK
    BY TypeParts
  <1>b. Moves(c)
    BY CallsMove
  <1> DEFINE Fits == /\ ret'[c] = "exit" => cpc'[c] \in Exiting
                     /\ cpc'[c] \in {"leave", "gone"} => ret'[c] = "exit" \/ "killed" \in result'[c]
                     /\ "killed" \in result'[c] => cpc'[c] \in {"leave", "gone"}
                     /\ "unreached" \in result'[c] => "call" \in Faults
                     /\ result[c] \subseteq result'[c]
                     /\ cpc[c] = "i_wait" => \/ cpc'[c] = "i_wait" \/ "killed" \in result'[c]
                                             \/ "unreached" \in result'[c] \/ rec.state # "starting"
  <1>d. Fits
    <2> USE DEF Goto, Jump, Call, CallTypeOK, CallInv, Exiting, Labels, Caller, callVars, Exits, Note
    <2>1. CASE main(c)
      BY <2>1, <1>a DEF main, MainInstall
    <2>2. CASE svc_install(c) \/ svc_uninstall(c)
      <3>1. Served(c)
        BY <2>2, <1>a, CallsServed
      <3>2. cpc[c] = "i_wait" => Loses(c) \/ rec.state # "starting"
        <4>1. cpc[c] = "i_wait" => IWait(c)
          BY <2>2 DEF svc_install, svc_uninstall, IUpload, ISave, IOpen, ICreate, IQuery, IStop,
             IConfig, IStart, UOpen, UStop, UWait, UDelete, UClose, UUnlink, CallFails
        <4> QED BY <4>1, <1>a, UnreachedMoves DEF IWait
      <3>3. cpc[c] \in Installing \union Uninstalling
        BY <2>2 DEF svc_install, svc_uninstall, IUpload, ISave, IOpen, ICreate, IQuery, IStop, IConfig,
           IStart, IWait, UOpen, UStop, UWait, UDelete, UClose, UUnlink, CallFails, Installing, Uninstalling
      <3>4. CASE Returns(c)
        BY <3>2, <3>3, <3>4, <1>a DEF Returns, Loses, Installing, Uninstalling
      <3>5. CASE Loses(c) /\ "call" \in Faults
        BY <3>3, <3>5, <1>a DEF Loses, Installing, Uninstalling
      <3>6. CASE Goes(c)
        BY <3>2, <3>3, <3>6, <1>a DEF Goes, Loses, Installing, Uninstalling
      <3> QED BY <3>1, <3>4, <3>5, <3>6 DEF Served
    <2>3. CASE OpenPipe(c) \/ GotVersion(c) \/ SessionEnds(c) \/ Leave(c) \/ Kill(c)
      BY <2>3, <1>a, SMTT(30) DEF OpenPipe, GotVersion, SessionEnds, Leave, Kill, exit_program
    <2> QED BY <2>1, <2>2, <2>3 DEF ClientStep
  <1>1. \A d \in Client : /\ ret'[d] = "exit" => cpc'[d] \in Exiting
                          /\ cpc'[d] \in {"leave", "gone"} => ret'[d] = "exit" \/ "killed" \in result'[d]
                          /\ "killed" \in result'[d] => cpc'[d] \in {"leave", "gone"}
                          /\ "unreached" \in result'[d] => "call" \in Faults
    BY <1>b, <1>d DEF CallInv, Moves
  <1>2. rec'.state = "starting" => \E d \in Client : cpc'[d] = "i_wait" \/ Hindered(d)'
    <2>1. CASE Starts(c)
      BY <2>1 DEF Starts
    <2>2. CASE ~Starts(c)
      <3>1. rec'.state = "starting" => rec.state = "starting"
        BY <2>2, ClientProcesses DEF Stops
      <3> QED BY <3>1, <1>b, <1>d DEF CallInv, Moves, Hindered
    <2> QED BY <2>1, <2>2
  <1> QED BY <1>1, <1>2, <1>d DEF CallInv

LEMMA ProcessStepInv ==
  ASSUME SvcInv, NEW p \in procs, Works(p)
  PROVE  SvcInv'
  <1>a. ProcTypeOK /\ MachineTypeOK
    BY TypeParts DEF SvcInv, MachineTypeOK, ProcTypeOK
  <1>b. ReportRunning(p) \/ ReportStopped(p) => rec.exists
    BY <1>a DEF ReportRunning, ReportStopped, SvcInv, ProcInv, HeldInv, NoRecord, Ending
  <1>1. SvcTypeOK' /\ HandleInv' /\ HeldInv'
    BY <1>b, ProcessHandles DEF SvcInv
  <1>2. /\ ReportRunning(p) => rec'.state = "running"
        /\ ReportStopped(p) => rec'.state = "stopped"
    <2>1. \A s \in {"running", "stopped"} : /\ [rec EXCEPT !.state = s] \in Record
                                            /\ [rec EXCEPT !.state = s].state = s
      BY <1>a DEF MachineTypeOK, Record
    <2> QED BY <2>1, SetRecordState DEF ReportRunning, ReportStopped, SetState
  <1>3. ProcInv'
    <2>1. ASSUME NEW s \in {"running", "failed"}, p.phase = "starting",
                 procs' = (procs \ {p}) \union {[p EXCEPT !.phase = s]},
                 s = "running" => rec'.state = "running"
          PROVE  ProcInv'
      <3> DEFINE q == [p EXCEPT !.phase = s]
      <3>1. procs' = (procs \ {p}) \union {q}
        BY <2>1
      <3>2. q.id = p.id /\ q.phase = s
        BY <1>a DEF ProcTypeOK
      <3> HIDE DEF q
      <3>3. \A r \in procs \ {p} : r.phase \in Ending
        BY <2>1 DEF SvcInv, ProcInv, Ending
      <3> QED BY <2>1, <3>1, <3>2, <3>3 DEF SvcInv, ProcInv, Ending
    <2>2. CASE ReportRunning(p) \/ ReportStopped(p)
      BY <1>2, <2>1, <2>2 DEF ReportRunning, ReportStopped
    <2>3. CASE PipeReady(p)
      <3> DEFINE q == [p EXCEPT !.pipe = TRUE]
      <3>1. procs' = (procs \ {p}) \union {q} /\ rec' = rec
        BY <2>3 DEF PipeReady, recVars
      <3>2. q.id = p.id /\ q.phase = p.phase
        BY <1>a DEF ProcTypeOK
      <3> HIDE DEF q
      <3> QED BY <3>1, <3>2 DEF SvcInv, ProcInv
    <2>4. CASE ProcessExit(p)
      BY <2>4 DEF ProcessExit, recVars, SvcInv, ProcInv
    <2> QED BY <2>2, <2>3, <2>4 DEF Works
  <1>4. CallInv'
    BY <1>2 DEF Works, ReportRunning, ReportStopped, PipeReady, ProcessExit, SvcInv, CallInv, Hindered,
       callVars, recVars
  <1> QED BY <1>1, <1>3, <1>4 DEF SvcInv

LEMMA SvcInitInv ==
  ASSUME SvcAssumption, SvcInit
  PROVE  SvcInv
  <1>1. CallTypeOK /\ HandleInv /\ open \in [Client -> Nat] /\ need \in [Client -> BOOLEAN]
    BY DEF SvcInit, CallTypeOK, HandleInv, HandleLabels, Labels, Caller, Results, Gone, SvcAssumption
  <1>2. CASE /\ rec = NoRecord /\ procs = {} /\ starts = 0
             /\ file = NoFile \/ \E v \in Present, b \in BOOLEAN : file = [ver |-> v, whole |-> b]
    <2>1. file \in [ver : Nat, whole : BOOLEAN] /\ NoRecord \in Record
      BY <1>2, FileValues DEF NoFile, NoRecord, Record, SvcAssumption
    <2>2. MachineTypeOK
      BY <1>1, <1>2, <2>1 DEF MachineTypeOK, SvcAssumption
    <2>3. HeldInv /\ ProcInv /\ CallInv
      BY <1>2 DEF SvcInit, HeldInv, ProcInv, CallInv, NoRecord
    <2> QED BY <1>1, <2>2, <2>3, TypeParts DEF SvcInv
  <1>3. ASSUME NEW v \in Present, NEW i \in Types, NEW running \in BOOLEAN,
               file = [ver |-> v, whole |-> TRUE],
               rec = [exists |-> TRUE, interactive |-> i, marked |-> FALSE,
                      state |-> IF running THEN "running" ELSE "stopped"],
               procs = IF running
                       THEN {[id |-> 1, ver |-> v, phase |-> "running", pipe |-> TRUE]}
                       ELSE {},
               starts = IF running THEN 1 ELSE 0
        PROVE  SvcInv
    <2>1. v \in Nat /\ i \in BOOLEAN /\ starts \in {0, 1}
      BY <1>3 DEF SvcAssumption
    <2>2. file \in [ver : Nat, whole : BOOLEAN] /\ rec \in Record
      BY <1>3, <2>1, FileValues, RecordValues DEF Record
    <2>3. procs \subseteq [id : 1..starts, ver : Nat,
                          phase : {"starting", "running", "leaving", "failed"}, pipe : BOOLEAN]
      <3>1. CASE running
        BY <1>3, <2>1, <3>1
      <3>2. CASE ~running
        BY <1>3, <3>2
      <3> QED BY <3>1, <3>2
    <2>4. MachineTypeOK
      BY <1>1, <2>1, <2>2, <2>3 DEF MachineTypeOK, SvcAssumption
    <2>5. HeldInv /\ ProcInv /\ CallInv
      <3>1. HeldInv /\ CallInv
        BY <1>3 DEF SvcInit, HeldInv, CallInv
      <3> DEFINE q == [id |-> 1, ver |-> v, phase |-> "running", pipe |-> TRUE]
      <3>2. (\A p \in procs : p = q /\ running) /\ q.phase = "running"
        BY <1>3
      <3> HIDE DEF q
      <3>3. running => rec.state = "running"
        BY <1>3
      <3>4. ProcInv
        BY <3>2, <3>3 DEF ProcInv, Ending
      <3> QED BY <3>1, <3>4
    <2> QED BY <1>1, <2>4, <2>5, TypeParts DEF SvcInv
  <1> QED BY <1>2, <1>3 DEF SvcInit

LEMMA SvcStepInv ==
  ASSUME SvcAssumption, SvcInv, [SvcNext]_svcVars
  PROVE  SvcInv'
  <1>1. ASSUME NEW c \in Client, ClientStep(c) \/ Kill(c)
        PROVE  SvcInv'
    BY <1>1, HandleStep, ClientProcInv, ClientCallInv DEF SvcInv
  <1>2. CASE ProcessStep
    BY <1>2, ProcessStepInv DEF ProcessStep, Works
  <1>3. CASE UNCHANGED svcVars
    BY <1>3 DEF svcVars, recVars, procVars, callVars, SvcInv, SvcTypeOK, HandleInv, HeldInv,
                ProcInv, CallInv, Gone, Hindered
  <1> QED BY <1>1, <1>2, <1>3 DEF SvcNext

\* The state is of its type; above all no client closes a handle it has not
\* opened, whichever way it took through svc_install and svc_uninstall.
THEOREM SvcTypeCorrect == SvcSpec => []SvcTypeOK
  <1>1. SvcInit => SvcInv
    BY SvcInitInv, SvcAssumption
  <1>2. SvcInv /\ [SvcNext]_svcVars => SvcInv'
    BY SvcStepInv, SvcAssumption
  <1>3. SvcInv => SvcTypeOK
    BY DEF SvcInv
  <1> QED BY <1>1, <1>2, <1>3, PTL DEF SvcSpec

----------------------------------------------------------------------------
\* Clients that agree.

AgreeLabels == {"main", "i_upload", "i_save", "i_open", "i_create", "i_query",
                "i_start", "i_wait", "opening", "version", "session", "leave", "gone"}
AgreeInv ==
    /\ \A c \in Client : cpc[c] \in AgreeLabels
    /\ rec.exists => \A c \in Client : rec.interactive = Has(c, "interactive")
    /\ \A p \in procs : p.phase # "leaving" /\ (p.phase = "failed" => ~p.pipe)
    /\ \A c \in Client : cpc[c] \in {"version", "session"} =>
          \E p \in procs : p.id = conn[c] /\ p.pipe
    /\ \A c \in Client : "broken" \notin result[c]

\* The versions of all files and processes that may be met.
VersionInv ==
    \A c \in Client : /\ \A p \in procs : Same10(p.ver, ClientVersion[c])
                      /\ file.whole => Same10(file.ver, ClientVersion[c])

AgreedInv == (OneVersion => VersionInv) /\ (Agreed => AgreeInv)

LEMMA SameVersions ==
  ASSUME SvcAssumption, OneVersion, NEW c \in Client, NEW d \in Client
  PROVE  Same10(ClientVersion[d], ClientVersion[c])
  BY DEF OneVersion

\* What a client's step does to the file.
Uploads(c) ==
    /\ cpc[c] = "i_upload" /\ cpc'[c] = "i_save" /\ procs = {}
    /\ Has(c, "reinstall") \/ file.ver = 0
    /\ file' = [ver |-> ClientVersion[c], whole |-> FALSE]
Saves(c) ==
    /\ cpc[c] = "i_save" /\ cpc'[c] = "i_open"
    /\ file' = [ver |-> ClientVersion[c], whole |-> file.ver = ClientVersion[c]]
Unlinks(c) ==
    /\ cpc[c] = "u_unlink" /\ procs = {} /\ Writers = {} /\ file' = NoFile

LEMMA ClientFile ==
  ASSUME SvcTypeOK, NEW c \in Client, ClientStep(c) \/ Kill(c)
  PROVE  file' = file \/ Uploads(c) \/ Saves(c) \/ Unlinks(c)
  <1>a. CallTypeOK
    BY TypeParts
  <1> USE DEF Jump, Goto, CallTypeOK
  <1>1. CASE IUpload(c)
    BY <1>1, <1>a DEF IUpload, Uploads
  <1>2. CASE ISave(c)
    BY <1>2, <1>a DEF ISave, Saves
  <1>3. CASE UUnlink(c)
    BY <1>3 DEF UUnlink, Unlinks
  <1>4. CASE ~(IUpload(c) \/ ISave(c) \/ UUnlink(c))
    BY <1>4 DEF ClientStep, svc_install, svc_uninstall, main, IOpen, ICreate, IQuery, IStop,
                IConfig, IStart, IWait, UOpen, UStop, UWait, UDelete, UClose, OpenPipe,
                GotVersion, SessionEnds, Leave, Kill
  <1> QED BY <1>1, <1>2, <1>3, <1>4

LEMMA VersionStep ==
  ASSUME SvcAssumption, OneVersion, SvcInv, VersionInv, [SvcNext]_svcVars
  PROVE  VersionInv'
  <1>a. ProcTypeOK
    BY TypeParts DEF SvcInv, MachineTypeOK, ProcTypeOK
  <1> SUFFICES ASSUME NEW d \in Client
               PROVE  /\ \A p \in procs' : Same10(p.ver, ClientVersion[d])
                      /\ file'.whole => Same10(file'.ver, ClientVersion[d])
    BY DEF VersionInv
  <1>1. ASSUME NEW c \in Client, ClientStep(c) \/ Kill(c)
        PROVE  /\ \A p \in procs' : Same10(p.ver, ClientVersion[d])
               /\ file'.whole => Same10(file'.ver, ClientVersion[d])
    <2>1. file'.whole => Same10(file'.ver, ClientVersion[d])
      <3>1. Same10(ClientVersion[c], ClientVersion[d])
        BY SameVersions
      <3> QED BY <1>1, <3>1, ClientFile DEF VersionInv, SvcInv, Uploads, Saves, Unlinks, NoFile
    <2>2. CASE Stops(c)
      BY <2>1, <2>2, <1>a DEF Stops, StopService, VersionInv, ProcTypeOK
    <2>3. CASE Starts(c)
      BY <2>1, <2>3 DEF Starts, StartProcess, Startable, VersionInv
    <2>4. CASE procs' = procs
      BY <2>1, <2>4 DEF VersionInv
    <2> QED BY <1>1, <2>2, <2>3, <2>4, ClientProcesses DEF SvcInv
  <1>2. CASE ProcessStep
    <2>1. PICK p \in procs : Works(p)
      BY <1>2 DEF ProcessStep, Works
    <2>2. (\A s : [p EXCEPT !.phase = s].ver = p.ver) /\ [p EXCEPT !.pipe = TRUE].ver = p.ver
      BY <1>a DEF ProcTypeOK
    <2> QED BY <2>1, <2>2 DEF Works, ReportRunning, ReportStopped, PipeReady, ProcessExit, VersionInv
  <1>3. CASE UNCHANGED svcVars
    BY <1>3 DEF svcVars, procVars, VersionInv
  <1> QED BY <1>1, <1>2, <1>3 DEF SvcNext

\* What a client's step does to the type of the service.
LEMMA ClientType ==
  ASSUME SvcInv, NEW c \in Client, ClientStep(c) \/ Kill(c), rec'.exists
  PROVE  \/ rec.exists /\ rec'.interactive = rec.interactive
         \/ cpc[c] \in {"i_create", "i_config"} /\ rec'.interactive = Has(c, "interactive")
  <1>a. rec \in Record /\ (~rec.exists => rec = NoRecord)
    BY TypeParts DEF SvcInv, MachineTypeOK, HeldInv
  <1>b. \A r, o : SetRecord(r, o) => rec' = r
    BY DEF SetRecord, NoRecord
  <1> USE DEF recVars, procVars
  <1>1. CASE IStop(c) \/ IStart(c) \/ UStop(c)
    <2>1. ASSUME NEW s PROVE  /\ [rec EXCEPT !.state = s].exists = rec.exists
                              /\ [rec EXCEPT !.state = s].interactive = rec.interactive
      BY <1>a DEF Record
    <2>2. rec' = rec \/ \E s : rec' = [rec EXCEPT !.state = s]
      BY <1>1, <1>b DEF IStop, IStart, UStop, StopService, StartProcess, SetState
    <2> QED BY <2>1, <2>2
  <1>2. CASE ICreate(c)
    <2> DEFINE r == [exists |-> TRUE, state |-> "stopped", marked |-> FALSE,
                     interactive |-> Has(c, "interactive")]
    <2>1. r.interactive = Has(c, "interactive")
      OBVIOUS
    <2>2. rec.exists => UNCHANGED rec
      BY <1>2 DEF ICreate
    <2>3. ~rec.exists => SetRecord(r, OpenHandle(c)) /\ cpc[c] = "i_create"
      BY <1>2 DEF ICreate
    <2> HIDE DEF r
    <2> QED BY <1>b, <2>1, <2>2, <2>3
  <1>3. CASE IConfig(c)
    <2>1. [rec EXCEPT !.interactive = Has(c, "interactive")].interactive = Has(c, "interactive")
      BY <1>a DEF Record
    <2>2. rec' = rec \/ (cpc[c] = "i_config" /\ rec'.interactive = Has(c, "interactive"))
      BY <1>3, <1>b, <2>1 DEF IConfig, CallFails
    <2> QED BY <2>2
  <1>4. CASE UDelete(c)
    <2>1. /\ [rec EXCEPT !.marked = TRUE].exists = rec.exists
          /\ [rec EXCEPT !.marked = TRUE].interactive = rec.interactive
      BY <1>a DEF Record
    <2>2. rec' = rec \/ rec' = [rec EXCEPT !.marked = TRUE]
      BY <1>4, <1>b DEF UDelete
    <2> QED BY <2>1, <2>2
  <1>5. CASE IOpen(c) \/ IWait(c) \/ UOpen(c) \/ UClose(c) \/ Leave(c)
    BY <1>5, <1>b DEF IOpen, IWait, UOpen, UClose, Leave
  <1>6. CASE main(c) \/ IUpload(c) \/ ISave(c) \/ IQuery(c) \/ UWait(c) \/ UUnlink(c)
    BY <1>6 DEF main, IUpload, ISave, IQuery, UWait, UUnlink
  <1>7. CASE OpenPipe(c) \/ GotVersion(c) \/ SessionEnds(c) \/ Kill(c)
    BY <1>7 DEF OpenPipe, GotVersion, SessionEnds, Kill
  <1> QED BY <1>1, <1>2, <1>3, <1>4, <1>5, <1>6, <1>7 DEF ClientStep, svc_install, svc_uninstall

LEMMA AgreeClientStep ==
  ASSUME SvcAssumption, Agreed, SvcInv, VersionInv, AgreeInv, NEW c \in Client,
         ClientStep(c) \/ Kill(c)
  PROVE  AgreeInv'
  <1>a. CallTypeOK /\ ProcTypeOK
    BY TypeParts DEF SvcInv, MachineTypeOK, ProcTypeOK
  <1>b. Moves(c)
    BY CallsMove DEF SvcInv
  <1>c. /\ \A ok \in BOOLEAN : Return(c, ok) => Returns(c)
        /\ Unreached(c) => Loses(c)
        /\ \A at : CallFails(c, at) => Fails(c, at)
    BY <1>a, ReturnMoves, UnreachedMoves, FailsMove
  <1>d. /\ ~Has(c, "uninstall") /\ ~Has(c, "reinstall")
        /\ \A d \in Client : Has(d, "interactive") = Has(c, "interactive")
    BY DEF Agreed, Has
  <1>e. cpc[c] \in {"version", "session"} => Connected(c) /\ Compatible(c)
    BY DEF AgreeInv, VersionInv, Connected, Compatible
  <1>f. cpc[c] = "i_query" => rec.interactive = Has(c, "interactive")
    BY DEF SvcInv, HandleInv, HeldInv, HandleLabels, AgreeInv
  <1>1. /\ cpc'[c] \in AgreeLabels /\ "broken" \notin result'[c]
        /\ cpc'[c] \in {"version", "session"} =>
              \/ cpc[c] \in {"version", "session"} /\ conn'[c] = conn[c]
              \/ \E p \in procs : p.id = conn'[c] /\ p.pipe
    <2> USE DEF Goto, Jump, Call, CallTypeOK, AgreeLabels, AgreeInv, callVars, Exits, Note, Results
    <2>0. CASE main(c)
      BY <2>0, <1>a, <1>d DEF main, MainInstall
    <2>1. CASE svc_install(c) \/ svc_uninstall(c)
      <3>1. Served(c)
        BY <2>1, <1>a, CallsServed
      <3>2. cpc'[c] \notin {"i_stop", "i_config"}
        <4>1. CASE IQuery(c)
          BY <4>1, <1>a, <1>f, <1>c DEF IQuery, Returns, Loses, Fails
        <4>2. CASE ~IQuery(c)
          <5>1. CASE ~(Goes(c) /\ cpc[c] \in Installing)
            BY <3>1, <5>1 DEF Served, Returns, Loses, Goes, Uninstalling
          <5>2. ASSUME Goes(c), cpc[c] \in Installing
                PROVE  cpc'[c] \notin {"i_stop", "i_config"}
            <6>1. IUpload(c) \/ ISave(c) \/ IOpen(c) \/ ICreate(c) \/ IStart(c) \/ IWait(c)
              BY <2>1, <4>2, <5>2 DEF svc_install, svc_uninstall, IStop, IConfig, UOpen, UStop, UWait, UDelete,
                 UClose, UUnlink, CallFails, Installing
            <6> QED BY <5>2, <6>1, <1>a, <1>c DEF IUpload, ISave, IOpen, ICreate, IStart, IWait, Returns,
                  Loses, Fails
          <5> QED BY <5>1, <5>2
        <4> QED BY <4>1, <4>2
      <3> QED BY <3>1, <3>2, <1>d DEF Served, Returns, Loses, Goes, Installing, Uninstalling
    <2>4. CASE OpenPipe(c)
      BY <2>4, <1>a, <1>d DEF OpenPipe, exit_program
    <2>5. CASE GotVersion(c) \/ SessionEnds(c) \/ Leave(c) \/ Kill(c)
      BY <2>5, <1>a, <1>d, <1>e DEF GotVersion, SessionEnds, Leave, Kill, exit_program
    <2> QED BY <2>0, <2>1, <2>4, <2>5 DEF ClientStep
  <1>2. procs' = procs \/ Starts(c)
    BY ClientProcesses DEF SvcInv, Stops, AgreeInv, AgreeLabels
  <1>3. /\ \A p \in procs' : p.phase # "leaving" /\ (p.phase = "failed" => ~p.pipe)
        /\ procs \subseteq procs'
    BY <1>2 DEF Starts, StartProcess, AgreeInv
  <1>4. \A d \in Client : cpc'[d] \in {"version", "session"} =>
                               \E p \in procs' : p.id = conn'[d] /\ p.pipe
    BY <1>1, <1>3, <1>b DEF AgreeInv, Moves
  <1>5. rec'.exists => \A d \in Client : rec'.interactive = Has(d, "interactive")
    BY <1>d, ClientType DEF AgreeInv
  <1>6. \A d \in Client : cpc'[d] \in AgreeLabels /\ "broken" \notin result'[d]
    BY <1>1, <1>b DEF AgreeInv, Moves
  <1>7. flags' = flags
    BY <1>b DEF Moves
  <1> QED BY <1>3, <1>4, <1>5, <1>6, <1>7 DEF AgreeInv, Has

LEMMA AgreeProcessStep ==
  ASSUME SvcInv, AgreeInv, NEW p \in procs, Works(p)
  PROVE  AgreeInv'
  <1>a. ProcTypeOK /\ rec \in Record
    BY TypeParts DEF SvcInv, MachineTypeOK, ProcTypeOK
  <1>b. UNCHANGED callVars
    BY DEF Works, ReportRunning, ReportStopped, PipeReady, ProcessExit
  <1>c. /\ \A x : /\ [p EXCEPT !.phase = x].id = p.id /\ [p EXCEPT !.phase = x].pipe = p.pipe
                  /\ [p EXCEPT !.phase = x].phase = x
        /\ [p EXCEPT !.pipe = TRUE].id = p.id /\ [p EXCEPT !.pipe = TRUE].pipe
        /\ [p EXCEPT !.pipe = TRUE].phase = p.phase
    BY <1>a DEF ProcTypeOK
  <1>1. \A q \in procs : q.pipe => \E r \in procs' : r.id = q.id /\ r.pipe
    <2>1. ProcessExit(p) => ~p.pipe
      BY DEF ProcessExit, AgreeInv, Ending
    <2>2. CASE ReportRunning(p) \/ ReportStopped(p)
      <3>1. PICK x \in {"running", "failed"} : procs' = (procs \ {p}) \union {[p EXCEPT !.phase = x]}
        BY <2>2 DEF ReportRunning, ReportStopped
      <3> DEFINE t == [p EXCEPT !.phase = x]
      <3>2. t.id = p.id /\ t.pipe = p.pipe
        BY <1>c
      <3> QED BY <3>1, <3>2
    <2>3. CASE PipeReady(p)
      BY <1>c, <2>3, Zenon DEF PipeReady
    <2>4. CASE ProcessExit(p)
      BY <2>1, <2>4 DEF ProcessExit
    <2> QED BY <2>2, <2>3, <2>4 DEF Works
  <1>2. \A q \in procs' : q.phase # "leaving" /\ (q.phase = "failed" => ~q.pipe)
    <2> USE DEF AgreeInv
    <2>1. CASE ReportRunning(p)
      BY <1>c, <2>1 DEF ReportRunning
    <2>2. CASE ReportStopped(p)
      <3> DEFINE t == [p EXCEPT !.phase = "failed"]
      <3>1. procs' = (procs \ {p}) \union {t} /\ ~p.pipe
        BY <2>2 DEF ReportStopped
      <3>2. t.phase = "failed" /\ t.pipe = p.pipe
        BY <1>c
      <3> HIDE DEF t
      <3> QED BY <3>1, <3>2
    <2>3. CASE PipeReady(p)
      BY <1>c, <2>3 DEF PipeReady
    <2>4. CASE ProcessExit(p)
      BY <2>4 DEF ProcessExit
    <2> QED BY <2>1, <2>2, <2>3, <2>4 DEF Works
  <1>3. rec'.exists => rec.exists /\ rec'.interactive = rec.interactive
    <2>1. \A x : /\ [rec EXCEPT !.state = x].interactive = rec.interactive
                 /\ [rec EXCEPT !.state = x].exists = rec.exists
      BY <1>a DEF Record
    <2>2. \A x, o : SetRecord(x, o) => rec' = x \/ ~rec'.exists
      BY DEF SetRecord, NoRecord
    <2>3. rec' = rec \/ (\E x : rec' = [rec EXCEPT !.state = x]) \/ ~rec'.exists
      BY <2>2 DEF Works, ReportRunning, ReportStopped, PipeReady, ProcessExit, SetState, recVars
    <2> QED BY <2>1, <2>3
  <1>4. \A c \in Client : cpc'[c] \in {"version", "session"} =>
                             \E q \in procs' : q.id = conn'[c] /\ q.pipe
    BY <1>b, <1>1 DEF AgreeInv, callVars
  <1> QED BY <1>b, <1>2, <1>3, <1>4 DEF AgreeInv, Has, callVars

LEMMA AgreedInitInv ==
  ASSUME SvcAssumption, SvcInit
  PROVE  AgreedInv
  <1>1. ASSUME OneVersion PROVE VersionInv
    <2>1. CASE /\ procs = {}
               /\ file = NoFile \/ \E v \in Present, b \in BOOLEAN : file = [ver |-> v, whole |-> b]
      <3>1. file.whole => file.ver \in Present
        BY <2>1 DEF NoFile
      <3> QED BY <1>1, <2>1, <3>1 DEF VersionInv, OneVersion
    <2>2. ASSUME NEW v \in Present, NEW running \in BOOLEAN,
                 file = [ver |-> v, whole |-> TRUE],
                 procs = IF running
                         THEN {[id |-> 1, ver |-> v, phase |-> "running", pipe |-> TRUE]}
                         ELSE {}
          PROVE  VersionInv
      <3>1. file.ver = v /\ \A p \in procs : p.ver = v
        BY <2>2
      <3> QED BY <1>1, <3>1 DEF OneVersion, VersionInv
    <2> QED BY <2>1, <2>2 DEF SvcInit
  <1>2. ASSUME Agreed PROVE AgreeInv
    <2>1. \A c \in Client : cpc[c] = "main" /\ result[c] = {}
      BY DEF SvcInit
    <2>2. rec = NoRecord /\ procs = {} => AgreeInv
      BY <2>1 DEF AgreeInv, AgreeLabels, NoRecord
    <2>3. ASSUME NEW v \in Present, NEW i \in Types, NEW running \in BOOLEAN,
                 rec = [exists |-> TRUE, interactive |-> i, marked |-> FALSE,
                        state |-> IF running THEN "running" ELSE "stopped"],
                 procs = IF running
                         THEN {[id |-> 1, ver |-> v, phase |-> "running", pipe |-> TRUE]}
                         ELSE {}
          PROVE  AgreeInv
      <3>1. \A c \in Client : rec.interactive = Has(c, "interactive")
        BY <1>2, <2>3 DEF Agreed
      <3>2. \A p \in procs : p.phase = "running"
        BY <2>3
      <3> QED BY <2>1, <3>1, <3>2 DEF AgreeInv, AgreeLabels
    <2> QED BY <2>2, <2>3 DEF SvcInit
  <1> QED BY <1>1, <1>2 DEF AgreedInv

LEMMA AgreedStepInv ==
  ASSUME SvcAssumption, SvcInv, AgreedInv, [SvcNext]_svcVars
  PROVE  AgreedInv'
  <1>1. OneVersion => VersionInv'
    BY VersionStep DEF AgreedInv
  <1>2. flags' = flags
    <2>1. \A c \in Client : ClientStep(c) \/ Kill(c) => flags' = flags
      BY CallsMove DEF SvcInv, Moves
    <2>2. ProcessStep => flags' = flags
      BY DEF ProcessStep, Works, ReportRunning, ReportStopped, PipeReady, ProcessExit, callVars
    <2> QED BY <2>1, <2>2 DEF SvcNext, svcVars, callVars
  <1>3. ASSUME Agreed PROVE AgreeInv'
    <2>1. VersionInv /\ AgreeInv
      BY <1>3 DEF AgreedInv, Agreed
    <2>2. ASSUME NEW c \in Client, ClientStep(c) \/ Kill(c)
          PROVE  AgreeInv'
      BY <1>3, <2>1, <2>2, AgreeClientStep
    <2>3. CASE ProcessStep
      BY <2>1, <2>3, AgreeProcessStep DEF ProcessStep, Works
    <2>4. CASE UNCHANGED svcVars
      BY <2>1, <2>4 DEF svcVars, recVars, procVars, callVars, AgreeInv, Has
    <2> QED BY <2>2, <2>3, <2>4 DEF SvcNext
  <1>4. Agreed' => Agreed
    BY <1>2 DEF Agreed, OneVersion, Has
  <1> QED BY <1>1, <1>3, <1>4 DEF AgreedInv, OneVersion

\* Clients that agree on the version and type of the service and do not remove
\* it do not cut off each other's sessions: svc_install never stops a service
\* of the type that is wanted, and no client has a reason to replace it.
THEOREM AgreeingCorrect == SvcSpec => []AgreeingClientsCoexist
  <1>1. SvcInit => SvcInv /\ AgreedInv
    BY SvcInitInv, AgreedInitInv, SvcAssumption
  <1>2. SvcInv /\ AgreedInv /\ [SvcNext]_svcVars => (SvcInv /\ AgreedInv)'
    BY SvcStepInv, AgreedStepInv, SvcAssumption
  <1>3. AgreedInv => AgreeingClientsCoexist
    BY DEF AgreedInv, AgreeInv, AgreeingClientsCoexist
  <1> QED BY <1>1, <1>2, <1>3, PTL DEF SvcSpec

----------------------------------------------------------------------------
\* The removal. A client is ahead of its svc_uninstall, and it is excused when
\* it will not remove the service.

Ahead(c)   == ret[c] # "exit" \/ cpc[c] = "u_open"
Excused(c) == ~Has(c, "uninstall") \/ Hindered(c)
AllBusy    == \A c \in Client : ~Ahead(c) /\ ~Excused(c)

Stopped == rec.state = "stopped"
At(ls)  == \E c \in Client : cpc[c] \in ls

\* Once all clients are at it, one of them still has the record to remove.
RemoveInv ==
    AllBusy /\ rec.exists =>
        At({"u_stop"}) \/ (Stopped /\ (rec.marked \/ At({"u_wait", "u_delete"})))

\* No two uploads, nor an upload over a whole file or a process.
UploadInv ==
    /\ \A c \in Client : cpc[c] = "i_save" => ~file.whole /\ file.ver # 0 /\ procs = {}
    /\ \A c, d \in Client : cpc[c] = "i_save" /\ cpc[d] = "i_save" => c = d
    /\ \A c \in Client : /\ ret[c] \notin {"reinstall", "reinstall_install"}
                         /\ cpc[c] \in Exiting => ret[c] = "exit" \/ "killed" \in result[c]

\* A client need not remove the file when it has not had the service running;
\* it is early as long as it may still have.
Spared(c) == Excused(c) \/ "failed" \in result[c]
Early(c)  == cpc[c] \in {"main", "i_upload", "i_open", "i_create", "opening"}

\* A client that will remove the record, and the file with it.
Late(c) == \/ Spared(c)
           \/ cpc[c] \in {"u_close", "u_unlink"}
           \/ open[c] > 0 /\ cpc[c] # "leave"

\* Once all clients are at it, one of them still has the file to remove; a
\* file is not left behind by its record, nor by one that is about to go, and
\* nobody finds a process of theirs that removes no file.
BusyFile ==
    (\A c \in Client : ~Ahead(c) /\ ~Spared(c)) =>
        \/ At({"u_stop"})
        \/ Stopped /\ At({"u_wait", "u_delete", "u_close", "u_unlink"})
UnheldFile ==
    ~rec.exists =>
        /\ \E c \in Client : Spared(c) \/ Early(c) \/ cpc[c] = "u_unlink"
        /\ procs # {} => \E c \in Client : Spared(c) \/ cpc[c] = "u_unlink"
MarkedFile ==
    rec.marked /\ Stopped =>
        /\ \E c \in Client : Late(c) \/ Early(c)
        /\ procs # {} => \E c \in Client : Late(c)
FileInv == file.whole => BusyFile /\ UnheldFile /\ MarkedFile

RemovalInv == RemoveInv /\ (NoneReplaces => VersionInv /\ UploadInv /\ FileInv)

\* The steps of a client that is not ahead of its svc_uninstall afterwards.
ROpen(c)   == /\ cpc[c] = "u_open" /\ cpc'[c] = "u_stop" /\ rec.exists
              /\ SetRecord(rec, OpenHandle(c)) /\ UNCHANGED <<file, procVars>>
RNone(c)   == cpc[c] = "u_open" /\ cpc'[c] = "leave" /\ ~rec.exists /\ UNCHANGED <<file, recVars, procVars>>
RStop(c)   == /\ cpc[c] = "u_stop" /\ cpc'[c] = "u_wait" /\ UNCHANGED file
              /\ \/ rec.state = "running" /\ StopService
                 \/ rec.state # "running" /\ UNCHANGED <<recVars, procVars>>
RWait(c)   == /\ cpc[c] = "u_wait" /\ UNCHANGED <<file, recVars, procVars>>
              /\ \/ Stopped /\ cpc'[c] = "u_delete"
                 \/ ~Stopped /\ cpc'[c] = "leave"
RDelete(c) == /\ cpc[c] = "u_delete" /\ cpc'[c] = "u_close"
              /\ SetRecord([rec EXCEPT !.marked = TRUE], open) /\ UNCHANGED <<file, procVars>>
RClose(c)  == /\ cpc[c] = "u_close" /\ cpc'[c] = "u_unlink"
              /\ SetRecord(rec, CloseHandle(c)) \/ UNCHANGED recVars
              /\ UNCHANGED <<file, procVars>>
RUnlink(c) == /\ cpc[c] = "u_unlink" /\ cpc'[c] = "leave" /\ UNCHANGED <<recVars, procVars>>
              /\ "slowexit" \in Faults \/ \A p \in procs : p.phase \notin Ending
              /\ file' = IF procs = {} /\ Writers = {} THEN NoFile ELSE file
RLeave(c)  == /\ cpc[c] = "leave" /\ cpc'[c] = "gone" /\ UNCHANGED <<file, procVars>>
              /\ SetRecord(rec, [open EXCEPT ![c] = 0])
Removes(c) == \/ ROpen(c) \/ RNone(c) \/ RStop(c) \/ RWait(c) \/ RDelete(c) \/ RClose(c) \/ RUnlink(c)
              \/ RLeave(c)

LEMMA ClientRemoves ==
  ASSUME SvcInv, NEW c \in Client, ClientStep(c) \/ Kill(c),
         ret'[c] = "exit", cpc'[c] # "u_open", Has(c, "uninstall"), ~Hindered(c)'
  PROVE  ret[c] = "exit" /\ ~Hindered(c) /\ Removes(c)
  <1>a. CallTypeOK
    BY TypeParts DEF SvcInv
  <1>b. \A ok \in BOOLEAN : Return(c, ok) => Returns(c)
    BY <1>a, ReturnMoves
  <1>c. ret[c] = "exit" => cpc[c] \in Exiting
    BY DEF SvcInv, CallInv
  <1>d. ~Hindered(c)
    BY ClientCallInv DEF SvcInv, Hindered
  <1>e. \A at, l : /\ CallFails(c, at) => Fails(c, at)
                   /\ CallMissed(c, l) /\ ret[c] = "exit" => Hindered(c)'
    BY <1>a, FailsMove DEF CallMissed, Note, Hindered, CallTypeOK, Results
  <1>f. Loses(c) => Hindered(c)'
    BY DEF Loses, Hindered
  <1> USE DEF Goto, Jump, Call, CallTypeOK, Exiting, callVars, Exits
  <1>1. CASE main(c)
    BY <1>1, <1>a DEF main, MainInstall
  <1>2. CASE svc_install(c) \/ svc_uninstall(c)
    <2>1. CASE ret[c] # "exit"
      BY <1>2, <2>1, <1>a, <1>f, CallsServed DEF Served, Returns, Goes, Uninstalling
    <2>2. CASE ret[c] = "exit"
      <3>1. svc_uninstall(c)
        BY <1>2, <2>2, <1>c DEF svc_install, IUpload, ISave, IOpen, ICreate, IQuery, IStop, IConfig, IStart,
           IWait, CallFails
      <3>2. \A ok \in BOOLEAN : Return(c, ok) => cpc'[c] = "leave"
        BY <2>2, <1>b DEF Returns
      <3>3. \A at : ~CallFails(c, at)
        BY <2>2, <1>e, <1>f DEF Fails
      <3>4. \A l : ~CallMissed(c, l)
        BY <2>2, <1>e
      <3>0. \A l : Jump(c, l) => cpc'[c] = l
        BY <1>a
      <3> HIDE DEF Jump, Goto, Call, CallTypeOK, Exiting, callVars, Exits
      <3> USE DEF recVars, procVars
      <3>5. CASE UOpen(c)
        BY <1>d, <2>2, <3>0, <3>2, <3>3, <3>5 DEF UOpen, Removes, ROpen, RNone
      <3>6. CASE UStop(c)
        BY <1>d, <2>2, <3>0, <3>4, <3>6 DEF UStop, Removes, RStop
      <3>7. CASE UWait(c)
        BY <1>d, <2>2, <3>0, <3>2, <3>3, <3>7 DEF UWait, Removes, RWait, Stopped
      <3>8. CASE UDelete(c)
        BY <1>d, <2>2, <3>0, <3>4, <3>8 DEF UDelete, Removes, RDelete
      <3>9. CASE UClose(c)
        BY <1>d, <2>2, <3>0, <3>9 DEF UClose, Removes, RClose
      <3>10. CASE UUnlink(c)
        BY <1>d, <2>2, <3>0, <3>2, <3>3, <3>10 DEF UUnlink, Removes, RUnlink
      <3> QED BY <3>1, <3>5, <3>6, <3>7, <3>8, <3>9, <3>10 DEF svc_uninstall
    <2> QED BY <2>1, <2>2
  <1>3. CASE Leave(c)
    BY <1>3, <1>a, <1>d DEF Leave, Removes, RLeave
  <1>4. CASE OpenPipe(c) \/ GotVersion(c) \/ SessionEnds(c)
    BY <1>4, <1>a, <1>c DEF OpenPipe, GotVersion, SessionEnds, exit_program
  <1>5. CASE Kill(c)
    BY <1>5, <1>a DEF Kill, Note, Hindered, Results
  <1> QED BY <1>1, <1>2, <1>3, <1>4, <1>5 DEF ClientStep

\* While all are at it, no process is started any more.
LEMMA BusyStates ==
  ASSUME SvcInv, AllBusy
  PROVE  /\ rec.state # "starting" /\ \A p \in procs : p.phase # "starting"
         /\ \A c \in Client : cpc[c] \in Exiting \ {"u_open"}
  <1>1. \A c \in Client : cpc[c] \in Exiting \ {"u_open"} /\ ~Hindered(c)
    BY DEF SvcInv, CallInv, AllBusy, Ahead, Excused
  <1>2. rec.state # "starting"
    BY <1>1 DEF SvcInv, CallInv, Exiting
  <1> QED BY <1>1, <1>2 DEF SvcInv, ProcInv, Ending

LEMMA BusyBefore ==
  ASSUME SvcInv, NEW c \in Client, ClientStep(c) \/ Kill(c), AllBusy'
  PROVE  /\ Removes(c)
         /\ cpc[c] # "u_open" => AllBusy
         /\ \A d \in Client \ {c} : ~Ahead(d) /\ ~Excused(d)
  <1>1. Moves(c)
    BY CallsMove DEF SvcInv
  <1>2. \A d \in Client : /\ ret'[d] = "exit" /\ cpc'[d] # "u_open" /\ Has(d, "uninstall")
                          /\ ~Hindered(d)'
    BY <1>1 DEF AllBusy, Ahead, Excused, Has, Moves
  <1>3. \A d \in Client \ {c} : ~Hindered(d)
    BY <1>1, <1>2 DEF Moves, Hindered
  <1> QED BY <1>1, <1>2, <1>3, ClientRemoves DEF AllBusy, Ahead, Excused, Moves

LEMMA StopsOnce ==
  ASSUME SvcInv, NEW c \in Client, RStop(c), rec.state # "starting"
  PROVE  rec'.state = "stopped"
  <1>a. rec \in Record
    BY TypeParts DEF SvcInv, MachineTypeOK
  <1>1. [rec EXCEPT !.state = "stopped"] \in Record /\ [rec EXCEPT !.state = "stopped"].state = "stopped"
    BY <1>a DEF Record
  <1>2. rec.state = "running" => rec'.state = "stopped"
    BY <1>1, SetRecordState DEF RStop, StopService, SetState
  <1>3. rec.state # "running" => rec' = rec
    BY DEF RStop, recVars
  <1> QED BY <1>1, <1>2, <1>3, <1>a DEF Record

LEMMA RemoveClientStep ==
  ASSUME SvcInv, RemoveInv, NEW c \in Client, ClientStep(c) \/ Kill(c)
  PROVE  RemoveInv'
  <1> SUFFICES ASSUME AllBusy', rec'.exists
               PROVE  \/ \E d \in Client : cpc'[d] = "u_stop"
                      \/ rec'.state = "stopped" /\ rec'.marked
                      \/ rec'.state = "stopped" /\ \E d \in Client : cpc'[d] \in {"u_wait", "u_delete"}
    BY DEF RemoveInv, At, Stopped
  <1>a. Moves(c) /\ CallTypeOK /\ MachineTypeOK
    BY CallsMove, TypeParts DEF SvcInv
  <1>b. /\ Removes(c)
        /\ cpc[c] # "u_open" => AllBusy
    BY BusyBefore
  <1>c. \A r, o : SetRecord(r, o) => rec' = r
    BY DEF SetRecord, NoRecord
  <1>1. CASE cpc[c] = "u_open"
    BY <1>1, <1>b, <1>a DEF Removes, ROpen, RNone, RStop, RWait, RDelete, RClose, RUnlink, RLeave, recVars
  <1>2. CASE cpc[c] # "u_open"
    <2>1. AllBusy /\ rec.state # "starting"
      BY <1>2, <1>b, BusyStates
    <2>2. rec.exists
      BY <1>2, <2>1, ClientType, BusyStates DEF Exiting
    <2>3. \/ \E d \in Client : cpc[d] = "u_stop"
          \/ rec.state = "stopped" /\ rec.marked
          \/ rec.state = "stopped" /\ \E d \in Client : cpc[d] \in {"u_wait", "u_delete"}
      BY <2>1, <2>2 DEF RemoveInv, At, Stopped
    <2> USE DEF Moves
    <2>4. CASE RStop(c)
      <3>1. rec'.state = "stopped"
        BY <2>1, <2>4, StopsOnce
      <3> QED BY <2>4, <3>1, <1>a DEF RStop
    <2>5. CASE RWait(c)
      BY <2>3, <2>5, <1>a DEF RWait, recVars, Stopped
    <2>6. CASE RDelete(c)
      <3>1. rec' = [rec EXCEPT !.marked = TRUE]
        BY <1>c, <2>6 DEF RDelete
      <3>2. rec'.marked /\ rec'.state = rec.state
        BY <3>1, <1>a DEF MachineTypeOK, Record
      <3> QED BY <2>3, <2>6, <3>2, <1>a DEF RDelete
    <2>7. CASE RClose(c) \/ RUnlink(c) \/ RLeave(c)
      <3>1. rec' = rec /\ cpc[c] \notin {"u_stop", "u_wait", "u_delete"}
        BY <1>c, <2>7 DEF RClose, RUnlink, RLeave, recVars
      <3> QED BY <2>3, <3>1, <1>a
    <2> QED BY <1>2, <1>b, <2>4, <2>5, <2>6, <2>7 DEF Removes, ROpen, RNone
  <1> QED BY <1>1, <1>2

LEMMA RemoveProcessStep ==
  ASSUME SvcInv, RemoveInv, ProcessStep
  PROVE  RemoveInv'
  <1>1. UNCHANGED callVars
    BY DEF ProcessStep, Works, ReportRunning, ReportStopped, PipeReady, ProcessExit
  <1>2. AllBusy' => AllBusy
    BY <1>1 DEF AllBusy, Ahead, Excused, Hindered, Has, callVars
  <1>3. AllBusy' => rec' = rec
    BY <1>2, BusyStates DEF ProcessStep, Works, ReportRunning, ReportStopped, PipeReady, ProcessExit, recVars
  <1> QED BY <1>1, <1>2, <1>3 DEF RemoveInv, At, Stopped, callVars

LEMMA UploadClientStep ==
  ASSUME SvcAssumption, NoneReplaces, SvcInv, VersionInv, UploadInv, NEW c \in Client,
         ClientStep(c) \/ Kill(c)
  PROVE  UploadInv'
  <1>a. Moves(c) /\ CallTypeOK
    BY CallsMove, TypeParts DEF SvcInv
  <1>b. ~Has(c, "reinstall") /\ (Connected(c) => Compatible(c))
    BY DEF NoneReplaces, VersionInv, Connected, Compatible
  <1>c. /\ \A ok \in BOOLEAN : Return(c, ok) => cpc'[c] # "i_save"
        /\ \A at : CallFails(c, at) => cpc'[c] # "i_save"
        /\ Unreached(c) => cpc'[c] # "i_save"
    BY <1>a, ReturnMoves, FailsMove, UnreachedMoves DEF Returns, Fails, Loses, Exits
  <1> USE DEF Goto, Jump, Call, CallMissed, CallTypeOK, callVars
  <1>1. cpc'[c] = "i_save" => Uploads(c) \/ cpc[c] = "i_save"
    <2>1. CASE IUpload(c)
      BY <2>1, <1>a, <1>b, <1>c DEF IUpload, Uploads
    <2>2. CASE main(c) \/ OpenPipe(c) \/ GotVersion(c) \/ SessionEnds(c) \/ Leave(c) \/ Kill(c)
      BY <2>2, <1>a DEF main, MainInstall, OpenPipe, GotVersion, SessionEnds, Leave, Kill, exit_program
    <2>3. CASE ISave(c) \/ IOpen(c) \/ ICreate(c) \/ IQuery(c)
      BY <2>3, <1>a, <1>c DEF ISave, IOpen, ICreate, IQuery
    <2>4. CASE IStop(c) \/ IConfig(c) \/ IStart(c) \/ IWait(c)
      BY <2>4, <1>a, <1>c DEF IStop, IConfig, IStart, IWait
    <2>5. CASE svc_uninstall(c)
      <3>1. Served(c) /\ cpc[c] \notin Installing
        BY <2>5, <1>a, CallsServed DEF svc_uninstall, UOpen, UStop, UWait, UDelete, UClose, UUnlink,
           CallFails, Installing
      <3> QED BY <3>1 DEF Served, Returns, Loses, Goes, Exits, Uninstalling
    <2> QED BY <2>1, <2>2, <2>3, <2>4, <2>5 DEF ClientStep, svc_install
  <1>2. cpc'[c] = "i_save" => Uploads(c) \/ UNCHANGED cpc
    <2>1. cpc[c] = "i_save" /\ cpc'[c] = "i_save" => cpc' = cpc
      BY <1>a DEF Moves
    <2> QED BY <1>1, <2>1
  <1>3. /\ ret'[c] \notin {"reinstall", "reinstall_install"}
        /\ cpc'[c] \in Exiting => ret'[c] = "exit" \/ "killed" \in result'[c]
    <2> USE DEF Exiting, UploadInv, Exits
    <2>1. CASE main(c)
      BY <2>1, <1>a, <1>b DEF main, MainInstall
    <2>2. CASE svc_install(c) \/ svc_uninstall(c)
      <3>1. Served(c)
        BY <2>2, <1>a, CallsServed
      <3>2. \A ok \in BOOLEAN : Return(c, ok) => ret'[c] \notin {"reinstall", "reinstall_install"}
        BY <1>a DEF Return, MainInstall, exit_program
      <3>3. Unreached(c) => ret'[c] \notin {"reinstall", "reinstall_install"}
        BY <1>a DEF Unreached, exit_program
      <3>4. \A at : CallFails(c, at) => ret'[c] \notin {"reinstall", "reinstall_install"}
        BY <3>2, <3>3 DEF CallFails
      <3>5. (\A l : ~Jump(c, l) /\ ~CallMissed(c, l)) => ret'[c] \notin {"reinstall", "reinstall_install"}
        BY <2>2, <3>2, <3>3, <3>4 DEF svc_install, svc_uninstall, IUpload, ISave, IOpen, ICreate, IQuery,
           IStop, IConfig, IStart, IWait, UOpen, UStop, UWait, UDelete, UClose, UUnlink
      <3>6. ret'[c] \notin {"reinstall", "reinstall_install"}
        BY <3>5, <1>a
      <3>7. cpc'[c] \in Exiting => ret'[c] = "exit" \/ "killed" \in result'[c]
        BY <3>1 DEF Served, Returns, Loses, Goes, Installing, Uninstalling
      <3> QED BY <3>6, <3>7
    <2>3. CASE OpenPipe(c) \/ GotVersion(c) \/ SessionEnds(c)
      BY <2>3, <1>a, <1>b DEF OpenPipe, GotVersion, SessionEnds, exit_program
    <2>4. CASE Leave(c) \/ Kill(c)
      BY <2>4, <1>a DEF Leave, Kill, Note, Results
    <2> QED BY <2>1, <2>2, <2>3, <2>4 DEF ClientStep
  <1>4. \A d \in Client : cpc'[d] = "i_save" => ~file'.whole /\ file'.ver # 0
    <2>1. CASE Uploads(c)
      BY <2>1 DEF Uploads, SvcAssumption
    <2>2. CASE Saves(c)
      BY <2>2, <1>a DEF Saves, UploadInv, Moves
    <2>3. CASE Unlinks(c)
      <3>1. \A d \in Client : cpc'[d] # "i_save"
        BY <2>3, <1>1, <1>a DEF Unlinks, Writers, Moves, Uploads
      <3> QED BY <3>1
    <2>4. CASE file' = file /\ ~Uploads(c)
      BY <2>4, <1>2, <1>a DEF UploadInv, Moves
    <2> QED BY <2>1, <2>2, <2>3, <2>4, ClientFile DEF SvcInv
  <1>5. \A d, e \in Client : cpc'[d] = "i_save" /\ cpc'[e] = "i_save" => d = e
    <2>1. Uploads(c) => \A d \in Client : cpc[d] # "i_save"
      BY <1>b DEF Uploads, UploadInv
    <2> QED BY <1>2, <2>1, <1>a DEF UploadInv, Moves
  <1>6. \A d \in Client : cpc'[d] = "i_save" => procs' = {}
    <2>1. CASE Starts(c)
      <3>1. \A d \in Client : cpc'[d] # "i_save"
        BY <2>1, <1>a DEF Starts, Startable, Writers, Moves
      <3> QED BY <3>1
    <2>2. CASE Stops(c)
      BY <2>2, <1>2, <1>a DEF Stops, StopService, UploadInv, Moves, Uploads
    <2>3. CASE procs' = procs
      BY <2>3, <1>2, <1>a DEF UploadInv, Moves, Uploads
    <2> QED BY <2>1, <2>2, <2>3, ClientProcesses DEF SvcInv
  <1> QED BY <1>3, <1>4, <1>5, <1>6, <1>a DEF UploadInv, Moves

\* What hindered a client, and that it failed, is not forgotten.
LEMMA ExcusedStays ==
  ASSUME SvcInv, NEW c \in Client, ClientStep(c) \/ Kill(c)
  PROVE  \A d \in Client : (Excused(d) => Excused(d)') /\ (Spared(d) => Spared(d)')
  <1>1. Moves(c) /\ result[c] \subseteq result'[c]
    BY CallsMove, ClientCallInv DEF SvcInv
  <1>2. \A d \in Client : result[d] \subseteq result'[d]
    BY <1>1 DEF Moves
  <1> QED BY <1>1, <1>2 DEF Excused, Spared, Hindered, Has, Moves

\* What becomes of a client that sees to it that the file goes.
LEMMA FileClient ==
  ASSUME NoneReplaces, SvcInv, UploadInv, NEW c \in Client, ClientStep(c) \/ Kill(c),
         file.whole, file' = file, ~Spared(c)'
  PROVE  /\ Early(c) => \/ Early(c)' \/ procs # {}
                        \/ rec'.exists /\ open'[c] > 0 /\ cpc'[c] # "leave"
         /\ cpc[c] = "u_unlink" => ~Stopped
         /\ Late(c) /\ Stopped /\ rec.marked => Late(c)'
  <1>a. Moves(c) /\ CallTypeOK /\ MachineTypeOK
    BY CallsMove, TypeParts DEF SvcInv
  <1>b. /\ \A ok \in BOOLEAN : Return(c, ok) => Returns(c)
        /\ \A at : CallFails(c, at) => Fails(c, at)
        /\ Unreached(c) => Loses(c)
    BY <1>a, ReturnMoves, FailsMove, UnreachedMoves
  <1>c. /\ Has(c, "uninstall") /\ ~Hindered(c)' /\ "failed" \notin result'[c]
        /\ ~Spared(c) /\ ~Has(c, "reinstall")
    BY <1>a, ExcusedStays DEF Spared, Excused, Has, Moves, NoneReplaces
  <1>d. /\ OpenHandle(c)[c] > 0 /\ OpenHandle(c) \in [Client -> Nat]
        /\ \A r : SetRecord(r, OpenHandle(c)) => rec' = r /\ open'[c] > 0
    BY <1>a DEF OpenHandle, MachineTypeOK, SetRecord
  <1>e. cpc[c] \in Exiting <=> ret[c] = "exit"
    BY <1>c DEF UploadInv, Spared, Excused, Hindered, SvcInv, CallInv
  <1>f. ~Kill(c) /\ ~Loses(c)
    BY <1>a, <1>c DEF Kill, Note, Hindered, Loses, CallTypeOK, Results
  <1>g. ASSUME NEW ok \in BOOLEAN, Return(c, ok), ret[c] # "exit"
        PROVE  Early(c)'
    BY <1>b, <1>c, <1>g DEF Returns, Early
  <1>h. ASSUME NEW at, CallFails(c, at), ret[c] # "exit"
        PROVE  Early(c)'
    BY <1>g, <1>h DEF CallFails
  <1>i. ret[c] = "exit" => Removes(c)
    <2> SUFFICES ASSUME ret[c] = "exit"
                 PROVE  Removes(c)
      OBVIOUS
    <2>1. CASE svc_install(c) \/ svc_uninstall(c)
      <3>1. ret'[c] = "exit" /\ cpc'[c] # "u_open"
        BY <2>1, <1>a, <1>f, CallsServed DEF Served, Returns, Goes, Installing, Uninstalling
      <3> QED BY <3>1, <1>c, ClientRemoves
    <2>2. CASE Leave(c)
      <3>1. ret'[c] = "exit" /\ cpc'[c] # "u_open"
        BY <2>2, <1>a DEF Leave, Jump, Goto, CallTypeOK
      <3> QED BY <3>1, <1>c, ClientRemoves
    <2> QED BY <2>1, <2>2, <1>e, <1>f DEF ClientStep, main, OpenPipe, GotVersion, SessionEnds, Exiting
  <1>1. ASSUME cpc[c] = "u_unlink"
        PROVE  ~Stopped
    <2>1. RUnlink(c)
      BY <1>1, <1>e, <1>i DEF Exiting, Removes, ROpen, RNone, RStop, RWait, RDelete, RClose, RLeave
    <2>2. Writers = {}
      BY DEF UploadInv, Writers
    <2>3. procs # {} /\ \A p \in procs : p.phase \notin Ending
      <3>1. file' # NoFile
        BY DEF NoFile
      <3> QED BY <2>1, <2>2, <3>1 DEF RUnlink, NoneReplaces
    <2> QED BY <2>3, TypeParts DEF SvcInv, ProcInv, Stopped, MachineTypeOK, Ending
  <1> USE DEF Goto, Jump, Call, CallTypeOK, recVars
  <1>2. ASSUME Early(c), procs = {}
        PROVE  Early(c)' \/ (rec'.exists /\ open'[c] > 0 /\ cpc'[c] # "leave")
    <2>1. cpc[c] \notin Exiting /\ ret[c] # "exit"
      BY <1>2, <1>e DEF Early, Exiting
    <2>2. main(c) \/ IUpload(c) \/ IOpen(c) \/ ICreate(c) \/ OpenPipe(c)
      BY <1>2, <1>f DEF Early, ClientStep, svc_install, svc_uninstall, ISave, IQuery, IStop, IConfig,
         IStart, IWait, UOpen, UStop, UWait, UDelete, UClose, UUnlink, CallFails, GotVersion, SessionEnds,
         Leave
    <2>3. CASE main(c)
      BY <2>3, <1>a, <1>c DEF main, MainInstall, Early
    <2>4. CASE IUpload(c)
      <3>2. file' # [ver |-> ClientVersion[c], whole |-> FALSE]
        OBVIOUS
      <3>3. Jump(c, "i_open") => Early(c)'
        BY <1>a DEF Early
      <3> QED BY <2>1, <2>4, <3>2, <3>3, <1>2, <1>g, <1>h, Zenon DEF IUpload
    <2>5. CASE IOpen(c)
      <3>1. Jump(c, "i_create") => Early(c)'
        BY <1>a DEF Early
      <3>2. ASSUME NEW l \in {"i_start", "i_query"}, Jump(c, l) PROVE cpc'[c] # "leave"
        BY <3>2, <1>a
      <3>3. CASE CallFails(c, "i_open")
        BY <3>3, <1>h, <2>1
      <3> HIDE DEF Jump, Early
      <3> QED BY <2>5, <3>1, <3>2, <3>3, <1>d DEF IOpen
    <2>6. CASE ICreate(c)
      <3> DEFINE r == [exists |-> TRUE, state |-> "stopped", marked |-> FALSE,
                       interactive |-> Has(c, "interactive")]
      <3>1. r.exists
        OBVIOUS
      <3>2. ASSUME Jump(c, "i_start") PROVE cpc'[c] # "leave"
        BY <3>2, <1>a
      <3>3. \/ SetRecord(r, OpenHandle(c)) /\ Jump(c, "i_start")
            \/ Return(c, FALSE) \/ CallFails(c, "i_create")
        BY <2>6 DEF ICreate
      <3> HIDE DEF r, Jump, Early
      <3> QED BY <2>1, <3>1, <3>2, <3>3, <1>d, <1>g, <1>h
    <2>7. CASE OpenPipe(c)
      <3>1. Call(c, "i_upload", "error") => Early(c)'
        BY <1>a DEF Early
      <3>2. exit_program(c, "failed") => "failed" \in result'[c]
        BY <1>a DEF exit_program, Note, Results
      <3> QED BY <1>2, <1>c, <2>7, <3>1, <3>2, Zenon DEF OpenPipe
    <2> QED BY <2>2, <2>3, <2>4, <2>5, <2>6, <2>7
  <1>3. ASSUME Late(c), Stopped, rec.marked
        PROVE  Late(c)'
    <2>a. rec.exists /\ rec.state = "stopped"
      BY <1>3 DEF SvcInv, HeldInv, NoRecord, Stopped
    <2>b. cpc[c] \in {"u_close", "u_unlink"} \/ (open[c] > 0 /\ cpc[c] # "leave")
      BY <1>3, <1>c DEF Late
    <2>1. CASE ret[c] = "exit"
      <3> USE DEF Late
      <3>1. CASE ROpen(c)
        BY <3>1, <1>d DEF ROpen
      <3>2. CASE RStop(c)
        BY <3>2, <2>a, <2>b DEF RStop
      <3>3. CASE RWait(c)
        BY <3>3, <2>a, <2>b, <1>3 DEF RWait
      <3>4. CASE RDelete(c) \/ RClose(c)
        BY <3>4 DEF RDelete, RClose
      <3>5. CASE RUnlink(c)
        BY <3>5, <1>1, <1>3 DEF RUnlink
      <3> QED BY <2>1, <2>a, <2>b, <1>i, <3>1, <3>2, <3>3, <3>4, <3>5 DEF Removes, RNone, RLeave
    <2>2. CASE ret[c] # "exit"
      <3>a. cpc[c] \notin Exiting /\ open[c] > 0
        BY <2>2, <2>b, <1>e DEF Exiting
      <3> SUFFICES open'[c] > 0 /\ cpc'[c] # "leave"
        BY DEF Late
      <3>1. CASE main(c)
        BY <3>1, <3>a, <1>a, <1>c DEF main, MainInstall
      <3>2. CASE svc_install(c)
        <4>1. cpc'[c] # "leave"
          BY <2>2, <3>2, <1>a, <1>c, <1>f, CallsServed DEF Served, Returns, Goes, Exits, Installing, Uninstalling
        <4>2. open'[c] > 0
          <5>1. CASE IUpload(c) \/ ISave(c) \/ IQuery(c)
            BY <3>a, <5>1 DEF IUpload, ISave, IQuery
          <5>2. CASE IOpen(c) \/ ICreate(c)
            BY <3>a, <5>2, <2>a, <1>d DEF IOpen, ICreate
          <5>3. CASE IStop(c) \/ IConfig(c) \/ IStart(c) \/ IWait(c)
            BY <3>a, <5>3, <2>a, <1>3 DEF IStop, IConfig, IStart, IWait, Startable
          <5> QED BY <3>2, <5>1, <5>2, <5>3 DEF svc_install
        <4> QED BY <4>1, <4>2
      <3>3. CASE OpenPipe(c) \/ GotVersion(c) \/ SessionEnds(c)
        BY <3>3, <3>a, <1>a, <1>c DEF OpenPipe, GotVersion, SessionEnds, exit_program
      <3>4. ~svc_uninstall(c) /\ ~Leave(c)
        BY <3>a DEF svc_uninstall, UOpen, UStop, UWait, UDelete, UClose, UUnlink, CallFails, Leave, Exiting
      <3> QED BY <1>f, <3>1, <3>2, <3>3, <3>4 DEF ClientStep
    <2> QED BY <2>1, <2>2
  <1> QED BY <1>1, <1>2, <1>3

LEMMA OthersHandles ==
  ASSUME SvcInv, NEW c \in Client, ClientStep(c) \/ Kill(c)
  PROVE  \A d \in Client \ {c} : open'[d] = open[d]
  <1>a. open \in [Client -> Nat]
    BY TypeParts DEF SvcInv, MachineTypeOK
  <1>1. ASSUME NEW d \in Client \ {c}
        PROVE  /\ OpenHandle(c)[d] = open[d] /\ CloseHandle(c)[d] = open[d]
               /\ [open EXCEPT ![c] = 0][d] = open[d]
    BY <1>a DEF OpenHandle, CloseHandle
  <1> QED BY <1>1 DEF ClientStep, svc_install, svc_uninstall, main, IUpload, ISave, IOpen, ICreate,
             IQuery, IStop, IConfig, IStart, IWait, UOpen, UStop, UWait, UDelete, UClose, UUnlink,
             OpenPipe, GotVersion, SessionEnds, Leave, Kill, SetRecord, StopService, StartProcess,
             SetState, recVars

\* How a record goes, and how it comes to be about to go.
LEMMA RecordGoes ==
  ASSUME SvcInv, NEW c \in Client, ClientStep(c) \/ Kill(c)
  PROVE  /\ rec.exists /\ ~rec'.exists =>
               \/ cpc[c] = "u_close" /\ cpc'[c] = "u_unlink"
               \/ /\ cpc[c] = "leave" /\ rec.marked /\ Stopped
                  /\ \A d \in Client \ {c} : open[d] = 0
         /\ rec'.marked /\ Stopped' /\ ~(rec.marked /\ Stopped) =>
               \/ cpc'[c] = "u_close"
               \/ open'[c] > 0 /\ cpc'[c] # "leave"
  <1>a. CallTypeOK /\ rec \in Record /\ open \in [Client -> Nat]
    BY TypeParts DEF SvcInv, MachineTypeOK
  <1>b. \A r, o : SetRecord(r, o) =>
           open' = o /\ (rec' = r \/ (rec' = NoRecord /\ r.marked /\ r.state = "stopped"
                                        /\ \A d \in Client : o[d] = 0))
    BY DEF SetRecord
  <1>c. ~NoRecord.exists /\ ~NoRecord.marked
    BY DEF NoRecord
  <1>d. cpc[c] \in HandleLabels => open[c] > 0
    BY DEF SvcInv, HandleInv
  <1> USE DEF recVars, Jump, Goto, CallMissed, HandleLabels, CallTypeOK, Stopped
  <1>1. CASE main(c) \/ IUpload(c) \/ ISave(c) \/ IQuery(c) \/ UWait(c) \/ UUnlink(c)
    BY <1>1 DEF main, IUpload, ISave, IQuery, UWait, UUnlink
  <1>2. CASE OpenPipe(c) \/ GotVersion(c) \/ SessionEnds(c) \/ Kill(c)
    BY <1>2 DEF OpenPipe, GotVersion, SessionEnds, Kill
  <1>3. CASE IOpen(c) \/ UOpen(c)
    <2>1. OpenHandle(c)[c] > 0
      BY <1>a DEF OpenHandle
    <2>2. rec' = rec \/ SetRecord(rec, OpenHandle(c))
      BY <1>3 DEF IOpen, UOpen
    <2>3. rec' = rec
      BY <1>b, <2>1, <2>2
    <2> QED BY <2>3
  <1>4. CASE ICreate(c)
    <2> DEFINE r == [exists |-> TRUE, state |-> "stopped", marked |-> FALSE,
                     interactive |-> Has(c, "interactive")]
    <2>1. r.exists /\ ~r.marked
      OBVIOUS
    <2>2. rec.exists => rec' = rec
      BY <1>4 DEF ICreate
    <2>3. ~rec.exists => SetRecord(r, OpenHandle(c)) \/ rec' = rec
      BY <1>4 DEF ICreate
    <2> HIDE DEF r
    <2> QED BY <2>1, <2>2, <2>3, <1>b
  <1>5. CASE IConfig(c)
    <2> DEFINE r == [rec EXCEPT !.interactive = Has(c, "interactive")]
    <2>1. r.exists = rec.exists /\ r.marked = rec.marked /\ r.state = rec.state
      BY <1>a DEF Record
    <2>2. cpc[c] = "i_config" /\ (rec' = rec \/ SetRecord(r, open))
      BY <1>5 DEF IConfig, CallFails
    <2> HIDE DEF r
    <2> QED BY <2>1, <2>2, <1>b, <1>d
  <1>6. CASE UDelete(c)
    <2> DEFINE r == [rec EXCEPT !.marked = TRUE]
    <2>1. r.exists = rec.exists /\ r.state = rec.state
      BY <1>a DEF Record
    <2>2. cpc[c] = "u_delete" /\ cpc'[c] = "u_close" /\ (SetRecord(r, open) \/ rec' = rec)
      BY <1>6, <1>a DEF UDelete
    <2> HIDE DEF r
    <2> QED BY <2>1, <2>2, <1>b, <1>d
  <1>7. CASE IStop(c) \/ UStop(c)
    <2> DEFINE r == [rec EXCEPT !.state = "stopped"]
    <2>1. r.exists = rec.exists
      BY <1>a DEF Record
    <2>2. /\ cpc[c] \in {"i_stop", "u_stop"}
          /\ rec' = rec \/ (SetRecord(r, open) /\ cpc'[c] \in {"i_config", "u_wait"})
      BY <1>7, <1>a DEF IStop, UStop, StopService, SetState, CallFails
    <2> HIDE DEF r
    <2> QED BY <2>1, <2>2, <1>b, <1>d
  <1>8. CASE IStart(c)
    <2> DEFINE r == [rec EXCEPT !.state = "starting"]
    <2>1. r.exists = rec.exists /\ r.state = "starting"
      BY <1>a DEF Record
    <2>2. cpc[c] = "i_start" /\ (rec' = rec \/ SetRecord(r, open))
      BY <1>8 DEF IStart, StartProcess, SetState
    <2> HIDE DEF r
    <2> QED BY <2>1, <2>2, <1>b, <1>d
  <1>9. CASE IWait(c)
    BY <1>9, <1>b, <1>c DEF IWait
  <1>10. CASE UClose(c)
    BY <1>10, <1>a, <1>b, <1>c DEF UClose
  <1>11. CASE Leave(c)
    <2> DEFINE o == [open EXCEPT ![c] = 0]
    <2>1. \A d \in Client \ {c} : o[d] = open[d]
      BY <1>a
    <2>2. cpc[c] = "leave" /\ SetRecord(rec, o)
      BY <1>11 DEF Leave
    <2> HIDE DEF o
    <2> QED BY <2>1, <2>2, <1>b, <1>c
  <1> QED BY <1>1, <1>2, <1>3, <1>4, <1>5, <1>6, <1>7, <1>8, <1>9, <1>10, <1>11
          DEF ClientStep, svc_install, svc_uninstall

LEMMA FileClientStep ==
  ASSUME SvcAssumption, NoneReplaces, SvcInv, UploadInv, FileInv, NEW c \in Client,
         ClientStep(c) \/ Kill(c)
  PROVE  FileInv'
  <1> SUFFICES ASSUME file'.whole
               PROVE  BusyFile' /\ UnheldFile' /\ MarkedFile'
    BY DEF FileInv
  <1>a. Moves(c) /\ CallTypeOK /\ MachineTypeOK /\ HeldInv'
    BY CallsMove, TypeParts, HandleStep DEF SvcInv
  <1>b. \A d \in Client \ {c} : open'[d] = open[d]
    BY OthersHandles
  <1>c. /\ procs' # {} => procs # {} \/ (rec'.exists /\ ~Stopped')
    BY <1>a, ClientProcesses DEF SvcInv, Stops, Starts, StopService, HeldInv, NoRecord, Stopped
  <1>1. CASE Saves(c)
    <2>1. cpc'[c] = "i_open" /\ cpc[c] = "i_save"
      BY <1>1 DEF Saves
    <2>2. ~Ahead(c)' => FALSE
      BY <2>1, ClientCallInv DEF SvcInv, CallInv, Ahead, Exiting
    <2>3. Early(c)'
      BY <2>1 DEF Early
    <2>4. procs' = {} \/ (rec'.exists /\ ~Stopped')
      BY <1>c, <2>1 DEF UploadInv
    <2> QED BY <2>2, <2>3, <2>4 DEF BusyFile, UnheldFile, MarkedFile
  <1>2. CASE ~Saves(c)
    <2>1. file' = file /\ BusyFile /\ UnheldFile /\ MarkedFile
      BY <1>2, ClientFile DEF SvcInv, Uploads, Unlinks, NoFile, FileInv
    <2>a. \A d \in Client \ {c} : /\ Early(d) => Early(d)'
                                  /\ cpc'[d] = cpc[d]
                                  /\ Late(d) => Late(d)'
      BY <1>a, <1>b, ExcusedStays DEF Early, Late, Moves
    <2>2. BusyFile'
      <3> SUFFICES ASSUME \A d \in Client : ~Ahead(d)' /\ ~Spared(d)'
                   PROVE  \/ \E d \in Client : cpc'[d] = "u_stop"
                          \/ /\ rec'.state = "stopped"
                             /\ \E d \in Client : cpc'[d] \in {"u_wait", "u_delete", "u_close", "u_unlink"}
        BY DEF BusyFile, At, Stopped
      <3>b. AllBusy' /\ \A d \in Client : ~Spared(d)
        BY ExcusedStays DEF AllBusy, Spared
      <3>a. /\ Removes(c) /\ \A d \in Client \ {c} : ~Ahead(d) /\ ~Excused(d)
            /\ cpc[c] # "u_open" => AllBusy
        BY <3>b, BusyBefore
      <3>1. CASE cpc[c] = "u_open"
        <4>1. CASE ROpen(c)
          BY <4>1 DEF ROpen
        <4>2. CASE RNone(c)
          <5>0. ~rec.exists /\ rec' = rec
            BY <4>2 DEF RNone, recVars
          <5>1. PICK d \in Client : Early(d) \/ cpc[d] = "u_unlink"
            BY <2>1, <3>b, <5>0 DEF UnheldFile
          <5>2. d # c
            BY <3>1, <5>1 DEF Early
          <5>3. cpc[d] \in Exiting
            BY <3>a, <5>2 DEF SvcInv, CallInv, Ahead
          <5>4. cpc'[d] = "u_unlink"
            BY <2>a, <5>1, <5>2, <5>3 DEF Early, Exiting
          <5>5. rec'.state = "stopped"
            BY <5>0 DEF SvcInv, HeldInv, NoRecord
          <5> QED BY <5>4, <5>5
        <4> QED BY <3>1, <3>a, <4>1, <4>2
                DEF Removes, RStop, RWait, RDelete, RClose, RUnlink, RLeave
      <3>2. CASE cpc[c] # "u_open"
        <4>1. AllBusy /\ rec.state # "starting"
          BY <3>2, <3>a, BusyStates
        <4>2. \/ \E d \in Client : cpc[d] = "u_stop"
              \/ /\ rec.state = "stopped"
                 /\ \E d \in Client : cpc[d] \in {"u_wait", "u_delete", "u_close", "u_unlink"}
          BY <2>1, <3>b, <4>1 DEF BusyFile, At, Stopped, AllBusy
        <4>3. CASE RStop(c)
          <5>1. rec'.state = "stopped"
            BY <4>1, <4>3, StopsOnce
          <5> QED BY <4>3, <5>1 DEF RStop
        <4>4. CASE ~RStop(c)
          <5>1. rec'.state = rec.state
            BY <3>2, <3>a, <4>4, ClientProcesses DEF SvcInv, Removes, Stops, Starts, ROpen, RNone, RWait,
               RDelete, RClose, RUnlink, RLeave
          <5>2. CASE RWait(c)
            BY <2>a, <4>2, <5>1, <5>2 DEF RWait, Stopped
          <5>3. CASE RDelete(c) \/ RClose(c)
            BY <2>a, <4>2, <5>1, <5>3 DEF RDelete, RClose
          <5>4. CASE RUnlink(c) \/ RLeave(c)
            <6>1. (cpc[c] = "u_unlink" /\ rec.state # "stopped") \/ cpc[c] = "leave"
              BY <2>1, <5>4, FileClient DEF FileInv, RUnlink, RLeave, Stopped
            <6> QED BY <2>a, <4>2, <5>1, <6>1
          <5> QED BY <3>2, <3>a, <4>4, <5>2, <5>3, <5>4 DEF Removes, ROpen, RNone
        <4> QED BY <4>3, <4>4
      <3> QED BY <3>1, <3>2
    <2>b. ~rec.exists => Stopped
      BY DEF SvcInv, HeldInv, NoRecord, Stopped
    <2>c. ASSUME \A d \in Client : ~Spared(d)', rec.exists, ~rec'.exists
          PROVE  \/ cpc'[c] = "u_unlink"
                 \/ /\ rec.marked /\ Stopped
                    /\ ~Late(c) /\ ~Early(c)
                    /\ \A d \in Client \ {c} : Late(d) => cpc'[d] = "u_unlink"
      <3>1. CASE /\ cpc[c] = "leave" /\ rec.marked /\ Stopped
                 /\ \A d \in Client \ {c} : open[d] = 0
        <4>1. ~Late(c) /\ ~Early(c)
          BY <2>c, <3>1, ExcusedStays DEF Late, Early
        <4>2. ASSUME NEW d \in Client \ {c}, Late(d)
              PROVE  cpc'[d] = "u_unlink"
          <5>1. ~Spared(d) /\ ~(open[d] > 0) /\ cpc[d] # "u_close"
            BY <1>a, <2>c, <3>1, ExcusedStays DEF SvcInv, HandleInv, HandleLabels
          <5> QED BY <2>a, <4>2, <5>1 DEF Late
        <4> QED BY <3>1, <4>1, <4>2
      <3> QED BY <2>c, <3>1, RecordGoes
    <2>3. UnheldFile'
      <3> SUFFICES ASSUME ~rec'.exists, \A d \in Client : ~Spared(d)'
                   PROVE  /\ \E d \in Client : Early(d)' \/ cpc'[d] = "u_unlink"
                          /\ procs' # {} => \E d \in Client : cpc'[d] = "u_unlink"
        BY DEF UnheldFile
      <3>a. \A d \in Client : ~Spared(d)
        BY ExcusedStays
      <3>b. procs' # {} => procs # {}
        BY <1>c
      <3>1. CASE ~rec.exists
        <4>1. procs # {} => \E d \in Client : cpc'[d] = "u_unlink"
          <5> SUFFICES ASSUME procs # {} PROVE \E d \in Client : cpc'[d] = "u_unlink"
            OBVIOUS
          <5>1. PICK d \in Client : cpc[d] = "u_unlink"
            BY <2>1, <3>1, <3>a DEF UnheldFile
          <5>2. d # c
            BY <2>1, <2>b, <3>1, <5>1, FileClient DEF FileInv
          <5> QED BY <2>a, <5>1, <5>2
        <4>2. procs = {} => \E d \in Client : Early(d)' \/ cpc'[d] = "u_unlink"
          <5> SUFFICES ASSUME procs = {} PROVE \E d \in Client : Early(d)' \/ cpc'[d] = "u_unlink"
            OBVIOUS
          <5>1. PICK d \in Client : Early(d) \/ cpc[d] = "u_unlink"
            BY <2>1, <3>1, <3>a DEF UnheldFile
          <5>2. CASE d = c
            <6>1. cpc[c] # "u_unlink"
              BY <2>1, <2>b, <3>1, FileClient DEF FileInv
            <6>2. Early(c)'
              BY <2>1, <5>1, <5>2, <6>1, FileClient DEF FileInv
            <6> QED BY <6>2
          <5> QED BY <2>a, <5>1, <5>2
        <4> QED BY <3>b, <4>1, <4>2
      <3>2. CASE rec.exists
        <4>1. CASE cpc'[c] = "u_unlink"
          BY <4>1
        <4>2. CASE cpc'[c] # "u_unlink"
          <5>1. /\ rec.marked /\ Stopped /\ ~Late(c) /\ ~Early(c)
                /\ \A d \in Client \ {c} : Late(d) => cpc'[d] = "u_unlink"
            BY <2>c, <3>2, <4>2
          <5>2. PICK d \in Client : Late(d) \/ Early(d)
            BY <2>1, <5>1 DEF MarkedFile
          <5>3. Early(d)' \/ cpc'[d] = "u_unlink"
            BY <2>a, <5>1, <5>2
          <5>4. procs # {} => \E e \in Client : cpc'[e] = "u_unlink"
            BY <2>1, <5>1 DEF MarkedFile
          <5> QED BY <3>b, <5>3, <5>4
        <4> QED BY <4>1, <4>2
      <3> QED BY <3>1, <3>2
    <2>4. MarkedFile'
      <3> SUFFICES ASSUME rec'.marked, Stopped', \A d \in Client : ~Spared(d)'
                   PROVE  /\ \E d \in Client : Late(d)' \/ Early(d)'
                          /\ procs' # {} => \E d \in Client : Late(d)'
        BY DEF MarkedFile, Late
      <3>b. procs' # {} => procs # {}
        BY <1>c
      <3>1. CASE rec.marked /\ Stopped
        <4>1. Late(c) => Late(c)'
          BY <2>1, <3>1, FileClient DEF FileInv
        <4>2. procs # {} => \E d \in Client : Late(d)'
          BY <2>1, <2>a, <3>1, <4>1 DEF MarkedFile
        <4>3. procs = {} => \E d \in Client : Late(d)' \/ Early(d)'
          <5> SUFFICES ASSUME procs = {} PROVE \E d \in Client : Late(d)' \/ Early(d)'
            OBVIOUS
          <5>1. PICK d \in Client : Late(d) \/ Early(d)
            BY <2>1, <3>1 DEF MarkedFile
          <5>2. Early(c) => Early(c)' \/ Late(c)'
            BY <2>1, FileClient DEF FileInv, Late
          <5> QED BY <2>a, <4>1, <5>1, <5>2
        <4> QED BY <3>b, <4>2, <4>3
      <3>2. CASE ~(rec.marked /\ Stopped)
        <4>1. Late(c)'
          BY <3>2, RecordGoes DEF Late
        <4> QED BY <4>1
      <3> QED BY <3>1, <3>2
    <2> QED BY <2>2, <2>3, <2>4
  <1> QED BY <1>1, <1>2

LEMMA ProcessRecord ==
  ASSUME SvcInv, ProcessStep
  PROVE  /\ procs # {}
         /\ \/ rec' = rec
            \/ rec'.state = "running" /\ rec'.exists /\ rec.state = "starting"
            \/ /\ rec'.state = "stopped" /\ rec.state = "starting"
               /\ ~rec'.exists => \A c \in Client : open[c] = 0
  <1>1. PICK p \in procs : Works(p)
    BY DEF ProcessStep, Works
  <1>a. rec \in Record /\ procs # {}
    BY <1>1, TypeParts DEF SvcInv, MachineTypeOK
  <1>b. ReportRunning(p) \/ ReportStopped(p) => rec.state = "starting" /\ rec.exists
    BY <1>a DEF ReportRunning, ReportStopped, SvcInv, ProcInv, HeldInv, NoRecord, Ending
  <1>2. CASE ReportRunning(p)
    <2>1. rec' = [rec EXCEPT !.state = "running"]
      <3>1. [rec EXCEPT !.state = "running"].state = "running"
        BY <1>a DEF Record
      <3> QED BY <1>2, <3>1 DEF ReportRunning, SetState, SetRecord
    <2> QED BY <1>a, <1>b, <1>2, <2>1 DEF Record
  <1>3. CASE ReportStopped(p)
    <2> DEFINE r == [rec EXCEPT !.state = "stopped"]
    <2>1. r.state = "stopped" /\ r.exists = rec.exists /\ r \in Record
      BY <1>a DEF Record
    <2>2. SetRecord(r, open)
      BY <1>3 DEF ReportStopped, SetState
    <2> HIDE DEF r
    <2> QED BY <1>a, <1>b, <1>3, <2>1, <2>2 DEF SetRecord, NoRecord
  <1> QED BY <1>a, <1>1, <1>2, <1>3 DEF Works, PipeReady, ProcessExit, recVars

LEMMA FileProcessStep ==
  ASSUME SvcInv, UploadInv, FileInv, ProcessStep
  PROVE  UploadInv' /\ FileInv'
  <1>1. UNCHANGED <<callVars, file, open>>
    BY DEF ProcessStep, Works, ReportRunning, ReportStopped, PipeReady, ProcessExit, SetState, SetRecord, recVars
  <1>2. \A c \in Client : /\ Ahead(c)' <=> Ahead(c)
                          /\ Spared(c)' <=> Spared(c)
                          /\ Early(c)' <=> Early(c)
                          /\ Late(c)' <=> Late(c)
                          /\ cpc'[c] = cpc[c]
    BY <1>1 DEF Ahead, Spared, Early, Late, Excused, Hindered, Has, callVars
  <1>3. procs # {}
    BY ProcessRecord
  <1>4. UploadInv'
    BY <1>1, <1>3 DEF UploadInv, callVars
  <1>5. CASE rec' = rec
    <2>1. BusyFile' <=> BusyFile
      BY <1>2, <1>5 DEF BusyFile, At, Stopped
    <2>2. UnheldFile => UnheldFile'
      BY <1>2, <1>3, <1>5 DEF UnheldFile
    <2>3. MarkedFile => MarkedFile'
      BY <1>2, <1>3, <1>5 DEF MarkedFile, Stopped
    <2> QED BY <1>1, <1>4, <2>1, <2>2, <2>3 DEF FileInv
  <1>6. CASE rec.state = "starting" /\ rec' # rec
    <2>1. PICK c \in Client : cpc[c] = "i_wait" \/ Hindered(c)
      BY <1>6 DEF SvcInv, CallInv
    <2>2. (Ahead(c) \/ Spared(c)) /\ Late(c)
      BY <2>1 DEF SvcInv, CallInv, HandleInv, HandleLabels, Exiting, Ahead, Spared, Excused, Late
    <2>3. BusyFile' /\ MarkedFile'
      BY <1>2, <2>2 DEF BusyFile, MarkedFile
    <2>4. ~rec'.exists => Spared(c)
      BY <1>6, <2>1, ProcessRecord DEF SvcInv, HandleInv, HandleLabels, Spared, Excused
    <2>5. UnheldFile'
      BY <1>2, <2>4 DEF UnheldFile
    <2> QED BY <1>4, <2>3, <2>5 DEF FileInv
  <1> QED BY <1>5, <1>6, ProcessRecord

LEMMA RemovalInitInv ==
  ASSUME SvcAssumption, SvcInit
  PROVE  RemovalInv
  <1>1. \A c \in Client : Ahead(c) /\ Early(c)
    BY DEF SvcInit, Ahead, Early
  <1>2. Client # {}
    BY DEF SvcAssumption
  <1>3. RemoveInv
    BY <1>1, <1>2 DEF RemoveInv, AllBusy
  <1>4. UploadInv
    BY DEF SvcInit, UploadInv, Exiting
  <1>5. ~rec.marked /\ (~rec.exists => procs = {})
    BY DEF SvcInit, NoRecord
  <1>6. FileInv
    BY <1>1, <1>2, <1>5 DEF FileInv, BusyFile, UnheldFile, MarkedFile
  <1>7. OneVersion => VersionInv
    BY AgreedInitInv DEF AgreedInv
  <1> QED BY <1>3, <1>4, <1>6, <1>7 DEF RemovalInv, NoneReplaces

LEMMA RemovalStepInv ==
  ASSUME SvcAssumption, SvcInv, RemovalInv, [SvcNext]_svcVars
  PROVE  RemovalInv'
  <1>1. ASSUME NEW c \in Client, ClientStep(c) \/ Kill(c)
        PROVE  RemovalInv'
    <2>1. RemoveInv'
      BY <1>1, RemoveClientStep DEF RemovalInv
    <2>2. ASSUME NoneReplaces
          PROVE  VersionInv' /\ UploadInv' /\ FileInv'
      BY <1>1, <2>2, VersionStep, UploadClientStep, FileClientStep DEF RemovalInv, NoneReplaces
    <2>3. NoneReplaces' => NoneReplaces
      BY <1>1, CallsMove DEF NoneReplaces, OneVersion, Has, Moves, SvcInv
    <2> QED BY <2>1, <2>2, <2>3 DEF RemovalInv
  <1>2. CASE ProcessStep
    <2>1. NoneReplaces' => NoneReplaces
      BY <1>2 DEF NoneReplaces, OneVersion, Has, ProcessStep, Works, ReportRunning, ReportStopped,
         PipeReady, ProcessExit, callVars
    <2> QED BY <1>2, <2>1, RemoveProcessStep, VersionStep, FileProcessStep DEF RemovalInv, NoneReplaces
  <1>3. CASE UNCHANGED svcVars
    <2> USE <1>3 DEF svcVars, recVars, procVars, callVars
    <2>1. /\ \A c \in Client : /\ Ahead(c)' = Ahead(c) /\ Excused(c)' = Excused(c)
                               /\ Spared(c)' = Spared(c) /\ Early(c)' = Early(c)
                               /\ Late(c)' = Late(c)
          /\ Stopped' = Stopped /\ \A ls : At(ls)' = At(ls)
          /\ NoneReplaces' = NoneReplaces
      BY DEF Ahead, Excused, Spared, Early, Late, Hindered, Has, Stopped, At, NoneReplaces, OneVersion
    <2>2. RemoveInv' = RemoveInv /\ VersionInv' = VersionInv /\ UploadInv' = UploadInv
      BY <2>1 DEF RemoveInv, AllBusy, VersionInv, UploadInv
    <2>3. FileInv' = FileInv
      BY <2>1 DEF FileInv, BusyFile, UnheldFile, MarkedFile
    <2> QED BY <2>1, <2>2, <2>3 DEF RemovalInv
  <1> QED BY <1>1, <1>2, <1>3 DEF SvcNext

LEMMA RemovalEnds ==
  ASSUME SvcAssumption, SvcInv, RemovalInv, AllRemoved
  PROVE  /\ ~rec.exists /\ \A p \in procs : p.phase \in Ending
         /\ NoneReplaces /\ (\A c \in Client : "failed" \notin result[c]) => ~file.whole
  <1>1. AllBusy /\ \A c \in Client : cpc[c] = "gone" /\ open[c] = 0
    BY DEF AllRemoved, AllBusy, Ahead, Excused, Hindered, Gone, SvcInv, CallInv, HandleInv
  <1>2. ~rec.exists
    BY <1>1 DEF RemovalInv, RemoveInv, At, Stopped, SvcInv, HeldInv
  <1>3. \A p \in procs : p.phase \in Ending
    BY <1>2, TypeParts DEF SvcInv, ProcInv, HeldInv, NoRecord, MachineTypeOK, Ending
  <1>4. NoneReplaces /\ (\A c \in Client : "failed" \notin result[c]) => ~file.whole
    BY <1>1 DEF RemovalInv, FileInv, BusyFile, At, AllBusy, Spared
  <1> QED BY <1>2, <1>3, <1>4

\* When all clients were given --uninstall and have left, and no client was
\* killed nor a call of the removal or of the wait for the start failed,
\* neither the record nor a working process of the service is left, whichever
\* of them svc_uninstall failed for and whichever handles svc_install had not
\* closed; and if all of them had the service running and none replaced it, no
\* file of it either that could be run.
THEOREM RemovalCorrect == SvcSpec => []UninstallRemoves
  <1>1. SvcInit => SvcInv /\ RemovalInv
    BY SvcInitInv, RemovalInitInv, SvcAssumption
  <1>2. SvcInv /\ RemovalInv /\ [SvcNext]_svcVars => (SvcInv /\ RemovalInv)'
    BY SvcStepInv, RemovalStepInv, SvcAssumption
  <1>3. SvcInv /\ RemovalInv => UninstallRemoves
    BY RemovalEnds, SvcAssumption DEF UninstallRemoves
  <1> QED BY <1>1, <1>2, <1>3, PTL DEF SvcSpec

----------------------------------------------------------------------------
\* The replacement, by a client alone on the machine. What may be started or
\* runs is the client's own once it has replaced the service.

OwnOnly(c) ==
    /\ file.ver \in {0, ClientVersion[c]} /\ (file.whole => file.ver # 0)
    /\ \A p \in procs : p.ver = ClientVersion[c]

\* The client has not replaced the service yet, or is about to.
Before(c) ==
    \/ Has(c, "reinstall") /\ ret[c] = "main"
    \/ ~Has(c, "reinstall") /\ (reinst[c] = 0 \/ ret[c] = "reinstall")

\* Nothing was there to be replaced but a file, and no upload has come through
\* yet: what is next to be started is uploaded first.
Stale(c) ==
    /\ Has(c, "reinstall") /\ procs = {}
    /\ cpc[c] \notin Installing \ {"i_upload"}

ReplaceInv ==
    \A c \in Client :
        /\ reinst[c] <= 1
        /\ ~Before(c) => OwnOnly(c) \/ Stale(c)
        /\ ret[c] \in {"main", "reinstall"} => cpc[c] \in Uninstalling \union {"main", "leave", "gone"}
        /\ cpc[c] = "u_open" /\ ret[c] = "reinstall" => rec.exists
        /\ cpc[c] = "main" => ret[c] = "main" /\ reinst[c] = 0
        /\ cpc[c] \in Uninstalling \ {"u_open", "u_stop"} /\ ret[c] # "exit" => Stopped
        /\ ~rec.exists /\ procs # {} => cpc[c] \in {"u_unlink", "leave", "gone"}

LEMMA OwnStays ==
  ASSUME SvcAssumption, Undisturbed, SvcInv, NEW c \in Client, OwnOnly(c),
         ClientStep(c) \/ Kill(c)
  PROVE  OwnOnly(c)'
  <1>a. MachineTypeOK /\ ClientVersion[c] \in Nat \ {0}
    BY TypeParts DEF SvcInv, SvcAssumption
  <1>1. file'.ver \in {0, ClientVersion[c]} /\ (file'.whole => file'.ver # 0)
    BY <1>a, ClientFile DEF SvcInv, OwnOnly, Uploads, Saves, Unlinks, NoFile
  <1>2. \A p \in procs' : p.ver = ClientVersion[c]
    <2>1. CASE Stops(c)
      BY <2>1, <1>a DEF Stops, StopService, OwnOnly, MachineTypeOK
    <2>2. CASE Starts(c)
      <3>1. file.ver = ClientVersion[c]
        BY <2>2 DEF Starts, Startable, OwnOnly
      <3> QED BY <2>2, <3>1 DEF Starts, StartProcess, OwnOnly
    <2>3. CASE procs' = procs
      BY <2>3 DEF OwnOnly
    <2> QED BY <2>1, <2>2, <2>3, ClientProcesses DEF SvcInv
  <1> QED BY <1>1, <1>2 DEF OwnOnly

LEMMA StaleStays ==
  ASSUME SvcAssumption, Undisturbed, SvcInv, NEW c \in Client, Stale(c),
         ClientStep(c) \/ Kill(c)
  PROVE  OwnOnly(c)' \/ Stale(c)'
  <1>a. Moves(c) /\ CallTypeOK /\ "call" \notin Faults /\ cpc[c] \notin Installing \ {"i_upload"}
    BY CallsMove, TypeParts DEF SvcInv, Undisturbed, Stale
  <1>1. procs' = {}
    BY ClientProcesses DEF SvcInv, Stops, StopService, Starts, Stale, Installing
  <1>2. CASE IUpload(c)
    <2>1. file' = [ver |-> ClientVersion[c], whole |-> FALSE]
      BY <1>2, <1>a DEF IUpload, CallFails, Stale
    <2> QED BY <1>1, <2>1 DEF OwnOnly
  <1>3. CASE ~IUpload(c)
    <2>1. cpc'[c] \notin Installing \ {"i_upload"}
      <3> USE DEF Installing
      <3>1. CASE svc_install(c) \/ svc_uninstall(c)
        <4>1. svc_uninstall(c)
          BY <1>3, <3>1, <1>a DEF svc_install, ISave, IOpen, ICreate, IQuery, IStop, IConfig, IStart, IWait,
             CallFails
        <4>2. cpc[c] \in Uninstalling
          BY <1>a, <4>1 DEF svc_uninstall, UOpen, UStop, UWait, UDelete, UClose, UUnlink, CallFails, Uninstalling
        <4> QED BY <1>a, <3>1, <4>2, CallsServed DEF Served, Returns, Loses, Goes, Exits, Uninstalling
      <3>2. CASE main(c)
        BY <1>a, <3>2 DEF main, MainInstall, Call, Goto, CallTypeOK
      <3>3. CASE OpenPipe(c) \/ GotVersion(c) \/ SessionEnds(c) \/ Leave(c) \/ Kill(c)
        BY <1>a, <3>3 DEF OpenPipe, GotVersion, SessionEnds, Leave, Kill, exit_program, Call, Goto, Jump,
           CallTypeOK, Stale
      <3> QED BY <3>1, <3>2, <3>3 DEF ClientStep
    <2> QED BY <1>1, <1>a, <2>1 DEF Stale, Has, Moves
  <1> QED BY <1>2, <1>3

\* The file and the processes are gone when svc_uninstall returns.
LEMMA UnlinkLeavesNothing ==
  ASSUME SvcAssumption, Undisturbed, SvcInv, NEW c \in Client, UUnlink(c), Stopped
  PROVE  procs = {} /\ procs' = {} /\ file' = NoFile
  <1>1. ~CallFails(c, "u_unlink") /\ "slowexit" \notin Faults
    BY DEF Undisturbed, CallFails
  <1>2. cpc[c] = "u_unlink"
    BY <1>1 DEF UUnlink
  <1>3. Writers = {}
    BY <1>2 DEF Undisturbed, Writers
  <1>4. procs = {}
    BY <1>1, TypeParts, ZenonT(60) DEF UUnlink, SvcInv, ProcInv, Stopped, MachineTypeOK, Ending
  <1> QED BY <1>1, <1>3, <1>4 DEF UUnlink, procVars

LEMMA ReplaceClientStep ==
  ASSUME SvcAssumption, Undisturbed, SvcInv, ReplaceInv, NEW c \in Client,
         ClientStep(c) \/ Kill(c)
  PROVE  ReplaceInv'
  <1>a. Moves(c) /\ CallTypeOK /\ MachineTypeOK /\ \A d \in Client : d = c
    BY CallsMove, TypeParts DEF SvcInv, Undisturbed
  <1>b. \A ok \in BOOLEAN : Return(c, ok) => Returns(c) /\ ret'[c] \notin {"main", "reinstall"}
    <2>1. ASSUME NEW ok \in BOOLEAN, Return(c, ok)
          PROVE  ret'[c] \notin {"main", "reinstall"}
      BY <1>a, <2>1 DEF Return, MainInstall, exit_program, Goto, Jump, Call, CallTypeOK
    <2> QED BY <1>a, <2>1, ReturnMoves
  <1>c. "call" \notin Faults /\ (\A at : ~CallFails(c, at)) /\ (\A l : ~CallMissed(c, l))
    BY DEF Undisturbed, CallFails, CallMissed
  <1>d. Connected(c) /\ ~Compatible(c) => ~OwnOnly(c) /\ ~Stale(c)
    BY DEF Connected, Compatible, OwnOnly, Same10, Stale
  <1>e. flags' = flags /\ reinst[c] \in Nat
    BY <1>a DEF Moves, CallTypeOK
  <1> USE DEF Goto, Jump, Call, CallTypeOK, callVars, Uninstalling, ReplaceInv
  <1>1. /\ reinst'[c] <= 1 /\ cpc'[c] # "main"
        /\ ret'[c] \in {"main", "reinstall"} => cpc'[c] \in Uninstalling \union {"main", "leave", "gone"}
    <2> USE DEF Returns, Exits
    <2>0. CASE main(c)
      BY <2>0, <1>a DEF main, MainInstall
    <2>1. CASE IUpload(c) \/ ISave(c) \/ IOpen(c) \/ ICreate(c) \/ IQuery(c)
      BY <2>1, <1>a, <1>b, <1>c, ZenonT(60) DEF IUpload, ISave, IOpen, ICreate, IQuery
    <2>2. CASE IStop(c) \/ IConfig(c) \/ IStart(c) \/ IWait(c)
      BY <2>2, <1>a, <1>b, <1>c DEF IStop, IConfig, IStart, IWait
    <2>3. CASE UOpen(c) \/ UStop(c) \/ UWait(c) \/ UDelete(c) \/ UClose(c) \/ UUnlink(c)
      BY <2>3, <1>a, <1>b, <1>c DEF UOpen, UStop, UWait, UDelete, UClose, UUnlink
    <2>4. CASE OpenPipe(c) \/ SessionEnds(c) \/ Leave(c) \/ Kill(c)
      BY <2>4, <1>a DEF OpenPipe, SessionEnds, Leave, Kill, exit_program
    <2>5. CASE GotVersion(c)
      <3>1. Connected(c) /\ ~Compatible(c) => reinst[c] = 0
        BY <1>d, <2>5 DEF Before, GotVersion
      <3> QED BY <2>5, <3>1, <1>a DEF GotVersion, exit_program
    <2> QED BY <2>0, <2>1, <2>2, <2>3, <2>4, <2>5 DEF ClientStep, svc_install, svc_uninstall
  <1>2. /\ cpc'[c] = "u_open" /\ ret'[c] # "exit" =>
              /\ (cpc[c] = "main" /\ ret'[c] = "main") \/ (cpc[c] = "version" /\ procs # {})
              /\ rec' = rec
        /\ cpc'[c] \in Uninstalling \ {"u_open", "u_stop"} =>
              UStop(c) \/ (cpc[c] \in Uninstalling \ {"u_open", "u_stop"} /\ ret' = ret)
    <2> USE DEF Returns, Exits, recVars, procVars
    <2>0. CASE main(c)
      BY <2>0, <1>a DEF main, MainInstall
    <2>1. CASE IUpload(c) \/ ISave(c)
      BY <2>1, <1>a, <1>b, <1>c, ZenonT(60) DEF IUpload, ISave
    <2>6. CASE IOpen(c) \/ ICreate(c) \/ IQuery(c)
      <3>1. cpc'[c] \in Uninstalling => ret'[c] = "exit" /\ cpc'[c] = "u_open"
        <4>1. CASE IOpen(c)
          BY <4>1, <1>a, <1>c DEF IOpen
        <4>2. CASE ICreate(c)
          BY <4>2, <1>a, <1>b, <1>c, ZenonT(60) DEF ICreate
        <4>3. CASE IQuery(c)
          BY <4>3, <1>a, <1>c DEF IQuery
        <4> QED BY <2>6, <4>1, <4>2, <4>3
      <3> QED BY <3>1
    <2>2. CASE IStop(c) \/ IConfig(c) \/ IStart(c) \/ IWait(c)
      BY <2>2, <1>a, <1>b, <1>c, ZenonT(60) DEF IStop, IConfig, IStart, IWait
    <2>3. CASE UOpen(c) \/ UStop(c) \/ UWait(c) \/ UDelete(c) \/ UClose(c) \/ UUnlink(c)
      BY <2>3, <1>a, <1>b, <1>c DEF UOpen, UStop, UWait, UDelete, UClose, UUnlink
    <2>4. CASE OpenPipe(c) \/ SessionEnds(c) \/ Leave(c) \/ Kill(c)
      BY <2>4, <1>a DEF OpenPipe, SessionEnds, Leave, Kill, exit_program
    <2>5. CASE GotVersion(c)
      BY <2>5, <1>a DEF GotVersion, exit_program, Connected
    <2> QED BY <2>0, <2>1, <2>2, <2>3, <2>4, <2>5, <2>6 DEF ClientStep, svc_install, svc_uninstall
  <1>3. cpc'[c] \in Uninstalling \ {"u_open", "u_stop"} /\ ret'[c] # "exit" => Stopped'
    <2>1. CASE UStop(c)
      <3>1. rec.state # "starting"
        BY <2>1, <1>a, <1>c DEF UStop, SvcInv, CallInv, Hindered
      <3>2. RStop(c)
        BY <2>1, <1>a, <1>c DEF UStop, RStop, recVars, procVars
      <3> QED BY <3>1, <3>2, StopsOnce DEF Stopped
    <2>2. CASE cpc[c] \in Uninstalling \ {"u_open", "u_stop"} /\ ret' = ret /\ ret'[c] # "exit"
                 /\ cpc'[c] \in Uninstalling
      BY <2>2, ClientProcesses DEF SvcInv, Stops, Starts, Stopped
    <2> QED BY <1>2, <2>1, <2>2
  <1>4. ~rec'.exists /\ procs' # {} => cpc'[c] \in {"u_unlink", "leave", "gone"}
    <2> SUFFICES ASSUME ~rec'.exists, procs' # {}
                 PROVE  cpc'[c] \in {"u_unlink", "leave", "gone"}
      OBVIOUS
    <2>1. ~Starts(c)
      <3>1. HeldInv'
        BY HandleStep DEF SvcInv
      <3> QED BY <3>1 DEF Starts, HeldInv, NoRecord
    <2>2. procs # {}
      BY <2>1, ClientProcesses DEF SvcInv, Stops, StopService
    <2>3. CASE rec.exists
      <3>1. cpc[c] = "leave" => cpc'[c] = "gone"
        <4>1. cpc[c] = "leave" => Leave(c)
          BY <1>c DEF ClientStep, svc_install, svc_uninstall, main, IUpload, ISave, IOpen, ICreate,
             IQuery, IStop, IConfig, IStart, IWait, UOpen, UStop, UWait, UDelete, UClose, UUnlink,
             OpenPipe, GotVersion, SessionEnds, Kill
        <4> QED BY <4>1, <1>a DEF Leave
      <3> QED BY <2>3, <3>1, RecordGoes
    <2>4. CASE ~rec.exists
      <3>1. cpc[c] \in {"u_unlink", "leave", "gone"} /\ Stopped
        BY <2>2, <2>4 DEF SvcInv, HeldInv, NoRecord, Stopped
      <3>2. ~UUnlink(c)
        BY <3>1, UnlinkLeavesNothing
      <3>3. Leave(c) \/ Kill(c)
        BY <3>1, <3>2, <1>c DEF ClientStep, svc_install, svc_uninstall, main, IUpload, ISave, IOpen,
           ICreate, IQuery, IStop, IConfig, IStart, IWait, UOpen, UStop, UWait, UDelete, UClose,
           OpenPipe, GotVersion, SessionEnds
      <3> QED BY <3>3, <1>a DEF Leave, Kill
    <2> QED BY <2>3, <2>4
  <1>5. cpc'[c] = "u_open" /\ ret'[c] = "reinstall" => rec'.exists
    BY <1>2
  <1>6. reinst'[c] = reinst[c] \/ ret'[c] = "reinstall"
    <2> USE DEF Returns, Exits
    <2>1. CASE ~GotVersion(c)
      BY <2>1, <1>a, <1>b, <1>c DEF ClientStep, svc_install, svc_uninstall, main, MainInstall,
         IUpload, ISave, IOpen, ICreate, IQuery, IStop, IConfig, IStart, IWait, UOpen, UStop, UWait,
         UDelete, UClose, UUnlink, OpenPipe, SessionEnds, Leave, Kill, exit_program
    <2>2. CASE GotVersion(c)
      BY <2>2, <1>a DEF GotVersion, exit_program
    <2> QED BY <2>1, <2>2
  <1>7. ret[c] \in {"main", "reinstall"} /\ ret'[c] # ret[c] =>
           \/ UUnlink(c) \/ main(c)
           \/ /\ cpc[c] = "u_open" /\ ret[c] = "main" /\ procs = {} /\ procs' = {}
              /\ cpc'[c] \in {"opening", "i_upload"}
    <2> SUFFICES ASSUME ret[c] \in {"main", "reinstall"}, ret'[c] # ret[c],
                        ~UUnlink(c), ~main(c)
                 PROVE  /\ cpc[c] = "u_open" /\ ret[c] = "main" /\ procs = {} /\ procs' = {}
                        /\ cpc'[c] \in {"opening", "i_upload"}
      OBVIOUS
    <2>1. cpc[c] \in Uninstalling \union {"main", "leave", "gone"}
      OBVIOUS
    <2>2. CASE svc_uninstall(c)
      <3>1. UOpen(c) /\ Return(c, FALSE) /\ ~rec.exists /\ procs' = procs /\ cpc[c] = "u_open"
        BY <2>1, <2>2, <1>c DEF svc_uninstall, UOpen, UStop, UWait, UDelete, UClose, Stopped, procVars
      <3> QED BY <3>1, <1>b DEF Returns
    <2>3. CASE svc_install(c)
      BY <2>1, <2>3, <1>c DEF svc_install, IUpload, ISave, IOpen, ICreate, IQuery, IStop, IConfig,
         IStart, IWait
    <2>4. CASE OpenPipe(c) \/ GotVersion(c) \/ SessionEnds(c) \/ Leave(c) \/ Kill(c)
      BY <2>1, <2>4 DEF OpenPipe, GotVersion, SessionEnds, Leave, Kill
    <2> QED BY <2>2, <2>3, <2>4 DEF ClientStep
  <1>8. ~Before(c)' => OwnOnly(c)' \/ Stale(c)'
    <2>1. CASE OwnOnly(c) \/ Stale(c)
      BY <2>1, OwnStays, StaleStays
    <2>2. CASE ~OwnOnly(c) /\ ~Stale(c) /\ ~Before(c)'
      <3>1. Before(c)
        BY <2>2
      <3>2. /\ (ret[c] = "reinstall" /\ ~Has(c, "reinstall")) \/ (ret[c] = "main" /\ Has(c, "reinstall"))
            /\ ret'[c] # ret[c]
        BY <2>2, <3>1, <1>6, <1>e DEF Before, Has
      <3>3. ~main(c)
        BY <3>2, <1>a DEF main
      <3>4. CASE UUnlink(c)
        <4>1. Stopped
          BY <3>2, <3>4, <1>c DEF UUnlink
        <4>2. file' = NoFile /\ procs' = {}
          BY <3>4, <4>1, UnlinkLeavesNothing
        <4> QED BY <4>2 DEF OwnOnly, NoFile
      <3>5. CASE ~UUnlink(c)
        BY <1>7, <1>e, <3>2, <3>3, <3>5 DEF Stale, Has, Installing
      <3> QED BY <3>4, <3>5
    <2> QED BY <2>1, <2>2
  <1> QED BY <1>1, <1>3, <1>4, <1>5, <1>8, <1>a

LEMMA ReplaceProcessStep ==
  ASSUME Undisturbed, SvcInv, ReplaceInv, ProcessStep
  PROVE  ReplaceInv'
  <1>a. ProcTypeOK
    BY TypeParts DEF SvcInv, MachineTypeOK, ProcTypeOK
  <1>1. UNCHANGED <<callVars, file>> /\ procs # {}
    BY ProcessRecord DEF ProcessStep, Works, ReportRunning, ReportStopped, PipeReady, ProcessExit
  <1>2. \A q \in procs' : \E p \in procs : q.ver = p.ver
    <2>1. \A p \in procs, x \in {"running", "failed"} :
             [p EXCEPT !.phase = x].ver = p.ver /\ [p EXCEPT !.pipe = TRUE].ver = p.ver
      BY <1>a DEF ProcTypeOK
    <2> QED BY <2>1 DEF ProcessStep, Works, ReportRunning, ReportStopped, PipeReady, ProcessExit
  <1>3. \A c \in Client : (OwnOnly(c) => OwnOnly(c)') /\ ~Stale(c)
    BY <1>1, <1>2 DEF OwnOnly, Stale
  <1>4. \A c \in Client : Before(c) => Before(c)'
    BY <1>1 DEF Before, Has, callVars
  <1>5. Stopped => Stopped'
    BY ProcessRecord DEF Stopped
  <1>6. \A c \in Client : rec.exists /\ ~rec'.exists => cpc[c] \in {"leave", "gone"}
    <2> SUFFICES ASSUME NEW c \in Client, rec.exists, ~rec'.exists
                 PROVE  cpc[c] \in {"leave", "gone"}
      OBVIOUS
    <2>1. rec.state = "starting" /\ open[c] = 0
      BY ProcessRecord
    <2>2. cpc[c] = "i_wait" \/ Hindered(c)
      BY <2>1 DEF SvcInv, CallInv, Undisturbed
    <2>3. cpc[c] # "i_wait" /\ "unreached" \notin result[c]
      BY <2>1 DEF SvcInv, HandleInv, HandleLabels, CallInv, Undisturbed
    <2> QED BY <2>2, <2>3 DEF SvcInv, CallInv, Hindered
  <1> QED BY <1>1, <1>3, <1>4, <1>5, <1>6 DEF ReplaceInv, callVars

LEMMA ReplaceInitInv ==
  ASSUME SvcAssumption, SvcInit
  PROVE  ReplaceInv
  <1>1. ~rec.exists => procs = {}
    BY DEF SvcInit
  <1>2. \A c \in Client : /\ cpc[c] = "main" /\ ret[c] = "main" /\ reinst[c] = 0
                          /\ Before(c)
    BY DEF SvcInit, Before
  <1>3. ASSUME NEW c \in Client
        PROVE  reinst[c] <= 1 /\ cpc[c] \notin Uninstalling
    <2>1. reinst[c] = 0 /\ cpc[c] = "main"
      BY <1>2
    <2>2. reinst[c] <= 1
      BY <2>1
    <2> QED BY <2>1, <2>2 DEF Uninstalling
  <1> QED BY <1>1, <1>2, <1>3 DEF ReplaceInv, Uninstalling

LEMMA ReplaceStepInv ==
  ASSUME SvcAssumption, Undisturbed, SvcInv, ReplaceInv, [SvcNext]_svcVars
  PROVE  ReplaceInv'
  <1>1. CASE \E c \in Client : ClientStep(c) \/ Kill(c)
    BY <1>1, ReplaceClientStep
  <1>2. CASE ProcessStep
    BY <1>2, ReplaceProcessStep
  <1>3. CASE UNCHANGED svcVars
    BY <1>3 DEF svcVars, recVars, procVars, callVars, ReplaceInv, Before, OwnOnly, Stale, Stopped, Has
  <1> QED BY <1>1, <1>2, <1>3 DEF SvcNext

LEMMA ReplaceAlways == SvcSpec => [](SvcInv /\ (Undisturbed => ReplaceInv))
  <1>1. SvcInit => SvcInv /\ (Undisturbed => ReplaceInv)
    BY SvcInitInv, ReplaceInitInv, SvcAssumption
  <1>2. SvcInv /\ (Undisturbed => ReplaceInv) /\ [SvcNext]_svcVars
           => (SvcInv /\ (Undisturbed => ReplaceInv))'
    BY SvcStepInv, ReplaceStepInv, SvcAssumption DEF Undisturbed
  <1> QED BY <1>1, <1>2, PTL DEF SvcSpec

\* Undisturbed, a client replaces a service of another version at most once,
\* whatever was on the machine, whichever of its options are set and whether or
\* not its upload breaks off or it is killed: on_ctrl_pipe_close does not lead
\* to an endless series of reinstallations.
THEOREM ReplacedOnceCorrect == SvcSpec => []ReplacedOnce
  <1>1. SvcInv /\ (Undisturbed => ReplaceInv) => ReplacedOnce
    BY DEF ReplacedOnce, ReplaceInv
  <1> QED BY <1>1, ReplaceAlways, PTL

\* Undisturbed, a client that was given --reinstall runs its command on the
\* service it carries: svc_uninstall, called by main, has left neither an old
\* process nor an old file, or an upload has replaced a file that belonged to no
\* service.
THEOREM ReinstallCorrect == SvcSpec => []ReinstallRunsOwn
  <1>1. SvcInv /\ (Undisturbed => ReplaceInv) => ReinstallRunsOwn
    <2> SUFFICES ASSUME Undisturbed, ReplaceInv, NEW c \in Client,
                        Has(c, "reinstall"), cpc[c] = "session",
                        NEW p \in procs
                 PROVE  p.ver = ClientVersion[c]
      BY DEF ReinstallRunsOwn
    <2>1. ~Before(c)
      BY DEF ReplaceInv, Before, Uninstalling
    <2> QED BY <2>1 DEF ReplaceInv, OwnOnly, Stale
  <1> QED BY <1>1, ReplaceAlways, PTL
=============================================================================
