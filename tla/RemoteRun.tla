------------------------------ MODULE RemoteRun ------------------------------
(***************************************************************************)
(* What winexe promises to whoever calls it: one command is run on another *)
(* machine as if it were run here.  Nothing is said of services, pipes or  *)
(* messages; Session shows that the two programs together behave like      *)
(* this.                                                                   *)
(***************************************************************************)
EXTENDS Naturals

CONSTANTS
    Stream,     \* the output streams of the command
    Code,       \* exit codes a command can have
    Aborted,    \* the code of a command that was terminated
    Initial,    \* the code of a client that learnt nothing
    Failure     \* the code of a client that found no service

VARIABLES
    command,    \* "none", "running" or "exited"
    code,       \* its exit code
    written,    \* what it wrote on each stream
    shown,      \* what the caller has seen of that
    caller,     \* "waits", "failing", "told" or "gone"
    result,     \* the exit code the caller will get
    cut         \* the caller interrupted the command, or cannot be reached

remoteVars == <<command, code, written, shown, caller, result, cut>>

RemoteInit ==
    /\ command = "none" /\ code = 0
    /\ written = [s \in Stream |-> 0]
    /\ shown = written
    /\ caller = "waits"
    /\ result = Initial
    /\ cut = FALSE

\* The command is started once.  It may start after the caller has gone.
Start ==
    /\ command = "none" /\ command' = "running"
    /\ UNCHANGED <<code, written, shown, caller, result, cut>>

Write(s) ==
    /\ command = "running"
    /\ written' = [written EXCEPT ![s] = @ + 1]
    /\ UNCHANGED <<command, code, shown, caller, result, cut>>

\* It ends by itself, or is terminated for a caller that interrupted it or
\* that has gone; never otherwise.
End(c) ==
    /\ command = "running" /\ command' = "exited"
    /\ c \in Code \/ (c = Aborted /\ cut)
    /\ code' = c
    /\ UNCHANGED <<written, shown, caller, result, cut>>

\* Output is shown in order and never more than was written.
Show(s, n) ==
    /\ caller = "waits"
    /\ n <= written[s] - shown[s]
    /\ shown' = [shown EXCEPT ![s] = @ + n]
    /\ UNCHANGED <<command, code, written, caller, result, cut>>

\* The caller learns the code after it has seen all of the output.  A command
\* that ended while it was being interrupted may be reported as aborted.
Tell ==
    /\ caller = "waits" /\ caller' = "told"
    /\ command = "exited" /\ shown = written
    /\ result' = code \/ (result' = Aborted /\ cut)
    /\ UNCHANGED <<command, code, written, shown, cut>>

Cut ==
    /\ cut' = TRUE
    /\ UNCHANGED <<command, code, written, shown, caller, result>>

\* The caller gives up with a code of its own, or leaves; one that leaves
\* cannot be reached any more.
Fail ==
    /\ caller = "waits" /\ caller' = "failing"
    /\ result' \in {Initial, Failure}
    /\ UNCHANGED <<command, code, written, shown, cut>>

Leave ==
    /\ caller # "gone" /\ caller' = "gone"
    /\ cut' = TRUE
    /\ UNCHANGED <<command, code, written, shown, result>>

RemoteNext ==
    \/ Start \/ Tell \/ Cut \/ Fail \/ Leave
    \/ \E s \in Stream : Write(s) \/ \E n \in 1..written[s] : Show(s, n)
    \/ \E c \in Code \union {Aborted} : End(c)

RemoteSpec == RemoteInit /\ [][RemoteNext]_remoteVars
=============================================================================
