------------------------------- MODULE Pipes -------------------------------
(***************************************************************************)
(* The Windows named pipes that join a winexe client to one connection     *)
(* thread of winexesvc, as the two programs use them: the control pipe     *)
(* \pipe\ahexec and the three standard streams of the remote process.      *)
(* Nothing here is code of the repository; it is what the calls in         *)
(* winexesvc.c (CreateNamedPipe, WriteFile, FlushFileBuffers,              *)
(* DisconnectNamedPipe, CloseHandle) and in async.c (SMB open, read,       *)
(* write, close on the pipe) rely on.                                      *)
(***************************************************************************)
EXTENDS Naturals, Sequences

Pipe == {"ctrl", "in", "out", "err"}

\* "none":   no instance of that name exists yet
\* "listen": created by the service, no client has opened it
\* "conn":   both ends open
\* "broken": the client closed its end, the service still holds its handle
\* "closed": the service disconnected the client or closed its handle
InstState == {"none", "listen", "conn", "broken", "closed"}

VARIABLES
    inst,       \* state of the instance of each pipe
    c2s,        \* written by the client, not yet read by the service side
    s2c,        \* written by the service side, not yet read by the client
    discarded   \* history: some s2c data was thrown away under a client
                \* that was still connected

pipeVars == <<inst, c2s, s2c, discarded>>

----------------------------------------------------------------------------
\* The service's end.

\* A new instance, with empty buffers.
CreateNamedPipe(p) ==
    /\ inst' = [inst EXCEPT ![p] = "listen"]
    /\ c2s' = [c2s EXCEPT ![p] = <<>>]
    /\ s2c' = [s2c EXCEPT ![p] = <<>>]
    /\ UNCHANGED discarded

\* A write to a pipe whose client is gone fails and stores nothing.
WriteFile(p, m) ==
    /\ s2c' = IF inst[p] = "conn" THEN [s2c EXCEPT ![p] = Append(@, m)] ELSE s2c
    /\ UNCHANGED <<inst, c2s, discarded>>

\* One item (a line, or a chunk of a byte stream) is taken off the pipe.
ReadFile(p) ==
    /\ c2s[p] # <<>>
    /\ c2s' = [c2s EXCEPT ![p] = Tail(@)]
    /\ UNCHANGED <<inst, s2c, discarded>>

\* FlushFileBuffers returns once the client has read everything, or is gone.
Flushed(p) == inst[p] = "conn" => s2c[p] = <<>>

\* DisconnectNamedPipe and CloseHandle throw away what was not read.
Disconnect(p) ==
    /\ inst' = [inst EXCEPT ![p] = "closed"]
    /\ c2s' = [c2s EXCEPT ![p] = <<>>]
    /\ s2c' = [s2c EXCEPT ![p] = <<>>]
    /\ discarded' = (discarded \/ ~Flushed(p))

----------------------------------------------------------------------------
\* The client's end.

ClientOpen(p) ==
    /\ inst[p] = "listen"
    /\ inst' = [inst EXCEPT ![p] = "conn"]
    /\ UNCHANGED <<c2s, s2c, discarded>>

ClientWrite(p, items) ==
    /\ inst[p] = "conn"
    /\ c2s' = [c2s EXCEPT ![p] = @ \o items]
    /\ UNCHANGED <<inst, s2c, discarded>>

\* A read returns everything that is buffered: the pipes are byte streams,
\* so two messages that wait together are read together.
ClientRead(p) ==
    /\ inst[p] = "conn"
    /\ s2c[p] # <<>>
    /\ s2c' = [s2c EXCEPT ![p] = <<>>]
    /\ UNCHANGED <<inst, c2s, discarded>>

ClientClose(p) ==
    /\ inst[p] = "conn"
    /\ inst' = [inst EXCEPT ![p] = "broken"]
    /\ s2c' = [s2c EXCEPT ![p] = <<>>]
    /\ UNCHANGED <<c2s, discarded>>

\* A client that is gone: the SMB server closes what it had open.
ClientVanish(ps) ==
    /\ inst' = [p \in Pipe |-> IF p \in ps /\ inst[p] = "conn" THEN "broken" ELSE inst[p]]
    /\ s2c' = [p \in Pipe |-> IF p \in ps THEN <<>> ELSE s2c[p]]
    /\ UNCHANGED <<c2s, discarded>>
=============================================================================
