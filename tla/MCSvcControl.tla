---------------------------- MODULE MCSvcControl -----------------------------
(***************************************************************************)
(* Small instances of SvcControl: one or two clients, the versions and     *)
(* options they have in each run.                                          *)
(***************************************************************************)
EXTENDS SvcControl, TLC

Same == [c \in Client |-> 100]
All(o) == [c \in Client |-> o]
\* One client was given o, the others nothing.
One(o) == {[c \in Client |-> IF c = d THEN o ELSE {}] : d \in Client}

Plain == {All({})}
Sharing == {All({}), All({"interactive"}), All({"uninstall"})} \union One({"ignore"})
Alone == {All(o) : o \in {{}, {"reinstall"}, {"interactive"}, {"reinstall", "uninstall"}}}

\* No definition tells one client from another.
Alike == Permutations(Client)
=============================================================================
