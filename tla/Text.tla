-------------------------------- MODULE Text ---------------------------------
(***************************************************************************)
(* From the options of winexe to what the service does: the lines that     *)
(* on_ctrl_pipe_read writes once the version fits, and how hgets, the      *)
(* search of cmd_table, cmd_set, cmd_run and prepare_credentials take them *)
(* apart again.  Texts are sequences of characters.                        *)
(***************************************************************************)
EXTENDS Naturals, Sequences, SequencesExt

CONSTANTS
    Limit,      \* MAX_COMMAND_LENGTH, 32768
    Texts,      \* domains, user names and passwords that are tried
    Commands    \* commands that are tried

ASSUME TextAssumption == Limit \in Nat \ {0, 1}

NL == "\n"
Blank == " "

strchr(s, ch) == SelectInSeq(s, LAMBDA x : x = ch)
Upto(s, i) == SubSeq(s, 1, i - 1)
From(s, i) == SubSeq(s, i, Len(s))

Run    == <<"r", "u", "n">>
Set    == <<"s", "e", "t">>
Runas  == <<"r", "u", "n", "a", "s">>
System == <<"s", "y", "s", "t", "e", "m">>

VARIABLES
    request,    \* the options of winexe
    pipe,       \* what the service has not read of the control pipe
    phase,      \* of handle_connection: "none", "lines", "running" or "ended"
    runas,      \* c->runas, empty for NULL
    system,     \* c->system
    started     \* the account and command of the process, once there is one

textVars == <<request, pipe, phase, runas, system, started>>

----------------------------------------------------------------------------
\* winexe.

How == {"plain", "system", "runas"}
Requests == [how : {"runas"}, domain : Texts, sep : {"/", "\\"}, user : Texts,
             password : Texts, cmd : Commands]
            \union [how : {"plain", "system"}, cmd : Commands]

\* --runas [DOMAIN\]USERNAME%PASSWORD, also with a slash.
RunasText(r) ==
    (IF r.domain = <<>> THEN <<>> ELSE Append(r.domain, r.sep))
    \o r.user \o <<"%">> \o r.password

\* The lines without their ends.
Options(r) ==
    CASE r.how = "runas"  -> <<Set \o <<Blank>> \o Runas \o <<Blank>> \o RunasText(r)>>
      [] r.how = "system" -> <<Set \o <<Blank>> \o System \o <<Blank, "1">>>>
      [] OTHER            -> <<>>
Lines(r) == Append(Options(r), Run \o <<Blank>> \o r.cmd)

Ended(ls) == FlattenSeq([i \in DOMAIN ls |-> Append(ls[i], NL)])

\* Nothing is asked, or something that was written in one go.
TextInit ==
    /\ request \in Requests \union {[how |-> "none"]}
    /\ pipe = IF request.how = "none" THEN <<>> ELSE Ended(Lines(request))
    /\ phase = IF request.how = "none" THEN "none" ELSE "lines"
    /\ runas = <<>> /\ system = FALSE
    /\ started = <<>>

----------------------------------------------------------------------------
\* winexesvc.

\* Mutant: one character less fits.
hgetsShorter(s) ==
    LET e == strchr(s, NL) IN
    IF e \in 1..(Limit - 2) THEN [line |-> Upto(s, e), rest |-> From(s, e + 1)]
    ELSE [line |-> Upto(s, Limit - 1), rest |-> From(s, Limit - 1)]

\* hgets: a character at a time up to the end of the line, which is taken off
\* the pipe but not returned, or until only the 0 fits in the buffer.
hgets(s) ==
    LET e == strchr(s, NL) IN
    IF e \in 1..(Limit - 1) THEN [line |-> Upto(s, e), rest |-> From(s, e + 1)]
    ELSE [line |-> Upto(s, Limit), rest |-> From(s, Limit)]

\* handle_connection: a name of cmd_table, followed by a blank or the end.
IsCommand(s, name) ==
    IsPrefix(name, s) /\ (Len(s) = Len(name) \/ s[Len(name) + 1] = Blank)

\* What follows the first blank.
Argument(s) == From(s, strchr(s, Blank) + 1)

\* "variable value"
IsVariable(s, name) == IsPrefix(Append(name, Blank), s)
Value(s, name) == From(s, Len(name) + 2)

\* prepare_credentials: a slash anywhere wins over a backslash.
prepare_credentials(s) ==
    LET d == IF strchr(s, "/") # 0 THEN strchr(s, "/") ELSE strchr(s, "\\")
        r == From(s, d + 1)
        p == strchr(r, "%")
    IN  [domain |-> IF d = 0 THEN <<".">> ELSE Upto(s, d),
         user |-> IF p = 0 THEN r ELSE Upto(r, p),
         password |-> IF p = 0 THEN <<>> ELSE From(r, p + 1)]

\* The account of get_token.
Account == IF runas # <<>> THEN prepare_credentials(runas)
           ELSE [domain |-> <<>>, user |-> <<>>, password |-> <<>>]

\* cmd_set; for another variable, or none, the connection ends.
cmd_set(s) ==
    LET v == Argument(s)
        known == strchr(s, Blank) # 0 /\ (IsVariable(v, Runas) \/ IsVariable(v, System))
    IN  /\ phase' = IF known THEN phase ELSE "ended"
        /\ runas' = IF known /\ IsVariable(v, Runas) THEN Value(v, Runas) ELSE runas
        /\ system' = IF known /\ IsVariable(v, System) THEN Value(v, System) = <<"1">> ELSE system
        /\ UNCHANGED started

cmd_run(s) ==
    /\ phase' = IF strchr(s, Blank) = 0 THEN "ended" ELSE "running"
    /\ started' = IF strchr(s, Blank) = 0 THEN started
                  ELSE [account |-> Account, system |-> system, cmd |-> Argument(s)]
    /\ UNCHANGED <<runas, system>>

\* The loop of handle_connection: an empty line ends it, an unknown command is
\* only complained about.
ReadLine ==
    /\ phase = "lines"
    /\ strchr(pipe, NL) # 0 \/ Len(pipe) >= Limit - 1
    /\ LET l == hgets(pipe).line IN
       /\ pipe' = hgets(pipe).rest
       /\ \/ l = <<>> /\ phase' = "ended" /\ UNCHANGED <<runas, system, started>>
          \/ IsCommand(l, Set) /\ cmd_set(l)
          \/ IsCommand(l, Run) /\ cmd_run(l)
          \/ /\ l # <<>> /\ ~IsCommand(l, Set) /\ ~IsCommand(l, Run)
             /\ UNCHANGED <<phase, runas, system, started>>
    /\ UNCHANGED request

\* The wait of cmd_run: any character ends the process.
ReadByte ==
    /\ phase = "running" /\ pipe # <<>>
    /\ pipe' = Tail(pipe)
    /\ phase' = "ended"
    /\ UNCHANGED <<request, runas, system, started>>

TextNext == ReadLine \/ ReadByte

TextSpec == TextInit /\ [][TextNext]_textVars

----------------------------------------------------------------------------
\* Properties.

\* A request whose lines are lines, and leave room for the 0.
Fits(r) ==
    /\ NL \notin ToSet(r.cmd)
    /\ \A i \in DOMAIN Lines(r) : Len(Lines(r)[i]) <= Limit - 2

\* A name that prepare_credentials takes apart the way it was meant: the user
\* has no percent sign, and the first slash, or else the first backslash, is
\* the one that ends the domain.
Separable(r) ==
    r.how = "runas" =>
        /\ "%" \notin ToSet(r.user)
        /\ r.sep \notin ToSet(r.domain)
        /\ r.sep = "\\" \/ r.domain = <<>> =>
               "/" \notin ToSet(r.domain \o r.user \o r.password)
        /\ r.domain = <<>> => "\\" \notin ToSet(r.user \o r.password)

\* The service runs the command winexe was given under the account it was
\* told, and nothing ends the connection: formatting, reading, the searches
\* and the taking apart of the name undo each other, up to the longest line
\* that fits, and no rest of one is left for the wait to take for an abort.
Wanted(r) ==
    [account |-> IF r.how # "runas" THEN [domain |-> <<>>, user |-> <<>>, password |-> <<>>]
                 ELSE [domain |-> IF r.domain = <<>> THEN <<".">> ELSE r.domain,
                       user |-> r.user, password |-> r.password],
     system |-> r.how = "system", cmd |-> r.cmd]
AskedIsDone ==
    phase # "none" /\ Fits(request) /\ Separable(request) =>
        /\ phase # "ended"
        /\ phase = "running" => started = Wanted(request) /\ pipe = <<>>
=============================================================================
