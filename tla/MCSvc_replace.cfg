SPECIFICATION SvcFairSpec
CONSTANTS
    Client = {1}
    ClientVersion <- Same
    Options <- Alone
    Present = {90, 100, 105}
    Types = {TRUE, FALSE}
    Faults = {"upload", "kill", "start"}
    MaxStarts = 4
INVARIANTS
    ReplacedOnce
    ReinstallRunsOwn
PROPERTIES
    ClientsEnd
CHECK_DEADLOCK FALSE
