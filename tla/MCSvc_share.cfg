SPECIFICATION SvcSpec
CONSTANTS
    Client = {c1, c2}
    ClientVersion <- Same
    Options <- Sharing
    Present = {100}
    Types = {FALSE}
    Faults = {"kill", "upload", "call"}
    MaxStarts = 3
SYMMETRY Alike
INVARIANTS
    SvcTypeOK
    AgreeingClientsCoexist
    UninstallRemoves
CHECK_DEADLOCK FALSE
