SPECIFICATION MCSpec
CONSTANTS
    Client = {c1, c2}
    Pids = {4, 5, 65540}
    Served = {0, 65534}
    MayFail = {"CreateNamedPipe", "ConnectNamedPipe", "CreateThread", "CreateProcess", "malloc"}
    MaxStops = 1
    MaxReruns = 1
    Limit = 15
    Texts <- MCTexts
    Commands <- MCCommands
INVARIANTS
    LoopTypeOK
    OneThreadEach
    OwnPipes
    NamesFree
    AskedIsDone
PROPERTIES
    NobodyWaits
CHECK_DEADLOCK FALSE
