SPECIFICATION EndingSpec
CONSTANTS
    ExitCodes = {3}
    Versions = {0, 90, 100}
    MayFail = {}
    Capacity = 1
    MaxQueued = 4
    Writes <- MCWrites
    VERSION = 100
    Asked = {"runas", "system", "client"}
    Signals = {}
    Faults = {}
    MaxOut = 1
    MaxIn = 0
    MaxReinstall = 0
INVARIANTS
    SessTypeOK
    RunsAsAsked
    NormalEnd
PROPERTIES
    AlwaysEnds
    ServiceFollows
CHECK_DEADLOCK FALSE
