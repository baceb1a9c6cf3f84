SPECIFICATION FairSpec
CONSTANTS
    ExitCodes = {3}
    Versions = {100}
    MayFail = {}
    Capacity = 1
    MaxQueued = 4
    Writes <- MCWrites
    VERSION = 100
    Asked = {"client"}
    Signals = {"SIGINT"}
    Faults = {"kill"}
    MaxOut = 0
    MaxIn = 0
    MaxReinstall = 0
PROPERTIES
    AbortEndsProcess
    ServiceRests
CHECK_DEADLOCK FALSE
