SPECIFICATION SessSpec
CONSTANTS
    ExitCodes = {3}
    Versions = {90, 100}
    MayFail = {}
    Capacity = 1
    MaxQueued = 4
    Writes <- MCWrites
    VERSION = 100
    Asked = {"client"}
    Signals = {"SIGINT"}
    Faults = {}
    MaxOut = 0
    MaxIn = 0
    MaxReinstall = 0
PROPERTIES
    RunsRemotely
CHECK_DEADLOCK FALSE
