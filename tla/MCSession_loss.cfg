SPECIFICATION SessSpec
CONSTANTS
    ExitCodes = {3}
    Versions = {0, 100}
    MayFail = {"malloc", "CreateProcess"}
    Capacity = 1
    MaxQueued = 4
    Writes <- MCWrites
    VERSION = 100
    Asked = {"client"}
    Signals = {}
    Faults = {"net", "timeout", "install", "reinstall", "slow"}
    MaxOut = 1
    MaxIn = 0
    MaxReinstall = 1
INVARIANTS
    LongRunUntimed
    RunAtMostOnce
PROPERTIES
    RunsRemotely
CHECK_DEADLOCK FALSE
