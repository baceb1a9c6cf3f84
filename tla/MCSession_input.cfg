SPECIFICATION SessSpec
CONSTANTS
    ExitCodes = {3}
    Versions = {90, 100}
    MayFail = {}
    Capacity = 1
    MaxQueued = 4
    Writes <- MCWrites
    VERSION = 100
    Asked = {"client"}
    Signals = {}
    Faults = {"timeout"}
    MaxOut = 0
    MaxIn = 2
    MaxReinstall = 0
INVARIANTS
    NoNullDereference
CHECK_DEADLOCK FALSE
