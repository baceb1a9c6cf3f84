SPECIFICATION FairSpec
CONSTANTS
    ExitCodes = {3}
    Versions = {100}
    MayFail = {}
    Capacity = 1
    MaxQueued = 4
    Writes <- MCWrites
    VERSION = 100
    Asked = {"client"}
    Signals = {}
    Faults = {"net"}
    MaxOut = 0
    MaxIn = 0
    MaxReinstall = 0
PROPERTIES
    NetworkErrorEnds
CHECK_DEADLOCK FALSE
