SPECIFICATION ConnSpec
CONSTANTS
    ExitCodes = {3}
    Versions = {100}
    MayFail = {"CreateThread", "malloc", "LogonUser", "OpenProcessToken", "Impersonate", "OpenThreadToken", "DuplicateToken", "RevertToSelf", "CreateNamedPipe", "ConnectNamedPipe", "CreateProcess"}
    Capacity = 1
    MaxQueued = 1
    Writes <- MCWrites
INVARIANTS
    ConnTypeOK
    OneMessagePerRead
    NothingDiscarded
    CodeAfterOutput
    HandlesReleased
    RunsAsRequested
    ServesAsItself
PROPERTIES
    ControlStopsProcess
    ClientGoneReleases
CHECK_DEADLOCK FALSE
