CONSTANTS
    Hosts = {1, 2, 3}
    Leaders = {1}
    Views = {{1, 2, 3}}
    Clusters = {c1, c2}
    Versions = {v1}
    Supported = {v1}
    Version = v1
    MemberCount = 3
    Failures = {"dropped", "lost", "unreachable", "slow", "store", "expiry", "restart", "exit", "stopFails", "writeFails", "startFails", "secondWriteFails", "renameFails"}
    Recycle = FALSE
    MaxFaults = 2
    FaultyCreation = TRUE
    None = None
    Corrupt = Corrupt
SPECIFICATION Spec
INVARIANTS OpenedDataSurvives StaleInfoIsFenced
CHECK_DEADLOCK FALSE
