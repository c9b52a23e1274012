CONSTANTS
    Hosts = {1, 2}
    Leaders = {1}
    Views = {{1, 2}}
    Clusters = {c1, c2, c3}
    Versions = {v1}
    Supported = {v1}
    Version = v1
    MemberCount = 3
    Failures = {"dropped", "lost", "unreachable", "slow", "store", "exit", "stopFails", "writeFails", "startFails", "renameFails"}
    Recycle = TRUE
    MaxFaults = 3
    FaultyCreation = FALSE
    None = None
    Corrupt = Corrupt
SPECIFICATION FairSpec
PROPERTIES ClusterOpens
