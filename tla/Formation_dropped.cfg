CONSTANTS
    Hosts = {1, 2, 3}
    Leaders = {1, 2}
    Views = {{1, 2}, {2, 3}}
    Clusters = {c1, c2, c3}
    Versions = {v1}
    Supported = {v1}
    Version = v1
    MemberCount = 3
    Failures = {"dropped"}
    Recycle = FALSE
    MaxFaults = 1
    FaultyCreation = TRUE
    None = None
    Corrupt = Corrupt
SPECIFICATION Spec
INVARIANTS OpenedDataSurvives
