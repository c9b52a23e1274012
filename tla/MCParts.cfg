CONSTANTS
    Hosts = {h1}
    Clusters = {c1, c2}
    Versions = {v1, v2, v9}
    Supported = {v1, v2}
    None = None
    Corrupt = Corrupt
    h1 = h1
    c1 = c1
    c2 = c2
    v1 = v1
    v2 = v2
    v9 = v9
    Managers = {m1, m2}
    Records = {r1, r2}
    MaxAttempts = 2
    m1 = m1
    m2 = m2
    r1 = r1
    r2 = r2
    Addresses = {a1, a2}
    Links = {l1, l2, l3}
    NoLink = NoLink
    Nowhere = Nowhere
    MaxMoves = 2
    a1 = a1
    a2 = a2
    l1 = l1
    l2 = l2
    l3 = l3
    MaxKey = 5
    PageSize = 2
    MaxWaits = 2
    CAs = {ca1, ca2}
    Names = {n1, n2}
    PrivateKeys = {k1, k2}
    Missing = Missing
    CutShort = CutShort
    CertDuration = 1
    CertMinTimeLeft = 2
    MaxYears = 2
    MaxStops = 3
    ca1 = ca1
    ca2 = ca2
    n1 = n1
    n2 = n2
    k1 = k1
    k2 = k2
    Agents = {x, y}
    BackupInterval = 0
    CleanupInterval = 1
    Hour = 1
    Day = 2
    HourlyBackupsRetention = 2
    DailyBackupsRetention = 3
    MaxSequence = 1
    Manual = Manual
    MaxTime = 3
    MaxFaults = 1
    MaxBackups = 3
    x = x
    y = y
SPECIFICATION PartsSpec
INVARIANTS
    ProcessMatchesState StateIsDurable
    EndsAsOneText RecordsArrive
    NoConnectionLeaks
    RestoreIsComplete RestoreCleansUp
    EtcdStartsWithMatchingPair
    ListedIsComplete HistoryIsKept
PROPERTIES
    ConfiguredHostRuns ConnectionRecovers RestoreEnds StartRecovers
CHECK_DEADLOCK FALSE
