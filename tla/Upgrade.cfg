\* Three members, one controller that may crash, every kind of fault, and two
\* changes of the version, which may be in place or not.
CONSTANTS
    Hosts = {h1, h2, h3}
    Leaders = {p1}
    Clusters = {c1, c2, c3}
    Versions = {4, 5, 6}
    Failures = {"slow", "away", "call", "lost", "store", "exit", "crash", "unknown"}
    MaxFaults = 1
    MaxSpecs = 2
    MaxWrites = 2
    None = None
SPECIFICATION FairSpec
INVARIANTS NoWriteLost CommandShutsClientsOut VersionsClose
PROPERTIES RollingKeepsQuorum UpgradeCompletes
