\* Two controllers, of which the one may take over from the other.
CONSTANTS
    Hosts = {h1, h2, h3}
    Leaders = {p1, p2}
    Clusters = {c1, c2, c3}
    Versions = {4, 6}
    Failures = {"election"}
    MaxFaults = 3
    MaxSpecs = 1
    MaxWrites = 1
    None = None
SPECIFICATION Spec
INVARIANT NoWriteLost
