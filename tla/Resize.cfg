\* Two or three members on four hosts, one of them with an http URL, with any fault and two changes of the spec.
CONSTANTS
    Hosts = {h1, h2, h3, h4}
    Founders = {{h1, h2}, {h1, h2, h3}}
    Plain = {h4}
    Counts = {2, 3}
    Failures = {"slow", "backup", "call", "refused", "expiry", "host", "exit", "crash"}
    MaxFaults = 1
    MaxSpecs = 2
    None = None
SPECIFICATION FairSpec
INVARIANTS TLSFollowsURL
PROPERTIES ChangesAreBackedUp RemovalKeepsQuorum SettlesUnlessLeftovers
