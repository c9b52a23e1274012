SPECIFICATION FairSpec
CONSTANTS
    Peers = {1, 2}
    Tokens = {t1, t2, t3, t4}
    None = None
    NoLock = NoLock
    Seeded = {}
    MaxFaults = 1
INVARIANTS TypeOK LockExcludes ActingIsAcked
PROPERTIES ImplementsPromise EventuallySettled LowestKeepsActing
