CONSTANTS
    Managers = {m1, m2}
    Records = {r1, r2}
    MaxAttempts = 2
    m1 = m1
    m2 = m2
    r1 = r1
    r2 = r2
SPECIFICATION HostsSpec
INVARIANT EndResultNotMalformed
