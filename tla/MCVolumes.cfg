SPECIFICATION FairSpec
CONSTANTS
    m1 = m1
    m2 = m2
    m3 = m3
    d1 = d1
    d2 = d2
    z1 = z1
    z2 = z2
    None = None
    Machines = {m1, m2, m3}
    Spares = {m3}
    Disks = {d1, d2}
    Zones = {z1, z2}
    Layouts <- MCLayouts
    Providers = {"aws", "gce", "azure", "openstack", "do", "linode", "hetzner", "scaleway", "external"}
    NDevices = 3
    InUse = {1}
    Failures = {"giveUp", "lost", "services", "api", "slow", "mount", "start", "lookup", "crash", "terminate"}
    MaxFaults = 2
INVARIANTS NodeOwnsDisk WaitsForOwnDisk TakesOneDisk
PROPERTIES DisksAreClaimed NodesAreFound
CHECK_DEADLOCK FALSE
