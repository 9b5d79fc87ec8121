SPECIFICATION MCSpec
CONSTANTS
    Conns = {"c1", "c2", "c3"}
    Orgs = {"o1"}
    OrgOf <- MCOrgOf
    Configs <- MCConfigs
    Requests = {"r1", "r2"}
    Sweeps = {"s1", "s2"}
    MaxConnectors = 1
    BatchSize = 1
    Patches <- MCPatches
    MaxChanges = 2
INVARIANTS ConnectorInv OneMailPerOutage
PROPERTIES SweepReaches
CHECK_DEADLOCK FALSE
