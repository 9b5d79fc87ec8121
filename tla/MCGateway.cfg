SPECIFICATION MCSpec
CONSTANTS
    Conns = {"c1", "c2"}
    Orgs = {"o1", "o2"}
    OrgOf <- MCOrgOf
    Configs <- MCConfigs
    Patches <- MCPatches
    Requests = {"r1"}
    Sweeps = {"s1"}
    MaxConnectors = 2
    BatchSize = 1
    MaxChanges = 2
    Calls = {"g1"}
    Keys = {"k1"}
    KeyUser <- MCKeyUser
    KeyOrg <- MCKeyOrg
    Users = {"u1"}
    Scopes <- MCScopes
    Grants <- MCGrants
    Resources = {"f1"}
    Capacity = 2
    IdleTTL = 2
    LinkTTL = 1
    MaxTime = 2
    MaxLinks = 1
    MaxRowsOfSheet = 5
    PageSize = 2
    ScanBudget = 4
    MaxLimit = 2
    Filters <- MCFilters
    Base = 2
    MaxColumn = 5
    MaxReadRangeRows = 3
    MaxReadRangeCells = 6
    RangeRows = {0, 1, 2, 4}
    MaxLetters = 3
    Widths = {0, 2, 3}
    Credentials <- MCCredentials
    Readers = {"t1", "t2"}
INVARIANTS NoStaleAuthority LinksEnd RateBounded ScanHonest RangeFaithful RotationTakesEffect
CHECK_DEADLOCK FALSE
