SPECIFICATION MCSpec
CONSTANTS
    Orgs = {"o1"}
    Plans = {"p1", "p2"}
    Prices = {"x1", "x2", "x3"}
    Groups = {"g1", "g2"}
    GroupOf <- MCGroupOf
    Seeded = {"p1"}
    SeedLimits <- MCSeedLimits
    LimitKeys = {"max_members"}
    LimitValues <- MCLimitValues
    q1 = q1
    q2 = q2
    Staff = {q1, q2}
    MaxEdits = 4
    u1 = u1
    u2 = u2
    u3 = u3
    Users = {u1, u2, u3}
    Roles = {"r1"}
    RoleOrg <- MCRoleOrg
    Requests = {q1, q2}
    MaxJoins = 2
    MaxConsole = 1
    Accounts = {u1, u2, u3}
    Tabs = {q1, q2}
    Cap = 2
    MaxGrants = 1
    MaxMinted = 1
    Lists = {"organizations", "users", "connectors", "mcpkeys", "auditlogs", "stats"}
    Rows <- MCRows
    Asked <- MCAsked
    Pages = {q1, q2}
    countCacheTTL = 1
    MaxRows = 2
    MaxClock = 2
    MaxWrites = 2
    Carts = {q1, q2}
    FreePlan = "p1"
    MaxCustomers = 2
    OnSale = {"x1"}
    MaxSessions = 1
    MaxPaid = 2
INVARIANTS TenancyInv RolesFollowMembership StaffInv SomeoneStays TotalFresh BillingAgrees
PROPERTIES StaysPurchasable
SYMMETRY MCSymmetry
CONSTRAINT FewCarts
CHECK_DEADLOCK FALSE
