SPECIFICATION Spec
CONSTANTS
    o1 = o1
    o2 = o2
    pro = pro
    Free = free
    None = None
    Orgs = {o1, o2}
    Workers = {w1, w2}
    Plans = {pro, free}
    Events <- MCEvents
    Catalogue <- MCCatalogue
    CustomerOf <- MCCustomerOf
INVARIANTS NewestWinsUnlessRaced EntitlementFollowsBilling
PROPERTIES EffectOnce TenantIsolation
