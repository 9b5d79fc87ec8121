SPECIFICATION Spec
CONSTANTS
    Users = {u1}
    Access = {a1, a2}
    Requests = {r1, r2}
    AccessTTL = 3
    ImpTTL = 2
    BlacklistTTL = 3
    None = None
SYMMETRY Symmetry
INVARIANTS LoggedOutTokenRefused BanBound
PROPERTIES SealedUntilUnban
