SPECIFICATION Spec
CONSTANTS
    Users = {u1}
    Tokens = {t1, t2, t3}
    Families = {f1, f2}
    Passwords = {p1}
    Requests = {r1, r2}
    BatchSize = 1
    None = None
SYMMETRY Symmetry
INVARIANTS BurnedFamilyIsDead
