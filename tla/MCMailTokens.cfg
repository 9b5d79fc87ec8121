SPECIFICATION Spec
CONSTANTS
    People = {"u1"}
    Tokens = {"t1", "t2"}
    Requests = {"r1", "r2"}
    NoOne = NoOne
    TTL <- MCTTL
    Cooldown <- MCCooldown
    MaxFailures = 2
PROPERTIES OneTime VerifiedInTheEnd
