SPECIFICATION FairSpec
CONSTANTS
    Mails = {m1, m2}
    Runs = {r1, r2}
    Timeout = 1
    Interval = 2
    MinLease = 1
    Grace = 1
    BatchSize = 1
    MaxAttempts = 2
    BaseBackoff = 1
    MaxBackoff = 2
    MaxBackoffShift = 1
    None = None
INVARIANTS OneHolder NoSilentLoss
PROPERTIES EveryMailSettles
