SPECIFICATION PromptSpec
CONSTANTS
    Replicas = {w1, w2}
    Interval = 5
    Fraction = 5
    MaxRun = 7
    None = None
    Orphan = Orphan
INVARIANTS StartsApart Overlap
PROPERTIES StartsAgain
