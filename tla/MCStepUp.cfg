SPECIFICATION FairStepUp
CONSTANTS
    Submissions = {r1, r2}
    MaxAttempts = 1
    CodeCount = 2
    MaxEnrol = 2
    MaxConfirm = 2
INVARIANTS AttemptsBounded SequentialStepUp
PROPERTIES LockoutEnds
