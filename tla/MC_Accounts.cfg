SPECIFICATION Spec
CONSTANTS
    r1 = r1
    r2 = r2
    None = None
    Sids = {1, 2}
    Requests = {r1, r2}
    MaxFailures = 2
    LockFor = 1
    ChallengeTtl = 2
    CodesPerSet = 1
    Drift = 1
    MaxTime = 2
    MaxStarts = 6
SYMMETRY Slots
INVARIANTS FactorWhole GuessesBounded OneTimeCodes
CHECK_DEADLOCK FALSE
