\* Two sessions, two requests at a time, grace of one, lifetime of two.
SPECIFICATION Spec
CONSTANTS
    s1 = s1
    s2 = s2
    r1 = r1
    r2 = r2
    None = None
    Sids = {s1, s2}
    Requests = {r1, r2}
    Grace = 1
    Lifetime = 2
    MaxTime = 3
    MaxStarts = 5
INVARIANTS TypeOK NeverAccused KeepsSession LiveSinceChange
PROPERTY RevokedIsFinal
SYMMETRY Symmetric
CHECK_DEADLOCK FALSE
