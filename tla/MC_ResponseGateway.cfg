\* Two requests at a time, five in all, for one action of a few kinds; actions of every kind up to
\* their creation.
SPECIFICATION FairSpec
CONSTANTS
    r1 = r1
    r2 = r2
    None = None
    Actions = {"act"}
    Requests = {r1, r2}
    RolesOf <- McRoles
    Wanted <- EveryWanted
    Followed <- McWanted
    Policy <- ResponsePolicy
    MaxStarts = 5
    Crashes = TRUE
INVARIANTS DecidesAsRego TrailInOrder OneCallAtATime NoHalfWay
PROPERTIES KeepsContract RequestsEnd
CHECK_DEADLOCK FALSE
