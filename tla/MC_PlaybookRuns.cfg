\* Two runs of a playbook with two graphs, two requests at a time.
SPECIFICATION Spec
CONSTANTS
    r1 = r1
    r2 = r2
    x1 = x1
    x2 = x2
    None = None
    Runs = {x1, x2}
    Requests = {r1, r2}
    Graphs = {"gated", "plain"}
    StepsOf <- McSteps
    Roles <- McRoles
    Keys = {"k"}
    MaxStarts = 5
INVARIANTS GateHolds PinnedGraph NeverStranded
PROPERTY CompletedMeansAll
SYMMETRY Symmetric
CHECK_DEADLOCK FALSE
