\* Two requests at a time, four in all, from the
\* author's draft or from a rule that the customer has a copy of.
SPECIFICATION Spec
CONSTANTS
    eng = eng
    mgr = mgr
    cust = cust
    None = None
    c1 = c1
    c2 = c2
    q1 = q1
    q2 = q2
    Staff = {eng, mgr}
    Clients = {cust}
    Approvers = {eng, mgr, cust}
    Creator = eng
    Slots = {c1, c2}
    Requests = {q1, q2}
    Payloads <- McPayloads
    MaxStarts = 4
SYMMETRY Symmetry
INVARIANTS CopiesWerePublished CreatorNeverApproves
PROPERTY CustomerKeepsOwn
CHECK_DEADLOCK FALSE
