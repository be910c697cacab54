--------------------------- MODULE DetectionRules ---------------------------
(***************************************************************************)
(* The lifecycle of a detection rule: routers/detections.py (create, PATCH)*)
(* and the distribution of a provider's rule to a customer, routers/mssp.py*)
(* (deploy_content).  One rule of the provider's library and the rows with *)
(* the same key in one customer tenant.                                    *)
(*                                                                         *)
(* A handler decides on the row it has loaded and commits later, behind    *)
(* the audit lock; the UPDATE carries the columns it changed and leaves    *)
(* the others as they are by then.                                         *)
(***************************************************************************)
EXTENDS Naturals, FiniteSets

CONSTANTS
    Staff,        \* provider staff, who work on the library
    Clients,      \* users of the customer tenant
    Approvers,    \* users with detection:approve
    Creator,      \* the author of the library rule
    Slots,        \* rows the customer tenant may have under the key
    Requests,     \* slots for concurrent requests
    Payloads,     \* bodies of PATCH, see IsPayload
    MaxStarts,    \* bound on the number of requests in a behaviour
    None

Users == Staff \cup Clients
Statuses == {"draft", "review", "approved", "deployed", "disabled"}

\* The logic columns: matcher, and sigma for the other five.  Each is a column
\* of its own in an UPDATE.
Columns == {"matcher", "sigma"}
Logic(row) == [c \in Columns |-> row[c]]

\* Which fields a body has: a logic field, and the logic columns to which it
\* gives a new value; exceptions, a status, enabled.
IsPayload(p) ==
    /\ p.logic \in BOOLEAN /\ p.new \subseteq Columns /\ (p.new # {} => p.logic)
    /\ p.exceptions \in BOOLEAN
    /\ p.status \in Statuses \cup {"absent"}
    /\ p.enabled \in {"absent", "yes", "no"}

ASSUME RuleAssumption ==
    /\ Creator \in Staff /\ Approvers \subseteq Users
    /\ \A p \in Payloads : IsPayload(p)
    /\ "library" \notin Slots /\ None \notin Users /\ MaxStarts \in Nat

VARIABLES
    rules,        \* rules[r]: the committed row, or NoRule
    req,          \* req[q]: the request q is serving
    started,      \* requests so far: also the source of new logic and exceptions
    approved,     \* logic that an approval was given for
    published,    \* logic the library has held as approved or deployed
    mixed         \* copies written on other logic than the writer had loaded

vars == <<rules, req, started, approved, published, mixed>>

Rows == {"library"} \cup Slots
NoRule == [target |-> "none"]
Idle == [kind |-> "idle"]

NewRule(author, target) ==
    [target |-> target, matcher |-> 0, sigma |-> 0, exceptions |-> 0, status |-> "draft",
     enabled |-> FALSE, author |-> author, approvedBy |-> None]

Held == {s \in Slots : rules[s] # NoRule}
Managed(row) == row.target = "managed"

-----------------------------------------------------------------------------
(* PATCH /detections/{id}                                                  *)

\* Mutant of Accepts: a managed rule's logic may be patched as well.
AcceptsManagedLogic(u, row, p) ==
    /\ p.status \in {"approved", "deployed"} => u \in Approvers
    /\ p.status = "approved" /\ row.author = u => Managed(row)
    /\ p.status = "deployed" => row.status \in {"approved", "deployed"}

\* Mutant of Accepts: authors may approve their own rules.
AcceptsAuthor(u, row, p) ==
    /\ p.logic => ~Managed(row)
    /\ p.status \in {"approved", "deployed"} => u \in Approvers
    /\ p.status = "deployed" => row.status \in {"approved", "deployed"}

\* The checks before anything is assigned.
Accepts(u, row, p) ==
    /\ p.logic => ~Managed(row)
    /\ p.status \in {"approved", "deployed"} => u \in Approvers
    /\ p.status = "approved" /\ row.author = u => Managed(row)
    /\ p.status = "deployed" => row.status \in {"approved", "deployed"}

\* Approved logic that changes goes back to review, and so it does when the
\* body repeats the values there are.
WithLogic(row, p, new) ==
    LET set == [row EXCEPT !.matcher = IF "matcher" \in p.new THEN new ELSE @,
                           !.sigma = IF "sigma" \in p.new THEN new ELSE @]
    IN  IF p.logic /\ row.status \in {"approved", "deployed"}
        THEN [set EXCEPT !.status = "review", !.enabled = FALSE, !.approvedBy = None]
        ELSE set

\* The status asked for is assigned, whatever the logic change has set.
WithStatus(u, row, p) ==
    IF p.status = "absent" THEN row
    ELSE [row EXCEPT !.status = p.status,
                     !.approvedBy = IF p.status = "approved" THEN u ELSE @,
                     !.enabled = p.status = "deployed" \/ (@ /\ p.status = "approved")]

\* Only deployed rules can be enabled.
MayEnable(row, p) == p.enabled = "yes" => row.status = "deployed"

WithEnabled(row, p) ==
    IF p.enabled = "absent" THEN row ELSE [row EXCEPT !.enabled = (p.enabled = "yes")]

WithExceptions(row, p, new) ==
    IF p.exceptions THEN [row EXCEPT !.exceptions = new] ELSE row

Patched(u, row, p, new) ==
    WithStatus(u, WithLogic(WithExceptions(row, p, new), p, new), p)

\* The handler loads the row, checks and assigns.
LoadPatch(q, u, r, p) ==
    LET new == started + 1
        row == rules[r]
        next == Patched(u, row, p, new)
    IN  /\ req[q] = Idle /\ started < MaxStarts /\ row # NoRule
        /\ (r = "library") = (u \in Staff)
        /\ Accepts(u, row, p) /\ MayEnable(next, p)
        /\ req' = [req EXCEPT ![q] = [kind |-> "patch", user |-> u, row |-> r, seen |-> row,
                                      next |-> WithEnabled(next, p),
                                      approves |-> p.status = "approved"]]
        /\ started' = new
        /\ UNCHANGED <<rules, approved, published, mixed>>

\* POST /detections with the library rule's key.
LoadCreate(q, u) ==
    /\ req[q] = Idle /\ started < MaxStarts
    /\ u \in Clients /\ Held = {}
    /\ req' = [req EXCEPT ![q] = [kind |-> "create", user |-> u, row |-> "none", seen |-> NoRule,
                                  next |-> [NewRule(u, "internal") EXCEPT
                                               !.matcher = started + 1, !.sigma = started + 1],
                                  approves |-> FALSE]]
    /\ started' = started + 1
    /\ UNCHANGED <<rules, approved, published, mixed>>

-----------------------------------------------------------------------------
(* POST /mssp/content/detections/{id}/deploy                               *)

\* The managed copy of src, which keeps what the customer has tuned.
CopyOf(src, u, old) ==
    [target |-> "managed", matcher |-> src.matcher, sigma |-> src.sigma,
     exceptions |-> IF old = NoRule THEN 0 ELSE old.exceptions,
     status |-> "deployed", enabled |-> TRUE, author |-> src.author,
     approvedBy |-> IF src.approvedBy = None THEN u ELSE src.approvedBy]

MayDistribute(src) == src.status \in {"approved", "deployed"}

\* A customer's own rule with the key is skipped.
MayReplace(row) == row = NoRule \/ Managed(row)

\* The source row and then the customer's row are read.  Two rows with the
\* key make the lookup raise.
LoadSource(q, u) ==
    /\ req[q] = Idle /\ started < MaxStarts
    /\ u \in Staff /\ MayDistribute(rules["library"])
    /\ req' = [req EXCEPT ![q] = [kind |-> "source", user |-> u, src |-> rules["library"]]]
    /\ started' = started + 1
    /\ UNCHANGED <<rules, approved, published, mixed>>

LoadTarget(q) ==
    /\ req[q].kind = "source"
    /\ LET s   == IF Held = {} THEN "none" ELSE CHOOSE s \in Held : TRUE
           old == IF Held = {} THEN NoRule ELSE rules[s]
       IN  req' = [req EXCEPT ![q] =
                     IF Cardinality(Held) <= 1 /\ MayReplace(old)
                     THEN [kind |-> "deploy", user |-> req[q].user, row |-> s, seen |-> old,
                           next |-> CopyOf(req[q].src, req[q].user, old), approves |-> FALSE]
                     ELSE Idle]
    /\ UNCHANGED <<rules, started, approved, published, mixed>>

-----------------------------------------------------------------------------
\* Mutant of Changed: the UPDATE carries the whole row as it was loaded.
ChangedAll(now, seen, next) == next

\* The UPDATE: the columns that differ from what was loaded.
Changed(now, seen, next) ==
    [f \in DOMAIN now |-> IF next[f] # seen[f] THEN next[f] ELSE now[f]]

Insert(q) ==
    /\ req[q] # Idle /\ req[q].kind \in {"create", "deploy"} /\ req[q].row = "none"
    /\ \E s \in Slots \ Held : rules' = [rules EXCEPT ![s] = req[q].next]
    /\ req' = [req EXCEPT ![q] = Idle]
    /\ UNCHANGED <<started, approved, published, mixed>>

Update(q) ==
    /\ req[q] # Idle /\ req[q].kind \in {"patch", "deploy"} /\ req[q].row # "none"
    /\ LET r   == req[q].row
           row == Changed(rules[r], req[q].seen, req[q].next)
       IN  /\ rules' = [rules EXCEPT ![r] = row]
           /\ published' = IF r = "library" /\ MayDistribute(row)
                           THEN published \cup {Logic(row)} ELSE published
           /\ mixed' = IF req[q].kind = "patch" THEN mixed
                       ELSE IF Logic(rules[r]) # Logic(req[q].seen) THEN mixed \cup {r}
                       ELSE mixed \ {r}
    /\ approved' = IF req[q].approves THEN approved \cup {Logic(req[q].next)} ELSE approved
    /\ req' = [req EXCEPT ![q] = Idle]
    /\ UNCHANGED started

-----------------------------------------------------------------------------
\* The author's draft, which nobody has yet.
Drafted ==
    /\ rules = [r \in Rows |-> IF r = "library" THEN NewRule(Creator, "internal") ELSE NoRule]
    /\ approved = {} /\ published = {}

\* Later on: u has approved it and given it to the customer.
Distributed(u, s) ==
    LET rule == [NewRule(Creator, "internal") EXCEPT !.status = "approved", !.approvedBy = u]
    IN  /\ rules = [r \in Rows |-> IF r = "library" THEN rule
                                   ELSE IF r = s THEN CopyOf(rule, u, NoRule) ELSE NoRule]
        /\ approved = {Logic(rule)} /\ published = {Logic(rule)}

Init ==
    /\ \/ Drafted
       \/ \E u \in (Approvers \cap Staff) \ {Creator}, s \in Slots : Distributed(u, s)
    /\ req = [q \in Requests |-> Idle]
    /\ started = 0 /\ mixed = {}

Next ==
    \E q \in Requests :
        \/ \E u \in Users, r \in Rows, p \in Payloads : LoadPatch(q, u, r, p)
        \/ \E u \in Users : LoadCreate(q, u) \/ LoadSource(q, u)
        \/ LoadTarget(q) \/ Insert(q) \/ Update(q)

Spec == Init /\ [][Next]_vars

-----------------------------------------------------------------------------
IsRule(row) ==
    /\ row.target \in {"internal", "managed"}
    /\ row.matcher \in 0..MaxStarts /\ row.sigma \in 0..MaxStarts
    /\ row.exceptions \in 0..MaxStarts
    /\ row.status \in Statuses /\ row.enabled \in BOOLEAN
    /\ row.author \in Users /\ row.approvedBy \in Users \cup {None}

\* Type invariant.  A row that is inserted is complete.
TypeOK ==
    /\ \A r \in Rows : rules[r] = NoRule \/ IsRule(rules[r])
    /\ rules["library"] # NoRule
    /\ \A q \in Requests :
          req[q].kind \in {"idle", "patch", "create", "source", "deploy"}
    /\ started \in 0..MaxStarts
    /\ approved \cup published \subseteq [Columns -> 0..MaxStarts]
    /\ mixed \subseteq Slots

\* The pipeline evaluates a rule that is enabled and deployed.
Live(row) == row # NoRule /\ row.enabled /\ row.status = "deployed"

\* What a customer's managed copy runs comes from the provider's library: each
\* of its logic columns was part of logic the library held as approved or
\* deployed, and they are together one such logic unless the deployment that
\* wrote it last met another logic than it had loaded (detections.py 106,
\* mssp.py 583).  The customer's changes and edits of the source do not mix
\* a copy.
CopiesWerePublished ==
    \A s \in Held :
        Managed(rules[s]) =>
            /\ \A c \in Columns : \E logic \in published : rules[s][c] = logic[c]
            /\ s \notin mixed => Logic(rules[s]) \in published

\* A rule that has not come from the provider is never approved by the user
\* who created it (detections.py 120): approvals and edits that overlap do
\* not get round that.
CreatorNeverApproves ==
    \A r \in Rows :
        /\ rules[r] # NoRule /\ ~Managed(rules[r])
        => rules[r].approvedBy # rules[r].author

\* PLATFORM_GUIDE 7: "A customer's own exceptions survive redeploys.
\* Customer-owned rules are never overwritten."
CustomerKeepsOwn ==
    [][\A q \in Requests, s \in Slots :
          /\ rules[s] # NoRule
          /\ req[q] # Idle /\ req[q].kind = "deploy" /\ req'[q] = Idle
          => /\ rules'[s].exceptions = rules[s].exceptions
             /\ ~Managed(rules[s]) => rules'[s] = rules[s]]_vars

\* Not kept by the code, as TLC shows in the instance of MC_DetectionRules.cfg:
\* detections.py 128: "Approved logic changed: back to review, re-approval
\* required."  What the pipeline runs from the library has been approved.
LiveWasApproved == Live(rules["library"]) => Logic(rules["library"]) \in approved

\* Not kept by the code, as TLC shows in the same instance: mssp.py 572-574:
\* "Only approved or deployed rules can be distributed; customers receive a
\* managed copy ... that is re-synced on redeploy."  A copy is one version of
\* the library's rule: two overlapping deployments leave columns of both.
CopiesAreWhole == \A s \in Held : Managed(rules[s]) => Logic(rules[s]) \in published
=============================================================================
