------------------------ MODULE RulesAndEventsProofs ------------------------
(***************************************************************************)
(* Theorems about DetectionRules, for any users, rows, bodies and          *)
(* requests, and, in the second half, about LiveEvents, for any replicas,  *)
(* streams, threads and sizes of queues.  The two components share no      *)
(* state and no name.                                                      *)
(***************************************************************************)
EXTENDS DetectionRules, LiveEvents, SequenceTheorems, TLAPS

USE RuleAssumption

Row ==
    [target : {"internal", "managed"}, matcher : 0 .. MaxStarts, sigma : 0 .. MaxStarts,
     exceptions : 0 .. MaxStarts, status : Statuses, enabled : BOOLEAN, author : Users, approvedBy : Users \cup {None}]

-----------------------------------------------------------------------------
(* Rows.                                                                   *)

LEMMA NoRuleIsNoRow == NoRule \notin Row
BY DEF NoRule, Row

\* The logic of a row is its two logic columns.
LEMMA LogicOf ==
    ASSUME NEW row
    PROVE  Logic(row).matcher = row.matcher /\ Logic(row).sigma = row.sigma
BY DEF Logic, Columns

LEMMA LogicIsColumns ==
    ASSUME NEW row
    PROVE  \A c \in Columns : row[c] = Logic(row)[c]
BY DEF Logic

LEMMA LogicSame ==
    ASSUME NEW a, NEW b, a.matcher = b.matcher, a.sigma = b.sigma
    PROVE  Logic(a) = Logic(b)
<1>1. \A c \in Columns : a[c] = b[c]
  BY DEF Columns
<1> QED
  BY <1>1 DEF Logic

LEMMA LogicType ==
    ASSUME NEW row \in Row
    PROVE  Logic(row) \in [Columns -> 0 .. MaxStarts]
<1>1. \A c \in Columns : row[c] \in 0 .. MaxStarts
  BY DEF Row, Columns
<1> QED
  BY <1>1 DEF Logic

LEMMA NewRuleType ==
    ASSUME NEW u \in Users, NEW target \in {"internal", "managed"}
    PROVE  NewRule(u, target) \in Row
BY DEF NewRule, Row, Statuses

\* The UPDATE takes each column from what was committed or from the request.
LEMMA ChangedRow ==
    ASSUME NEW now \in Row, NEW seen \in Row, NEW next \in Row
    PROVE  /\ Changed(now, seen, next) \in Row
           /\ \A f \in {"target", "matcher", "sigma", "exceptions", "status", "enabled", "author", "approvedBy"} :
                 Changed(now, seen, next)[f] = IF next[f] # seen[f] THEN next[f] ELSE now[f]
<1> DEFINE row == Changed(now, seen, next)
<1>1. DOMAIN now = {"target", "matcher", "sigma", "exceptions", "status", "enabled", "author", "approvedBy"}
  BY DEF Row
<1>2. \A f \in {"target", "matcher", "sigma", "exceptions", "status", "enabled", "author", "approvedBy"} :
         row[f] = IF next[f] # seen[f] THEN next[f] ELSE now[f]
  BY <1>1 DEF Changed
<1>3. row = [target |-> row.target, matcher |-> row.matcher, sigma |-> row.sigma,
             exceptions |-> row.exceptions, status |-> row.status, enabled |-> row.enabled, author |-> row.author,
             approvedBy |-> row.approvedBy]
  BY <1>1 DEF Changed
<1> HIDE DEF row
<1>4. /\ row.target \in {"internal", "managed"} /\ row.matcher \in 0 .. MaxStarts
      /\ row.sigma \in 0 .. MaxStarts /\ row.exceptions \in 0 .. MaxStarts /\ row.status \in Statuses
  BY <1>2 DEF Row
<1>5. row.enabled \in BOOLEAN /\ row.author \in Users /\ row.approvedBy \in Users \cup {None}
  BY <1>2 DEF Row
<1>6. row \in Row
  BY <1>3, <1>4, <1>5 DEF Row
<1> QED
  BY <1>2, <1>6 DEF row

\* What a PATCH that is accepted makes of a row.
LEMMA PatchedRow ==
    ASSUME NEW u \in Users, NEW row \in Row, NEW p \in Payloads, NEW new \in 0 .. MaxStarts,
           Accepts(u, row, p), NEW next, next = WithEnabled(Patched(u, row, p, new), p)
    PROVE  /\ next \in Row
           /\ next.target = row.target /\ next.author = row.author
           /\ Managed(row) => next.matcher = row.matcher /\ next.sigma = row.sigma
           /\ ~Managed(row) => next.approvedBy = row.approvedBy \/ next.approvedBy # row.author
<1>0. IsPayload(p)
  OBVIOUS
<1> DEFINE a == WithExceptions(row, p, new)
           b == WithLogic(a, p, new)
           c == WithStatus(u, b, p)
<1>1. /\ a \in Row /\ a.target = row.target /\ a.author = row.author
      /\ a.matcher = row.matcher /\ a.sigma = row.sigma /\ a.approvedBy = row.approvedBy
  BY <1>0 DEF WithExceptions, Row, IsPayload
<1> HIDE DEF a
<1>2. /\ b \in Row /\ b.target = a.target /\ b.author = a.author
      /\ ~p.logic => b.matcher = a.matcher /\ b.sigma = a.sigma
      /\ b.approvedBy = a.approvedBy \/ b.approvedBy = None
  <2> DEFINE m == IF "matcher" \in p.new THEN new ELSE a.matcher
             g == IF "sigma" \in p.new THEN new ELSE a.sigma
             set == [a EXCEPT !.matcher = m, !.sigma = g]
  <2>1. m \in 0 .. MaxStarts /\ g \in 0 .. MaxStarts
    BY <1>1 DEF Row
  <2>2. ~p.logic => m = a.matcher /\ g = a.sigma
    BY <1>0 DEF IsPayload
  <2>3. b = IF p.logic /\ a.status \in {"approved", "deployed"}
            THEN [set EXCEPT !.status = "review", !.enabled = FALSE, !.approvedBy = None]
            ELSE set
    BY <1>1 DEF WithLogic, Row
  <2> HIDE DEF m, g, b
  <2>4. /\ set \in Row /\ set.target = a.target /\ set.author = a.author
        /\ set.matcher = m /\ set.sigma = g /\ set.approvedBy = a.approvedBy
    BY <1>1, <2>1 DEF Row
  <2> HIDE DEF set
  <2>5. CASE p.logic /\ a.status \in {"approved", "deployed"}
    BY <2>3, <2>4, <2>5 DEF Row, Statuses
  <2>6. CASE ~(p.logic /\ a.status \in {"approved", "deployed"})
    BY <2>2, <2>3, <2>4, <2>6
  <2> QED
    BY <2>5, <2>6
<1> HIDE DEF b
<1>3. /\ c \in Row /\ c.target = b.target /\ c.author = b.author
      /\ c.matcher = b.matcher /\ c.sigma = b.sigma
      /\ c.approvedBy = b.approvedBy \/ (p.status = "approved" /\ c.approvedBy = u)
  <2>1. CASE p.status = "absent"
    BY <1>2, <2>1 DEF WithStatus
  <2>2. CASE p.status # "absent"
    <3> DEFINE by == IF p.status = "approved" THEN u ELSE b.approvedBy
               on == p.status = "deployed" \/ (b.enabled /\ p.status = "approved")
    <3>1. p.status \in Statuses /\ by \in Users \cup {None} /\ on \in BOOLEAN
      BY <1>0, <1>2, <2>2 DEF IsPayload, Row
    <3>2. c = [b EXCEPT !.status = p.status, !.approvedBy = by, !.enabled = on]
      BY <2>2 DEF WithStatus
    <3> HIDE DEF c, on
    <3>3. c \in Row /\ c.target = b.target /\ c.author = b.author
          /\ c.matcher = b.matcher /\ c.sigma = b.sigma /\ c.approvedBy = by
      BY <1>2, <3>1, <3>2 DEF Row
    <3> QED
      BY <3>3
  <2> QED
    BY <2>1, <2>2
<1>4. next = WithEnabled(c, p)
  BY DEF Patched, a, b
<1> HIDE DEF c
<1>5. /\ next \in Row /\ next.target = c.target /\ next.author = c.author
      /\ next.matcher = c.matcher /\ next.sigma = c.sigma
      /\ next.approvedBy = c.approvedBy
  <2>1. CASE p.enabled = "absent"
    BY <1>3, <1>4, <2>1 DEF WithEnabled
  <2>2. CASE p.enabled = "yes"
    <3>1. next = [c EXCEPT !.enabled = TRUE]
      BY <1>4, <2>2 DEF WithEnabled
    <3> QED
      BY <1>3, <3>1 DEF Row
  <2>3. CASE p.enabled = "no"
    <3>1. next = [c EXCEPT !.enabled = FALSE]
      BY <1>4, <2>3 DEF WithEnabled
    <3> QED
      BY <1>3, <3>1 DEF Row
  <2> QED
    BY <1>0, <2>1, <2>2, <2>3 DEF IsPayload
<1>6. next.target = row.target /\ next.author = row.author
  BY <1>1, <1>2, <1>3, <1>5
<1>7. Managed(row) => next.matcher = row.matcher /\ next.sigma = row.sigma
  BY <1>1, <1>2, <1>3, <1>5 DEF Accepts
<1>8. ASSUME ~Managed(row)
      PROVE  next.approvedBy = row.approvedBy \/ next.approvedBy # row.author
  <2>1. next.approvedBy \in {row.approvedBy, None} \/ (p.status = "approved" /\ next.approvedBy = u)
    BY <1>1, <1>2, <1>3, <1>5
  <2>2. None # row.author
    BY DEF Row
  <2>3. p.status = "approved" => row.author # u
    BY <1>8 DEF Accepts
  <2> QED
    BY <2>1, <2>2, <2>3
<1> QED
  BY <1>5, <1>6, <1>7, <1>8

\* A copy is managed, runs the source's logic and keeps what was tuned.
LEMMA CopyRow ==
    ASSUME NEW src \in Row, NEW u \in Users, NEW old \in Row \cup {NoRule}
    PROVE  /\ CopyOf(src, u, old) \in Row /\ Managed(CopyOf(src, u, old))
           /\ CopyOf(src, u, old).matcher = src.matcher /\ CopyOf(src, u, old).sigma = src.sigma
           /\ old \in Row => CopyOf(src, u, old).exceptions = old.exceptions
BY NoRuleIsNoRow DEF CopyOf, Row, Managed, Statuses

-----------------------------------------------------------------------------
(* The invariant: the rows, and what each request has in hand.             *)

\* What CopiesWerePublished says of a copy.
Provided(s) ==
    /\ \A c \in Columns : \E logic \in published : rules[s][c] = logic[c]
    /\ s \notin mixed => Logic(rules[s]) \in published

RowInv ==
    /\ rules \in [Rows -> Row \cup {NoRule}] /\ rules["library"] # NoRule
    /\ \A r \in Rows : rules[r] # NoRule /\ ~Managed(rules[r]) =>
                           rules[r].approvedBy # rules[r].author
    /\ \A s \in Slots : rules[s] # NoRule /\ Managed(rules[s]) => Provided(s)
    /\ MayDistribute(rules["library"]) => Logic(rules["library"]) \in published

\* A PATCH keeps whose row it is, the logic of a managed one, and does not
\* make an author the approver.
PatchInHand(x) ==
    /\ x.row \in Rows /\ rules[x.row] # NoRule
    /\ x.seen \in Row /\ x.next \in Row /\ x.approves \in BOOLEAN
    /\ x.next.target = x.seen.target /\ x.next.author = x.seen.author
    /\ x.seen.target = rules[x.row].target
    /\ Managed(x.seen) => x.next.matcher = x.seen.matcher /\ x.next.sigma = x.seen.sigma
    /\ ~Managed(x.seen) => /\ x.seen.author = rules[x.row].author
                           /\ x.next.approvedBy # x.seen.approvedBy =>
                                 x.next.approvedBy # x.seen.author

CreateInHand(x) ==
    /\ x.next \in Row /\ ~Managed(x.next) /\ x.next.approvedBy # x.next.author
    /\ x.row = "none"

SourceInHand(x) == x.user \in Users /\ x.src \in Row /\ Logic(x.src) \in published

\* A deployment brings logic that was published, over a managed row or none.
DeployInHand(x) ==
    /\ x.next \in Row /\ Managed(x.next) /\ Logic(x.next) \in published /\ x.approves = FALSE
    /\ x.row # "none" =>
          /\ x.row \in Slots /\ rules[x.row] # NoRule /\ Managed(rules[x.row])
          /\ x.seen \in Row /\ Managed(x.seen) /\ x.next.exceptions = x.seen.exceptions

InHand(q) ==
    \/ req[q] = Idle
    \/ req[q].kind = "patch" /\ PatchInHand(req[q])
    \/ req[q].kind = "create" /\ CreateInHand(req[q])
    \/ req[q].kind = "source" /\ SourceInHand(req[q])
    \/ req[q].kind = "deploy" /\ DeployInHand(req[q])

Inv ==
    /\ RowInv
    /\ DOMAIN req = Requests /\ \A q \in Requests : InHand(q)
    /\ started \in 0 .. MaxStarts
    /\ approved \subseteq [Columns -> 0 .. MaxStarts]
    /\ published \subseteq [Columns -> 0 .. MaxStarts] /\ mixed \subseteq Slots

LEMMA DraftedInv == Drafted => RowInv
<1> SUFFICES ASSUME Drafted PROVE RowInv
  OBVIOUS
<1>1. NewRule(Creator, "internal") \in Row
  BY NewRuleType DEF Users
<1>2. rules \in [Rows -> Row \cup {NoRule}]
  BY <1>1 DEF Drafted
<1>3. rules["library"] = NewRule(Creator, "internal") /\ "library" \in Rows
  BY DEF Drafted, Rows
<1>4. \A r \in Rows : rules[r] # NoRule => r = "library"
  BY DEF Drafted
<1>5. /\ NewRule(Creator, "internal").approvedBy # NewRule(Creator, "internal").author
      /\ ~Managed(NewRule(Creator, "internal")) /\ ~MayDistribute(NewRule(Creator, "internal"))
  BY DEF NewRule, Managed, MayDistribute, Users
<1>6. \A s \in Slots : rules[s] = NoRule
  BY <1>4 DEF Rows
<1> QED
  BY <1>1, <1>2, <1>3, <1>4, <1>5, <1>6, NoRuleIsNoRow DEF RowInv

LEMMA DistributedInv ==
    ASSUME NEW u \in (Approvers \cap Staff) \ {Creator}, NEW s \in Slots, Distributed(u, s)
    PROVE  /\ RowInv
           /\ approved \subseteq [Columns -> 0 .. MaxStarts]
           /\ published \subseteq [Columns -> 0 .. MaxStarts]
<1> DEFINE rule == [NewRule(Creator, "internal") EXCEPT !.status = "approved", !.approvedBy = u]
           copy == CopyOf(rule, u, NoRule)
<1>1. /\ rule \in Row /\ rule.approvedBy = u /\ rule.author = Creator
      /\ ~Managed(rule)
  <2>1. NewRule(Creator, "internal") \in Row
    BY NewRuleType DEF Users
  <2>2. /\ NewRule(Creator, "internal").target = "internal"
        /\ NewRule(Creator, "internal").author = Creator
    BY DEF NewRule
  <2> QED
    BY <2>1, <2>2 DEF Row, Statuses, Users, Managed
<1>2. /\ rules = [r \in Rows |-> IF r = "library" THEN rule ELSE IF r = s THEN copy ELSE NoRule]
      /\ approved = {Logic(rule)} /\ published = {Logic(rule)}
  BY DEF Distributed
<1> HIDE DEF rule
<1>3. /\ copy \in Row /\ Managed(copy) /\ copy.matcher = rule.matcher
      /\ copy.sigma = rule.sigma
  BY <1>1, CopyRow DEF Users
<1> HIDE DEF copy
<1>4. Logic(copy) = Logic(rule) /\ Logic(rule) \in [Columns -> 0 .. MaxStarts]
  BY <1>1, <1>3, LogicSame, LogicType
<1>5. rules \in [Rows -> Row \cup {NoRule}]
  BY <1>1, <1>2, <1>3
<1>6. rules["library"] = rule /\ rule # NoRule
  BY <1>1, <1>2, NoRuleIsNoRow DEF Rows
<1>7. \A r \in Rows : rules[r] # NoRule /\ ~Managed(rules[r]) =>
                           rules[r].approvedBy # rules[r].author
  BY <1>1, <1>2, <1>3
<1>8. ASSUME NEW t \in Slots, rules[t] # NoRule
      PROVE  Provided(t)
  <2>1. rules[t] = copy
    BY <1>2, <1>8 DEF Rows
  <2>2. Logic(rules[t]) \in published
    BY <1>2, <1>4, <2>1
  <2>3. \A c \in Columns : rules[t][c] = Logic(rule)[c]
    BY <1>3, <1>4, <2>1 DEF Columns, Logic
  <2> QED
    BY <1>2, <2>2, <2>3 DEF Provided
<1>9. Logic(rules["library"]) \in published
  BY <1>2, <1>6
<1> QED
  BY <1>2, <1>4, <1>5, <1>6, <1>7, <1>8, <1>9 DEF RowInv

LEMMA InvInit == Init => Inv
<1> SUFFICES ASSUME Init PROVE Inv
  OBVIOUS
<1>1. /\ RowInv
      /\ approved \subseteq [Columns -> 0 .. MaxStarts]
      /\ published \subseteq [Columns -> 0 .. MaxStarts]
  <2>1. CASE Drafted
    BY <2>1, DraftedInv DEF Drafted
  <2>2. CASE \E u \in (Approvers \cap Staff) \ {Creator}, s \in Slots : Distributed(u, s)
    BY <2>2, DistributedInv
  <2> QED
    BY <2>1, <2>2 DEF Init
<1>2. \A q \in Requests : InHand(q)
  BY DEF Init, InHand
<1> QED
  BY <1>1, <1>2 DEF Init, Inv

\* Rows stay, and stay whose they are; what was published stays so.
Kept ==
    /\ \A r \in Rows : rules[r] # NoRule =>
          /\ rules'[r] # NoRule /\ rules'[r].target = rules[r].target
          /\ ~Managed(rules[r]) => rules'[r].author = rules[r].author
    /\ published \subseteq published'

LEMMA OthersKept ==
    ASSUME Inv, Kept, NEW q \in Requests, req'[q] = req[q]
    PROVE  InHand(q)'
<1>1. InHand(q)
  BY DEF Inv
<1>2. CASE req[q] = Idle
  BY <1>2 DEF InHand
<1>3. CASE req[q].kind = "patch" /\ PatchInHand(req[q])
  <2>1. PatchInHand(req[q])'
    BY <1>3 DEF PatchInHand, Kept, Managed
  <2> QED
    BY <1>3, <2>1 DEF InHand
<1>4. CASE req[q].kind = "create" /\ CreateInHand(req[q])
  BY <1>4 DEF InHand, CreateInHand
<1>5. CASE req[q].kind = "source" /\ SourceInHand(req[q])
  BY <1>5 DEF InHand, SourceInHand, Kept
<1>6. CASE req[q].kind = "deploy" /\ DeployInHand(req[q])
  <2>1. DeployInHand(req[q])'
    BY <1>6 DEF DeployInHand, Kept, Managed, Rows
  <2> QED
    BY <1>6, <2>1 DEF InHand
<1> QED
  BY <1>1, <1>2, <1>3, <1>4, <1>5, <1>6 DEF InHand

\* A step that changes no row.
LEMMA LoadStep ==
    ASSUME Inv, UNCHANGED <<rules, approved, published, mixed>>, started' \in 0 .. MaxStarts,
           NEW q \in Requests, NEW x, req' = [req EXCEPT ![q] = x], InHand(q)'
    PROVE  Inv'
<1>1. Kept
  BY DEF Kept
<1>2. \A p \in Requests : InHand(p)'
  BY <1>1, OthersKept DEF Inv
<1>3. RowInv'
  BY DEF Inv, RowInv, Provided
<1> QED
  BY <1>2, <1>3 DEF Inv

LEMMA LoadedPatch ==
    ASSUME Inv, UNCHANGED <<rules, approved, published, mixed>>, started' \in 0 .. MaxStarts,
           NEW q \in Requests, NEW x, req' = [req EXCEPT ![q] = x],
           x.kind = "patch", PatchInHand(x)
    PROVE  Inv'
<1>1. PatchInHand(x)'
  BY DEF PatchInHand
<1>2. req'[q] = x
  BY DEF Inv
<1>3. InHand(q)'
  BY <1>1, <1>2 DEF InHand
<1> QED
  BY <1>3, LoadStep

LEMMA LoadedDeploy ==
    ASSUME Inv, UNCHANGED <<rules, approved, published, mixed>>, started' \in 0 .. MaxStarts,
           NEW q \in Requests, NEW x, req' = [req EXCEPT ![q] = x],
           x.kind = "deploy", DeployInHand(x)
    PROVE  Inv'
<1>1. DeployInHand(x)'
  BY DEF DeployInHand
<1>2. req'[q] = x
  BY DEF Inv
<1>3. InHand(q)'
  BY <1>1, <1>2 DEF InHand
<1> QED
  BY <1>3, LoadStep

LEMMA RowType ==
    ASSUME RowInv, NEW r \in Rows, rules[r] # NoRule
    PROVE  rules[r] \in Row
BY DEF RowInv

LEMMA LoadPatchStep ==
    ASSUME Inv, NEW q \in Requests, NEW u \in Users, NEW r \in Rows, NEW p \in Payloads,
           LoadPatch(q, u, r, p)
    PROVE  Inv'
<1> DEFINE next == WithEnabled(Patched(u, rules[r], p, started + 1), p)
           x == [kind |-> "patch", user |-> u, row |-> r, seen |-> rules[r], next |-> next,
                 approves |-> p.status = "approved"]
<1>1. rules[r] \in Row /\ rules[r] # NoRule
  BY RowType DEF LoadPatch, Inv
<1>2. started + 1 \in 0 .. MaxStarts /\ started' = started + 1
  BY DEF LoadPatch, Inv
<1>3. Accepts(u, rules[r], p)
  BY DEF LoadPatch
<1>4. /\ next \in Row
      /\ next.target = rules[r].target /\ next.author = rules[r].author
      /\ Managed(rules[r]) => next.matcher = rules[r].matcher /\ next.sigma = rules[r].sigma
      /\ ~Managed(rules[r]) => next.approvedBy = rules[r].approvedBy \/ next.approvedBy # rules[r].author
  BY <1>1, <1>2, <1>3, PatchedRow
<1>5. req' = [req EXCEPT ![q] = x] /\ UNCHANGED <<rules, approved, published, mixed>>
  BY DEF LoadPatch
<1> HIDE DEF next
<1>6. (p.status = "approved") \in BOOLEAN
  OBVIOUS
<1>7. PatchInHand(x)
  BY <1>1, <1>4, <1>6 DEF PatchInHand
<1>8. x.kind = "patch"
  OBVIOUS
<1> HIDE DEF x
<1> QED
  BY <1>2, <1>5, <1>7, <1>8, LoadedPatch

LEMMA LoadCreateStep ==
    ASSUME Inv, NEW q \in Requests, NEW u \in Users, LoadCreate(q, u)
    PROVE  Inv'
<1> DEFINE next == [NewRule(u, "internal") EXCEPT !.matcher = started + 1, !.sigma = started + 1]
           x == [kind |-> "create", user |-> u, row |-> "none", seen |-> NoRule,
                 next |-> next, approves |-> FALSE]
<1>1. started + 1 \in 0 .. MaxStarts /\ started' = started + 1
  BY DEF LoadCreate, Inv
<1>2. next \in Row /\ ~Managed(next) /\ next.approvedBy # next.author
  <2>1. NewRule(u, "internal") \in Row
    BY NewRuleType
  <2>2. /\ NewRule(u, "internal").target = "internal" /\ NewRule(u, "internal").author = u
        /\ NewRule(u, "internal").approvedBy = None
    BY DEF NewRule
  <2>3. /\ next \in Row /\ next.target = "internal" /\ next.author = u
        /\ next.approvedBy = None
    BY <1>1, <2>1, <2>2 DEF Row
  <2> QED
    BY <2>3 DEF Managed
<1>3. req' = [req EXCEPT ![q] = x] /\ UNCHANGED <<rules, approved, published, mixed>>
  BY DEF LoadCreate
<1> HIDE DEF next
<1>4. CreateInHand(x) /\ x.kind = "create"
  BY <1>2 DEF CreateInHand
<1> HIDE DEF x
<1>5. InHand(q)'
  BY <1>3, <1>4 DEF InHand, Inv, CreateInHand
<1> QED
  BY <1>1, <1>3, <1>5, LoadStep

LEMMA LoadSourceStep ==
    ASSUME Inv, NEW q \in Requests, NEW u \in Users, LoadSource(q, u)
    PROVE  Inv'
<1> DEFINE x == [kind |-> "source", user |-> u, src |-> rules["library"]]
<1>1. started + 1 \in 0 .. MaxStarts /\ started' = started + 1
  BY DEF LoadSource, Inv
<1>2. rules["library"] \in Row /\ Logic(rules["library"]) \in published
  BY RowType DEF LoadSource, Inv, RowInv, Rows
<1>3. req' = [req EXCEPT ![q] = x] /\ UNCHANGED <<rules, approved, published, mixed>>
  BY DEF LoadSource
<1>4. SourceInHand(x) /\ x.kind = "source"
  BY <1>2 DEF SourceInHand
<1> HIDE DEF x
<1>5. InHand(q)'
  BY <1>3, <1>4 DEF InHand, Inv, SourceInHand
<1> QED
  BY <1>1, <1>3, <1>5, LoadStep

LEMMA LoadTargetStep ==
    ASSUME Inv, NEW q \in Requests, LoadTarget(q)
    PROVE  Inv'
<1>1. req[q].kind = "source" /\ req[q] # Idle /\ SourceInHand(req[q])
  BY DEF LoadTarget, Inv, InHand, Idle
<1> DEFINE s == IF Held = {} THEN "none" ELSE CHOOSE s \in Held : TRUE
           old == IF Held = {} THEN NoRule ELSE rules[s]
           next == CopyOf(req[q].src, req[q].user, old)
           x == [kind |-> "deploy", user |-> req[q].user, row |-> s, seen |-> old,
                 next |-> next, approves |-> FALSE]
<1>2. /\ req' = [req EXCEPT ![q] = Idle] \/ (MayReplace(old) /\ req' = [req EXCEPT ![q] = x])
      /\ UNCHANGED <<rules, started, approved, published, mixed>>
  BY DEF LoadTarget
<1>3. CASE req' = [req EXCEPT ![q] = Idle]
  <2>1. InHand(q)'
    BY <1>3 DEF InHand, Inv
  <2> QED
    BY <1>2, <1>3, <2>1, LoadStep DEF Inv
<1>4. CASE MayReplace(old) /\ req' = [req EXCEPT ![q] = x]
  <2>1. Held = {} => s = "none" /\ old = NoRule
    OBVIOUS
  <2>2. Held # {} => s \in Slots /\ rules[s] # NoRule /\ old = rules[s] /\ Managed(old)
    BY <1>4 DEF Held, MayReplace
  <2>3. old \in Row \cup {NoRule} /\ (Held # {} => old \in Row)
    BY <2>1, <2>2, RowType DEF Inv, Rows
  <2> HIDE DEF s, old
  <2>4. /\ next \in Row /\ Managed(next) /\ Logic(next) = Logic(req[q].src)
        /\ old \in Row => next.exceptions = old.exceptions
    BY <1>1, <2>3, CopyRow, LogicSame DEF SourceInHand
  <2> HIDE DEF next
  <2>5. DeployInHand(x) /\ x.kind = "deploy"
    BY <1>1, <2>1, <2>2, <2>3, <2>4 DEF DeployInHand, SourceInHand
  <2> HIDE DEF x
  <2> QED
    BY <1>2, <1>4, <2>5, LoadedDeploy DEF Inv
<1> QED
  BY <1>2, <1>3, <1>4

LEMMA InsertStep ==
    ASSUME Inv, NEW q \in Requests, Insert(q)
    PROVE  Inv'
<1>1. PICK s \in Slots \ Held : rules' = [rules EXCEPT ![s] = req[q].next]
  BY DEF Insert
<1>2. req' = [req EXCEPT ![q] = Idle] /\ UNCHANGED <<started, approved, published, mixed>>
  BY DEF Insert
<1>3. s \in Rows /\ rules[s] = NoRule /\ s # "library"
  BY <1>1 DEF Held, Rows
<1> DEFINE next == req[q].next
<1>4. /\ next \in Row
      /\ ~Managed(next) => next.approvedBy # next.author
      /\ Managed(next) => Logic(next) \in published
  BY DEF Insert, Inv, InHand, CreateInHand, DeployInHand
<1>5. rules'[s] = next /\ \A r \in Rows \ {s} : rules'[r] = rules[r]
  BY <1>1, <1>3 DEF Inv, RowInv
<1> HIDE DEF next
<1>6. Kept
  BY <1>2, <1>3, <1>5 DEF Kept
<1>7. rules' \in [Rows -> Row \cup {NoRule}]
  BY <1>1, <1>4 DEF Inv, RowInv, next
<1>8. RowInv'
  <2>1. rules'["library"] = rules["library"]
    BY <1>3, <1>5 DEF Rows
  <2>2. \A r \in Rows : rules'[r] # NoRule /\ ~Managed(rules'[r]) =>
                           rules'[r].approvedBy # rules'[r].author
    BY <1>4, <1>5 DEF Inv, RowInv
  <2>3. \A t \in Slots : rules'[t] # NoRule /\ Managed(rules'[t]) => Provided(t)'
    <3>1. ASSUME NEW t \in Slots \ {s}, rules'[t] # NoRule, Managed(rules'[t])
          PROVE  Provided(t)'
      <4>1. rules'[t] = rules[t]
        BY <1>5 DEF Rows
      <4>2. Provided(t)
        BY <3>1, <4>1 DEF Inv, RowInv
      <4> QED
        BY <1>2, <4>1, <4>2 DEF Provided
    <3>2. Managed(rules'[s]) => Provided(s)'
      BY <1>2, <1>4, <1>5, LogicIsColumns DEF Provided
    <3> QED
      BY <3>1, <3>2
  <2> QED
    BY <1>2, <1>7, <2>1, <2>2, <2>3 DEF Inv, RowInv, Managed, MayDistribute
<1>9. \A p \in Requests : InHand(p)'
  <2>1. ASSUME NEW p \in Requests, p # q PROVE InHand(p)'
    BY <1>2, <1>6, <2>1, OthersKept DEF Inv
  <2>2. InHand(q)'
    BY <1>2 DEF InHand, Inv
  <2> QED
    BY <2>1, <2>2
<1> QED
  BY <1>2, <1>8, <1>9 DEF Inv

\* A deployment leaves each logic column as it is or as it was published, and
\* all of them as published if it meets the logic it had loaded.
Redeployed(q, r, row) ==
    /\ Logic(req[q].next) \in published
    /\ \A c \in Columns : row[c] = rules[r][c] \/ row[c] = Logic(req[q].next)[c]
    /\ Logic(rules[r]) = Logic(req[q].seen) => Logic(row) = Logic(req[q].next)

\* What an UPDATE makes of the row it is for.
LEMMA UpdatedRow ==
    ASSUME Inv, NEW q \in Requests, Update(q), NEW r, r = req[q].row,
           NEW row, row = Changed(rules[r], req[q].seen, req[q].next)
    PROVE  /\ r \in Rows /\ rules[r] # NoRule /\ row \in Row
           /\ row.target = rules[r].target
           /\ ~Managed(rules[r]) => /\ row.author = rules[r].author
                                    /\ row.approvedBy # row.author
                                    /\ req[q].kind = "patch"
           /\ Managed(rules[r]) /\ req[q].kind = "patch" => Logic(row) = Logic(rules[r])
           /\ req[q].kind = "patch" \/ req[q].kind = "deploy"
           /\ req[q].kind = "deploy" => Redeployed(q, r, row)
           /\ req[q].kind = "deploy" => /\ r \in Slots /\ Managed(rules[r])
                                        /\ row.exceptions = rules[r].exceptions
           /\ req[q].next \in Row /\ req[q].approves \in BOOLEAN
<1> DEFINE x == req[q]
<1>1. \/ x.kind = "patch" /\ PatchInHand(x)
      \/ x.kind = "deploy" /\ DeployInHand(x) /\ x.row # "none"
  BY DEF Update, Inv, InHand
<1>2. r \in Rows /\ rules[r] # NoRule /\ x.seen \in Row /\ x.next \in Row /\ x.approves \in BOOLEAN
  BY <1>1 DEF PatchInHand, DeployInHand, Rows
<1>3. rules[r] \in Row
  BY <1>2, RowType DEF Inv
<1>4. /\ row \in Row
      /\ \A f \in {"target", "matcher", "sigma", "exceptions", "status", "enabled", "author", "approvedBy"} :
            row[f] = IF x.next[f] # x.seen[f] THEN x.next[f] ELSE rules[r][f]
  BY <1>2, <1>3, ChangedRow
<1>5. /\ row.target = IF x.next.target # x.seen.target THEN x.next.target ELSE rules[r].target
      /\ row.matcher = IF x.next.matcher # x.seen.matcher THEN x.next.matcher ELSE rules[r].matcher
      /\ row.sigma = IF x.next.sigma # x.seen.sigma THEN x.next.sigma ELSE rules[r].sigma
      /\ row.exceptions = IF x.next.exceptions # x.seen.exceptions THEN x.next.exceptions
                          ELSE rules[r].exceptions
      /\ row.author = IF x.next.author # x.seen.author THEN x.next.author ELSE rules[r].author
      /\ row.approvedBy = IF x.next.approvedBy # x.seen.approvedBy THEN x.next.approvedBy
                          ELSE rules[r].approvedBy
  BY <1>4
<1>6. ~Managed(rules[r]) => rules[r].approvedBy # rules[r].author
  BY <1>2 DEF Inv, RowInv
<1> HIDE DEF x
<1>7. CASE x.kind = "patch" /\ PatchInHand(x)
  <2>1. row.target = rules[r].target /\ row.author = rules[r].author
    BY <1>5, <1>7 DEF PatchInHand
  <2>2. Managed(rules[r]) => Logic(row) = Logic(rules[r])
    <3>1. Managed(rules[r]) => row.matcher = rules[r].matcher /\ row.sigma = rules[r].sigma
      BY <1>5, <1>7 DEF PatchInHand, Managed, x
    <3> QED
      BY <3>1, LogicSame
  <2>3. ~Managed(rules[r]) => row.approvedBy # row.author
    BY <1>5, <1>6, <1>7, <2>1 DEF PatchInHand, Managed, x
  <2> QED
    BY <1>2, <1>4, <1>7, <2>1, <2>2, <2>3 DEF x
<1>8. CASE x.kind = "deploy" /\ DeployInHand(x) /\ x.row # "none"
  <2>1. r \in Slots /\ Managed(rules[r])
    BY <1>8 DEF DeployInHand, x
  <2>2. row.target = rules[r].target
    BY <1>5, <1>8, <2>1 DEF DeployInHand, Managed
  <2>3. Redeployed(q, r, row)
    <3>1. Logic(x.next) \in published
      BY <1>8 DEF DeployInHand
    <3>2. \A c \in Columns : row[c] = rules[r][c] \/ row[c] = Logic(x.next)[c]
      BY <1>5 DEF Columns, Logic
    <3>3. ASSUME Logic(rules[r]) = Logic(x.seen)
          PROVE  Logic(row) = Logic(x.next)
      <4>1. rules[r].matcher = x.seen.matcher /\ rules[r].sigma = x.seen.sigma
        BY <3>3, LogicOf
      <4>2. row.matcher = x.next.matcher /\ row.sigma = x.next.sigma
        BY <1>5, <4>1
      <4> QED
        BY <4>2, LogicSame
    <3> QED
      BY <3>1, <3>2, <3>3 DEF Redeployed, x
  <2>4. row.exceptions = rules[r].exceptions
    BY <1>5, <1>8 DEF DeployInHand
  <2> QED
    BY <1>2, <1>4, <1>8, <2>1, <2>2, <2>3, <2>4 DEF x
<1> QED
  BY <1>1, <1>7, <1>8 DEF x

LEMMA UpdateStep ==
    ASSUME Inv, NEW q \in Requests, Update(q)
    PROVE  Inv'
<1>1. PICK r : r = req[q].row
  OBVIOUS
<1>2. PICK row : row = Changed(rules[r], req[q].seen, req[q].next)
  OBVIOUS
<1>3. /\ r \in Rows /\ rules[r] # NoRule /\ row \in Row
      /\ row.target = rules[r].target
      /\ ~Managed(rules[r]) => row.author = rules[r].author /\ row.approvedBy # row.author
      /\ Managed(rules[r]) /\ req[q].kind = "patch" => Logic(row) = Logic(rules[r])
      /\ req[q].kind = "patch" \/ req[q].kind = "deploy"
      /\ req[q].kind = "deploy" => r \in Slots /\ Redeployed(q, r, row)
      /\ req[q].next \in Row /\ req[q].approves \in BOOLEAN
  BY <1>1, <1>2, UpdatedRow
<1>4. /\ rules' = [rules EXCEPT ![r] = row]
      /\ published' = IF r = "library" /\ MayDistribute(row) THEN published \cup {Logic(row)}
                      ELSE published
      /\ approved' = IF req[q].approves THEN approved \cup {Logic(req[q].next)} ELSE approved
      /\ mixed' = IF req[q].kind = "patch" THEN mixed
                  ELSE IF Logic(rules[r]) # Logic(req[q].seen) THEN mixed \cup {r}
                  ELSE mixed \ {r}
      /\ req' = [req EXCEPT ![q] = Idle] /\ started' = started
  BY <1>1, <1>2 DEF Update
<1>5. rules'[r] = row /\ \A t \in Rows \ {r} : rules'[t] = rules[t]
  BY <1>3, <1>4 DEF Inv, RowInv
<1>6. published \subseteq published'
  BY <1>4
<1>7. row # NoRule
  BY <1>3, NoRuleIsNoRow
<1>8. Kept
  BY <1>3, <1>5, <1>6, <1>7 DEF Kept
<1>9. /\ Logic(row) \in [Columns -> 0 .. MaxStarts]
      /\ Logic(req[q].next) \in [Columns -> 0 .. MaxStarts]
  BY <1>3, LogicType
<1>10. /\ approved' \subseteq [Columns -> 0 .. MaxStarts]
       /\ published' \subseteq [Columns -> 0 .. MaxStarts]
       /\ mixed' \subseteq Slots
  <2>1. mixed' \subseteq Slots
    BY <1>3, <1>4 DEF Inv
  <2> QED
    BY <1>4, <1>9, <2>1 DEF Inv
<1>11. RowInv'
  <2>1. rules' \in [Rows -> Row \cup {NoRule}]
    BY <1>3, <1>4 DEF Inv, RowInv
  <2>2. rules'["library"] # NoRule
    BY <1>5, <1>7 DEF Inv, RowInv, Rows
  <2>3. \A t \in Rows : rules'[t] # NoRule /\ ~Managed(rules'[t]) =>
                           rules'[t].approvedBy # rules'[t].author
    BY <1>3, <1>5 DEF Inv, RowInv, Managed
  <2>4. ASSUME NEW t \in Slots, rules'[t] # NoRule, Managed(rules'[t])
        PROVE  Provided(t)'
    <3>1. CASE t # r
      <4>1. rules'[t] = rules[t] /\ Provided(t)
        BY <1>5, <2>4, <3>1 DEF Inv, RowInv, Rows
      <4>2. t \notin mixed' => t \notin mixed
        BY <1>4, <3>1
      <4> QED
        BY <1>6, <4>1, <4>2 DEF Provided
    <3>2. CASE t = r
      <4>1. Managed(rules[t]) /\ rules'[t] = row /\ rules[t] # NoRule
        BY <1>3, <1>5, <2>4, <3>2 DEF Managed
      <4>2. Provided(t)
        BY <2>4, <4>1 DEF Inv, RowInv
      <4>3. CASE req[q].kind = "patch"
        <5>1. Logic(row) = Logic(rules[t]) /\ mixed' = mixed
          BY <1>3, <1>4, <3>2, <4>1, <4>3
        <5>2. \A c \in Columns : row[c] = rules[t][c]
          BY <5>1, LogicIsColumns
        <5> QED
          BY <1>6, <4>1, <4>2, <5>1, <5>2 DEF Provided
      <4>4. CASE req[q].kind = "deploy"
        <5>1. Redeployed(q, t, row)
          BY <1>3, <3>2, <4>4
        <5>2. \A c \in Columns : \E logic \in published' : row[c] = logic[c]
          BY <1>6, <4>2, <5>1 DEF Provided, Redeployed
        <5>3. t \notin mixed' => Logic(rules[t]) = Logic(req[q].seen)
          BY <1>4, <3>2, <4>4
        <5> QED
          BY <1>6, <4>1, <5>1, <5>2, <5>3 DEF Provided, Redeployed
      <4> QED
        BY <1>3, <4>3, <4>4
    <3> QED
      BY <3>1, <3>2
  <2>5. MayDistribute(rules'["library"]) => Logic(rules'["library"]) \in published'
    <3>1. CASE r = "library"
      BY <1>4, <1>5, <3>1
    <3>2. CASE r # "library"
      BY <1>5, <1>6, <3>2 DEF Inv, RowInv, Rows
    <3> QED
      BY <3>1, <3>2
  <2> QED
    BY <2>1, <2>2, <2>3, <2>4, <2>5 DEF RowInv, Managed, MayDistribute
<1>12. \A p \in Requests : InHand(p)'
  <2>1. ASSUME NEW p \in Requests, p # q PROVE InHand(p)'
    BY <1>4, <1>8, <2>1, OthersKept DEF Inv
  <2>2. InHand(q)'
    BY <1>4 DEF InHand, Inv
  <2> QED
    BY <2>1, <2>2
<1> QED
  BY <1>4, <1>10, <1>11, <1>12 DEF Inv

LEMMA InvStep ==
    ASSUME Inv, [Next]_vars
    PROVE  Inv'
<1>1. CASE UNCHANGED vars
  BY <1>1 DEF vars, Inv, RowInv, Provided, InHand, PatchInHand, CreateInHand, SourceInHand, DeployInHand
<1> QED
  BY <1>1, LoadPatchStep, LoadCreateStep, LoadSourceStep, LoadTargetStep, InsertStep, UpdateStep
     DEF Next
LEMMA InvAlways == Spec => []Inv
<1> QED
  BY InvInit, InvStep, PTL DEF Spec

\* A deployment commits over a managed row, whose exceptions it keeps, or
\* adds one.
LEMMA KeepsOwnStep ==
    ASSUME Inv, Next, NEW q \in Requests, NEW s \in Slots,
           rules[s] # NoRule, req[q] # Idle, req[q].kind = "deploy", req'[q] = Idle
    PROVE  /\ rules'[s].exceptions = rules[s].exceptions
           /\ ~Managed(rules[s]) => rules'[s] = rules[s]
<1>1. CASE UNCHANGED rules
  BY <1>1
<1>2. CASE \E p \in Requests : Insert(p)
  <2>1. PICK p \in Requests : Insert(p)
    BY <1>2
  <2>2. rules'[s] = rules[s]
    BY <2>1 DEF Insert, Held, Inv, RowInv, Rows
  <2> QED
    BY <2>2
<1>3. CASE \E p \in Requests : Update(p)
  <2>1. PICK p \in Requests : Update(p)
    BY <1>3
  <2>2. p = q
    BY <2>1 DEF Update, Inv
  <2>3. PICK r : r = req[q].row
    OBVIOUS
  <2>4. PICK row : row = Changed(rules[r], req[q].seen, req[q].next)
    OBVIOUS
  <2>5. rules' = [rules EXCEPT ![r] = row]
    BY <2>1, <2>2, <2>3, <2>4 DEF Update
  <2>6. r \in Rows /\ Managed(rules[r]) /\ row.exceptions = rules[r].exceptions
    BY <2>1, <2>2, <2>3, <2>4, UpdatedRow
  <2>7. rules'[r] = row /\ \A t \in Rows \ {r} : rules'[t] = rules[t]
    BY <2>5, <2>6 DEF Inv, RowInv
  <2> QED
    BY <2>6, <2>7 DEF Rows
<1>4. \/ UNCHANGED rules
      \/ \E p \in Requests : Insert(p) \/ Update(p)
  BY DEF Next, LoadPatch, LoadCreate, LoadSource, LoadTarget
<1> QED
  BY <1>1, <1>2, <1>3, <1>4

-----------------------------------------------------------------------------
(* The theorems.                                                           *)

\* Every row that a request commits is complete and has values the columns
\* allow, however requests that loaded it at different times write it.
THEOREM TypeCorrect == Spec => []TypeOK
<1>1. Inv => TypeOK
  <2> SUFFICES ASSUME Inv PROVE TypeOK
    OBVIOUS
  <2>1. \A r \in Rows : rules[r] = NoRule \/ IsRule(rules[r])
    BY DEF Inv, RowInv, Row, IsRule
  <2>2. \A q \in Requests : req[q].kind \in {"idle", "patch", "create", "source", "deploy"}
    BY DEF Inv, InHand, Idle
  <2> QED
    BY <2>1, <2>2 DEF Inv, RowInv, TypeOK
<1> QED
  BY <1>1, InvAlways, PTL

\* detections.py 120: no rule that is not the provider's copy is approved by
\* its author, whichever requests overlap.
THEOREM AuthorsNeverApprove == Spec => []CreatorNeverApproves
<1>1. Inv => CreatorNeverApproves
  BY DEF Inv, RowInv, CreatorNeverApproves
<1> QED
  BY <1>1, InvAlways, PTL

\* mssp.py 583: each logic column of a customer's managed copy comes from logic
\* that the library has held as approved or deployed, and all of them from the
\* same unless a deployment has written it over another's commit.
THEOREM OnlyPublishedIsCopied == Spec => []CopiesWerePublished
<1>1. Inv => CopiesWerePublished
  BY DEF Inv, RowInv, Provided, CopiesWerePublished, Held
<1> QED
  BY <1>1, InvAlways, PTL

\* PLATFORM_GUIDE 7: a deployment changes no customer's exceptions and no
\* rule of the customer's own.
THEOREM DeploymentsKeepOwn == Spec => CustomerKeepsOwn
<1> DEFINE Keeps ==
        \A q \in Requests, s \in Slots :
            /\ rules[s] # NoRule
            /\ req[q] # Idle /\ req[q].kind = "deploy" /\ req'[q] = Idle
            => /\ rules'[s].exceptions = rules[s].exceptions
               /\ ~Managed(rules[s]) => rules'[s] = rules[s]
<1>1. Inv /\ [Next]_vars => [Keeps]_vars
  BY KeepsOwnStep
<1> QED
  BY <1>1, InvAlways, PTL DEF Spec, CustomerKeepsOwn

HIDE RuleAssumption

-----------------------------------------------------------------------------
(* LiveEvents: sequences of events, and what it is to come before.         *)

\* x was published before y, or is y and was notified again.
Earlier(x, y, again) == x.by = y.by => x.n < y.n \/ (x = y /\ x \in again)

Ahead(A, B, again) == \A x \in A, y \in B : Earlier(x, y, again)

InOrder(q, again) == \A i, j \in 1..Len(q) : i < j => Earlier(q[i], q[j], again)

LEMMA RangeMembers ==
    ASSUME NEW S, NEW q \in Seq(S)
    PROVE  /\ \A x \in Range(q) : \E i \in 1..Len(q) : x = q[i]
           /\ \A i \in 1..Len(q) : q[i] \in Range(q)
           /\ Range(q) \subseteq S
BY DEF Range

LEMMA AppendedMembers ==
    ASSUME NEW S, NEW q \in Seq(S), NEW e \in S
    PROVE  /\ Append(q, e) \in Seq(S) /\ Len(Append(q, e)) = Len(q) + 1
           /\ Range(Append(q, e)) = Range(q) \cup {e}
<1>1. Append(q, e) \in Seq(S) /\ Len(Append(q, e)) = Len(q) + 1
  BY AppendProperties
<1>2. \A i \in 1..Len(q) : Append(q, e)[i] = q[i]
  BY AppendProperties
<1>3. Append(q, e)[Len(q) + 1] = e
  BY AppendProperties
<1>4. ASSUME NEW x \in Range(Append(q, e)) PROVE x \in Range(q) \cup {e}
  <2>1. PICK i \in 1..(Len(q) + 1) : x = Append(q, e)[i]
    BY <1>1, <1>4, RangeMembers
  <2> QED
    BY <2>1, <1>2, <1>3, RangeMembers, LenProperties
<1>5. Range(q) \subseteq Range(Append(q, e))
  <2> SUFFICES ASSUME NEW x \in Range(q) PROVE x \in Range(Append(q, e))
    OBVIOUS
  <2>1. PICK i \in 1..Len(q) : x = q[i]
    BY RangeMembers
  <2>2. i \in 1..(Len(q) + 1) /\ x = Append(q, e)[i]
    BY <2>1, <1>2, LenProperties
  <2> QED
    BY <2>2, <1>1, RangeMembers
<1>6. e \in Range(Append(q, e))
  <2>1. Len(q) + 1 \in 1..(Len(q) + 1)
    BY LenProperties
  <2>2. \A i \in 1..Len(Append(q, e)) : Append(q, e)[i] \in Range(Append(q, e))
    BY <1>1, RangeMembers
  <2> QED
    BY <2>1, <2>2, <1>1, <1>3
<1> QED
  BY <1>1, <1>4, <1>5, <1>6

LEMMA AppendedOrder ==
    ASSUME NEW S, NEW q \in Seq(S), NEW e \in S, NEW again,
           InOrder(q, again), Ahead(Range(q), {e}, again)
    PROVE  InOrder(Append(q, e), again)
<1>1. Len(Append(q, e)) = Len(q) + 1 /\ \A i \in 1..Len(q) : Append(q, e)[i] = q[i]
  BY AppendProperties
<1>2. Append(q, e)[Len(q) + 1] = e
  BY AppendProperties
<1> SUFFICES ASSUME NEW i \in 1..(Len(q) + 1), NEW j \in 1..(Len(q) + 1), i < j
             PROVE  Earlier(Append(q, e)[i], Append(q, e)[j], again)
  BY <1>1 DEF InOrder
<1>3. Len(q) \in Nat /\ i \in 1..Len(q)
  BY LenProperties
<1>4. CASE j = Len(q) + 1
  BY <1>1, <1>2, <1>3, <1>4, RangeMembers DEF Ahead
<1>5. CASE j # Len(q) + 1
  <2>1. j \in 1..Len(q)
    BY <1>3, <1>5
  <2> QED
    BY <2>1, <1>1, <1>3 DEF InOrder
<1> QED
  BY <1>4, <1>5

LEMMA TakenMembers ==
    ASSUME NEW S, NEW q \in Seq(S), q # <<>>
    PROVE  /\ Head(q) \in Range(q) /\ Head(q) \in S
           /\ Tail(q) \in Seq(S) /\ Len(Tail(q)) = Len(q) - 1 /\ Len(q) \in Nat \ {0}
           /\ Range(Tail(q)) \subseteq Range(q)
<1>1. Len(q) \in Nat \ {0} /\ Head(q) = q[1]
  BY EmptySeq
<1>2. Tail(q) \in Seq(S) /\ Len(Tail(q)) = Len(q) - 1 /\ \A i \in 1..Len(Tail(q)) : Tail(q)[i] = q[i + 1]
  BY HeadTailProperties
<1>3. Head(q) \in Range(q) /\ Head(q) \in S
  BY <1>1, RangeMembers
<1>4. ASSUME NEW x \in Range(Tail(q)) PROVE x \in Range(q)
  <2>1. PICK i \in 1..Len(Tail(q)) : x = Tail(q)[i]
    BY <1>2, RangeMembers
  <2>2. i + 1 \in 1..Len(q) /\ x = q[i + 1]
    BY <2>1, <1>1, <1>2
  <2> QED
    BY <2>2, RangeMembers
<1> QED
  BY <1>1, <1>2, <1>3, <1>4

LEMMA TakenOrder ==
    ASSUME NEW S, NEW q \in Seq(S), q # <<>>, NEW again, InOrder(q, again)
    PROVE  InOrder(Tail(q), again) /\ Ahead({Head(q)}, Range(Tail(q)), again)
<1>1. Len(q) \in Nat \ {0} /\ Head(q) = q[1]
  BY EmptySeq
<1>2. Tail(q) \in Seq(S) /\ Len(Tail(q)) = Len(q) - 1 /\ \A i \in 1..Len(Tail(q)) : Tail(q)[i] = q[i + 1]
  BY HeadTailProperties
<1>3. \A i \in 1..Len(Tail(q)) : i + 1 \in 1..Len(q) /\ 1 < i + 1
  BY <1>1, <1>2
<1>4. InOrder(Tail(q), again)
  BY <1>1, <1>2, <1>3 DEF InOrder
<1>5. ASSUME NEW x \in Range(Tail(q)) PROVE Earlier(Head(q), x, again)
  <2>1. PICK i \in 1..Len(Tail(q)) : x = Tail(q)[i]
    BY <1>2, RangeMembers
  <2> QED
    BY <2>1, <1>1, <1>2, <1>3 DEF InOrder
<1> QED
  BY <1>4, <1>5 DEF Ahead

\* More notified again only weakens the order.
LEMMA AgainGrows ==
    ASSUME NEW again, NEW more, again \subseteq more
    PROVE  /\ \A A, B : Ahead(A, B, again) => Ahead(A, B, more)
           /\ \A q : InOrder(q, again) => InOrder(q, more)
BY DEF Ahead, InOrder, Earlier

LEMMA AheadOfParts ==
    ASSUME NEW A, NEW B, NEW C, NEW D, NEW again, Ahead(A, B, again), C \subseteq A, D \subseteq B
    PROVE  Ahead(C, D, again)
BY DEF Ahead

LEMMA EmptyOrder ==
    ASSUME NEW S
    PROVE  /\ <<>> \in Seq(S) /\ Range(<<>>) = {} /\ Len(<<>>) = 0
           /\ \A again : InOrder(<<>>, again)
BY EmptySeq DEF Range, InOrder

-----------------------------------------------------------------------------
(* The invariant.                                                          *)

\* What h has published and has not got rid of.
Waiting(h) == Range(outbox[h]) \cup ({retry[h]} \ {Nothing})

\* x may yet be delivered on p: relayed, or recorded by a thread of p.
Comes(x, p) ==
    \/ x \in Range(channel[p]) /\ Home[x.by] # p
    \/ \E h \in Replicas \ {p} : x \in Waiting(h)
    \/ \E t \in Publishers : Home[t] = p /\ pub[t] # Nothing /\ x = pub[t]

Coming(p) == {x \in Events : Comes(x, p)}

Upstream(p) == Range(calls[p]) \cup Coming(p)

Issued(x) == x \in Events /\ x.n <= count[x.by]

Shape(st) ==
    st = [phase |-> st.phase, on |-> st.on, scope |-> st.scope, queue |-> st.queue, replay |-> st.replay, live |-> st.live]

Proper(st) ==
    /\ Shape(st) /\ st.phase \in {"none", "checked", "open", "live", "orphan", "ended"}
    /\ st.queue \in Seq(Events) /\ st.live \in Seq(Events)
    /\ \/ st.on = Nothing /\ st.phase \in {"none", "checked"} /\ st.queue = <<>> /\ st.live = <<>>
       \/ st.on \in Replicas /\ st.phase \notin {"none", "checked"}

Typed ==
    /\ mode \in {"DEMO", "LIVE"} /\ revoked \in BOOLEAN
    /\ count \in [Publishers -> Nat] /\ up \in [Replicas -> BOOLEAN]
    /\ outbox \in [Replicas -> Seq(Events)] /\ channel \in [Replicas -> Seq(Events)]
    /\ history \in [Replicas -> Seq(Events)] /\ calls \in [Replicas -> Seq(Events)]
    /\ DOMAIN retry = Replicas /\ retry = [p \in Replicas |-> retry[p]]
    /\ pub = [t \in Publishers |-> pub[t]]
    /\ stream = [s \in Streams |-> stream[s]]
    /\ \A t \in Publishers : pub[t] # Nothing => Issued(pub[t]) /\ pub[t].by = t
    /\ \A p \in Replicas : retry[p] # Nothing => retry[p] \in Events
    /\ \A s \in Streams : Proper(stream[s])

Bounded ==
    /\ \A p \in Replicas : Len(outbox[p]) <= OutboxSize /\ Len(history[p]) <= HistorySize
    /\ \A s \in Streams : Len(stream[s].queue) <= QueueSize

\* What waits for the sender is its replica's, in order, the one retried first;
\* what is notified came before it.
BridgeInOrder ==
    /\ \A h \in Replicas :
          /\ InOrder(outbox[h], resent) /\ InOrder(channel[h], resent)
          /\ \A x \in Waiting(h) : Issued(x) /\ Home[x.by] = h
          /\ \A x \in Range(channel[h]) : Issued(x)
          /\ retry[h] # Nothing => Ahead({retry[h]}, Range(outbox[h]), resent)
    /\ \A p, h \in Replicas : Ahead(Range(channel[p]), Waiting(h), resent)

\* What is scheduled on the loop comes before all that is still to come.
CallsInOrder ==
    \A p \in Replicas :
        /\ InOrder(calls[p], resent) /\ Ahead(Range(calls[p]), Coming(p), resent)
        /\ \A x \in Range(calls[p]) : Issued(x)

StreamInOrder(s) ==
    /\ InOrder(stream[s].live, resent) /\ InOrder(stream[s].queue, resent)
    /\ Ahead(Range(stream[s].live), Range(stream[s].queue), resent)
    /\ \A x \in Range(stream[s].live) \cup Range(stream[s].queue) : Issued(x)
    /\ stream[s].on \in Replicas =>
          Ahead(Range(stream[s].live) \cup Range(stream[s].queue), Upstream(stream[s].on), resent)

InPipeline == Typed /\ Bounded /\ BridgeInOrder /\ CallsInOrder /\ \A s \in Streams : StreamInOrder(s)

LEMMA InitPipeline == EventsInit => InPipeline
<1> SUFFICES ASSUME EventsInit PROVE InPipeline
  OBVIOUS
<1> USE LiveEventsAssumption
<1>1. Typed
  BY EmptyOrder DEF EventsInit, Typed, Proper, Shape, Closed
<1>2. Bounded
  BY EmptyOrder DEF EventsInit, Bounded, Closed
<1>3. BridgeInOrder
  BY EmptyOrder DEF EventsInit, BridgeInOrder, Waiting, Ahead
<1>4. CallsInOrder
  BY EmptyOrder DEF EventsInit, CallsInOrder, Ahead
<1>5. \A s \in Streams : StreamInOrder(s)
  BY EmptyOrder DEF EventsInit, StreamInOrder, Closed, Ahead
<1> QED
  BY <1>1, <1>2, <1>3, <1>4, <1>5 DEF InPipeline

-----------------------------------------------------------------------------
(* Steps that move no event.                                               *)

LEMMA NothingMoved ==
    ASSUME InPipeline, UNCHANGED <<pub, count, bridge, history, calls, resent>>, Typed',
           \A s \in Streams : stream'[s].live = stream[s].live /\ stream'[s].queue = stream[s].queue,
           \A s \in Streams : stream'[s].on # stream[s].on =>
              Range(stream[s].live) = {} /\ Range(stream[s].queue) = {}
    PROVE  InPipeline'
<1>1. Bounded'
  BY DEF InPipeline, Bounded, bridge
<1>2. BridgeInOrder'
  BY DEF InPipeline, BridgeInOrder, bridge, Waiting, Issued
<1>3. CallsInOrder'
  BY DEF InPipeline, CallsInOrder, bridge, Coming, Comes, Waiting, Issued
<1>4. ASSUME NEW s \in Streams PROVE StreamInOrder(s)'
  <2>1. StreamInOrder(s)
    BY DEF InPipeline
  <2>2. stream'[s].on = stream[s].on => Upstream(stream[s].on)' = Upstream(stream[s].on)
    BY DEF Upstream, Coming, Comes, Waiting, bridge
  <2> QED
    BY <2>1, <2>2 DEF StreamInOrder, Issued, Ahead
<1> QED
  BY <1>1, <1>2, <1>3, <1>4 DEF InPipeline

LEMMA Turned ==
    ASSUME NEW st, Proper(st), st.phase \notin {"none", "checked"},
           NEW to \in {"open", "live", "orphan", "ended"}, NEW x, x = [st EXCEPT !.phase = to]
    PROVE  Proper(x) /\ x.live = st.live /\ x.queue = st.queue /\ x.on = st.on
BY DEF Proper, Shape

LEMMA StreamSteps ==
    ASSUME InPipeline, NEW s \in Streams,
           Ticket(s) \/ Begin(s) \/ Heartbeat(s) \/ Leave(s) \/ \E p \in Serving : Subscribe(s, p)
    PROVE  InPipeline'
<1> USE LiveEventsAssumption
<1>1. Typed /\ Proper(stream[s]) /\ stream = [t \in Streams |-> stream[t]]
  BY DEF InPipeline, Typed
<1>2. UNCHANGED <<mode, revoked, pub, count, bridge, history, calls, resent>>
  BY DEF Ticket, Begin, Heartbeat, Leave, Subscribe, bridge
<1>3. stream' = [t \in Streams |-> IF t = s THEN stream'[s] ELSE stream[t]]
  BY <1>1 DEF Ticket, Begin, Heartbeat, Leave, Goes, Subscribe
<1>4. /\ Proper(stream'[s]) /\ stream'[s].live = stream[s].live /\ stream'[s].queue = stream[s].queue
      /\ stream'[s].on = stream[s].on \/ (stream[s].live = <<>> /\ stream[s].queue = <<>>)
  <2>1. CASE Ticket(s)
    BY <1>1, <2>1 DEF Ticket, Proper, Shape
  <2>2. CASE Begin(s)
    <3>1. PICK past : past = Recent(stream[s], history[stream[s].on])
      OBVIOUS
    <3>2. stream[s].phase = "open" /\ stream'[s] = [stream[s] EXCEPT !.phase = "live", !.replay = past]
      BY <1>1, <2>2, <3>1 DEF Begin
    <3>3. \A x : x = [stream[s] EXCEPT !.phase = "live", !.replay = past] =>
             Proper(x) /\ x.live = stream[s].live /\ x.queue = stream[s].queue /\ x.on = stream[s].on
      <4> TAKE x
      <4> HAVE x = [stream[s] EXCEPT !.phase = "live", !.replay = past]
      <4> QED
        BY <1>1, <3>2 DEF Proper, Shape
    <3> QED
      BY <3>2, <3>3
  <2>3. CASE Heartbeat(s)
    BY <1>1, <2>3 DEF Heartbeat, Goes, Proper, Shape
  <2>4. CASE Leave(s)
    <3>1. /\ stream[s].phase \notin {"none", "checked"}
          /\ \E to \in {"open", "live", "orphan", "ended"} : stream'[s] = [stream[s] EXCEPT !.phase = to]
      BY <1>1, <2>4 DEF Leave, Goes
    <3>2. Proper(stream[s])
      BY <1>1
    <3>3. Proper(stream'[s]) /\ stream'[s].live = stream[s].live /\ stream'[s].queue = stream[s].queue
      BY <3>1, <3>2, Turned
    <3>4. stream'[s].on = stream[s].on
      BY <3>1, <3>2, Turned
    <3> QED
      BY <3>3, <3>4
  <2>5. ASSUME NEW p \in Serving, Subscribe(s, p)
        PROVE  <1>4!1 /\ <1>4!2
    BY <1>1, <2>5 DEF Subscribe, Proper, Shape
  <2> QED
    BY <2>1, <2>2, <2>3, <2>4, <2>5
<1>5. Typed'
  BY <1>1, <1>2, <1>3, <1>4 DEF Typed, Issued, bridge
<1>6. \A t \in Streams \ {s} : stream'[t] = stream[t]
  BY <1>3
<1>7. Range(<<>>) = {}
  BY EmptyOrder
<1>8. \A t \in Streams : stream'[t].live = stream[t].live /\ stream'[t].queue = stream[t].queue
  BY <1>4, <1>6
<1>9. \A t \in Streams : stream'[t].on # stream[t].on =>
         Range(stream[t].live) = {} /\ Range(stream[t].queue) = {}
  BY <1>4, <1>6, <1>7
<1> QED
  BY <1>2, <1>5, <1>8, <1>9, NothingMoved

LEMMA SettingSteps ==
    ASSUME InPipeline, Revoke \/ SwitchMode \/ UNCHANGED eventVars
    PROVE  InPipeline'
<1>1. UNCHANGED stream /\ UNCHANGED <<pub, count, bridge, history, calls, resent>>
  BY DEF Revoke, SwitchMode, eventVars, bridge
<1>2. mode' \in {"DEMO", "LIVE"} /\ revoked' \in BOOLEAN
  BY DEF InPipeline, Typed, Revoke, SwitchMode, eventVars
<1>3. Typed'
  BY <1>1, <1>2 DEF InPipeline, Typed, Issued, bridge
<1>4. \A s \in Streams : stream'[s].live = stream[s].live /\ stream'[s].queue = stream[s].queue
  BY <1>1
<1>5. \A s \in Streams : stream'[s].on = stream[s].on
  BY <1>1
<1> QED
  BY <1>1, <1>3, <1>4, <1>5, NothingMoved

-----------------------------------------------------------------------------
(* Steps of the bus.                                                       *)

\* deque(maxlen).
LEMMA RecordedLog ==
    ASSUME NEW log \in Seq(Events), NEW e \in Events, Len(log) <= HistorySize
    PROVE  Recorded(log, e) \in Seq(Events) /\ Len(Recorded(log, e)) <= HistorySize
<1> USE LiveEventsAssumption
<1>1. CASE Len(log) < HistorySize
  BY <1>1, AppendedMembers, LenProperties DEF Recorded
<1>2. CASE ~(Len(log) < HistorySize)
  <2>1. Len(log) \in Nat /\ Len(log) = HistorySize /\ log # <<>>
    BY <1>2, LenProperties, EmptyOrder
  <2>2. Tail(log) \in Seq(Events) /\ Len(Tail(log)) = Len(log) - 1
    BY <2>1, TakenMembers
  <2> QED
    BY <1>2, <2>1, <2>2, AppendedMembers DEF Recorded
<1> QED
  BY <1>1, <1>2

\* A stream that nothing is added to stays in order while what is to come shrinks.
LEMMA UpstreamShrinks ==
    ASSUME InPipeline, NEW s \in Streams, UNCHANGED <<stream, count>>, resent \subseteq resent',
           \A q \in Replicas : Upstream(q)' \subseteq Upstream(q)
    PROVE  StreamInOrder(s)'
<1>1. StreamInOrder(s)
  BY DEF InPipeline
<1>2. stream[s].on \in Replicas =>
         Ahead(Range(stream[s].live) \cup Range(stream[s].queue), Upstream(stream[s].on)', resent)
  BY <1>1 DEF StreamInOrder, Ahead
<1> QED
  BY <1>1, <1>2, AgainGrows DEF StreamInOrder, Issued

LEMMA YieldStep == ASSUME InPipeline, NEW s \in Streams, Yield(s) PROVE InPipeline'
<1> DEFINE q == stream[s].queue
           e == Head(q)
<1>0. Typed /\ StreamInOrder(s)
  BY DEF InPipeline
<1>1. q \in Seq(Events) /\ q # <<>> /\ stream[s].live \in Seq(Events)
  BY <1>0 DEF Typed, Proper, Yield
<1>2. e \in Range(q) /\ e \in Events /\ Tail(q) \in Seq(Events) /\ Len(Tail(q)) = Len(q) - 1
      /\ Len(q) \in Nat \ {0} /\ Range(Tail(q)) \subseteq Range(q)
  BY <1>1, TakenMembers
<1>3. Append(stream[s].live, e) \in Seq(Events) /\ Range(Append(stream[s].live, e)) = Range(stream[s].live) \cup {e}
  BY <1>1, <1>2, AppendedMembers
<1>4. stream' = [t \in Streams |-> IF t = s THEN stream'[s] ELSE stream[t]]
  BY <1>0 DEF Typed, Yield
<1>5. /\ Proper(stream[s]) /\ stream[s].phase = "live"
      /\ stream'[s] = [stream[s] EXCEPT !.live = Append(@, e), !.queue = Tail(q)]
  BY <1>0 DEF Typed, Yield
<1> HIDE DEF q, e
<1>6. /\ stream'[s].live = Append(stream[s].live, e) /\ stream'[s].queue = Tail(q) /\ stream'[s].on = stream[s].on
      /\ Proper(stream'[s])
  BY <1>2, <1>3, <1>5 DEF Proper, Shape
<1>7. UNCHANGED <<mode, revoked, pub, count, outbox, retry, channel, up, history, calls, resent>>
  BY DEF Yield, bridge
<1>8. Typed'
  BY <1>0, <1>4, <1>6, <1>7 DEF Typed, Issued
<1>9. Bounded'
  <2>1. Len(q) <= QueueSize
    BY DEF InPipeline, Bounded, q
  <2>2. Len(stream'[s].queue) <= QueueSize
    BY <1>2, <1>6, <2>1, LiveEventsAssumption
  <2> QED
    BY <1>4, <1>7, <2>2 DEF InPipeline, Bounded
<1>10. BridgeInOrder' /\ CallsInOrder'
  <2>1. BridgeInOrder'
    BY <1>7 DEF InPipeline, BridgeInOrder, Waiting, Issued
  <2>2. CallsInOrder'
    BY <1>7 DEF InPipeline, CallsInOrder, Coming, Comes, Waiting, Issued
  <2> QED
    BY <2>1, <2>2
<1>11. ASSUME NEW t \in Streams \ {s} PROVE StreamInOrder(t)'
  <2>1. stream'[t] = stream[t]
    BY <1>4
  <2>2. Upstream(stream[t].on)' = Upstream(stream[t].on)
    BY <1>7, <2>1 DEF Upstream, Coming, Comes, Waiting
  <2> QED
    BY <1>7, <2>1, <2>2 DEF InPipeline, StreamInOrder, Issued
<1>12. StreamInOrder(s)'
  <2>1. InOrder(Tail(q), resent) /\ Ahead({e}, Range(Tail(q)), resent)
    BY <1>0, <1>1, TakenOrder DEF StreamInOrder, q, e
  <2>2. InOrder(Append(stream[s].live, e), resent)
    <3>1. InOrder(stream[s].live, resent) /\ Ahead(Range(stream[s].live), {e}, resent)
      BY <1>0, <1>2 DEF StreamInOrder, Ahead, q
    <3> QED
      BY <3>1, <1>1, <1>2, AppendedOrder
  <2>3. Ahead(Range(stream[s].live) \cup {e}, Range(Tail(q)), resent)
    BY <1>0, <1>2, <2>1 DEF StreamInOrder, Ahead, q
  <2>4. stream[s].on \in Replicas => Ahead(Range(stream[s].live) \cup {e} \cup Range(Tail(q)), Upstream(stream[s].on), resent)
    BY <1>0, <1>2 DEF StreamInOrder, Ahead, q
  <2>5. \A x \in Range(stream[s].live) \cup {e} \cup Range(Tail(q)) : Issued(x)
    BY <1>0, <1>2 DEF StreamInOrder, q
  <2>6. Upstream(stream[s].on)' = Upstream(stream[s].on)
    BY <1>6, <1>7 DEF Upstream, Coming, Comes, Waiting
  <2> QED
    BY <1>3, <1>6, <1>7, <2>1, <2>2, <2>3, <2>4, <2>5, <2>6 DEF StreamInOrder, Issued
<1> QED
  BY <1>8, <1>9, <1>10, <1>11, <1>12 DEF InPipeline

\* A thread forwards nothing until it has recorded.
LEMMA RecordStep == ASSUME InPipeline, NEW t \in Publishers, Record(t) PROVE InPipeline'
<1> USE LiveEventsAssumption
<1> DEFINE p == Home[t]
           e == pub[t]
<1>1. Typed /\ Bounded /\ p \in Replicas /\ Issued(e) /\ e \in Events /\ e.by = t
  BY DEF InPipeline, Typed, Record, Issued
<1>2. e \in Coming(p)
  BY <1>1 DEF Coming, Comes, Record
<1>3. /\ calls' = [calls EXCEPT ![p] = Append(@, e)] /\ history' = [history EXCEPT ![p] = Recorded(@, e)]
      /\ pub' = [u \in Publishers |-> IF u = t THEN Nothing ELSE pub[u]]
      /\ UNCHANGED <<mode, revoked, count, outbox, retry, channel, up, stream, resent>>
  BY <1>1 DEF Typed, Record, bridge
<1>4. calls[p] \in Seq(Events) /\ Append(calls[p], e) \in Seq(Events)
      /\ Range(Append(calls[p], e)) = Range(calls[p]) \cup {e}
  BY <1>1, AppendedMembers DEF Typed
<1>5. Recorded(history[p], e) \in Seq(Events) /\ Len(Recorded(history[p], e)) <= HistorySize
  BY <1>1, RecordedLog DEF Typed, Bounded
<1>6. \A x \in Coming(p)' : x \in Coming(p) /\ x.by # t
  <2>1. \A x \in Range(channel[p]) : Home[x.by] # p => x.by # t
    OBVIOUS
  <2>2. \A h \in Replicas \ {p} : \A x \in Waiting(h) : x.by # t
    BY DEF InPipeline, BridgeInOrder
  <2>3. \A u \in Publishers : pub'[u] # Nothing => u # t /\ pub'[u] = pub[u] /\ pub[u].by = u
    BY <1>1, <1>3 DEF Typed
  <2>4. \A h \in Replicas : Waiting(h)' = Waiting(h)
    BY <1>3 DEF Waiting
  <2> QED
    BY <1>3, <2>1, <2>2, <2>3, <2>4 DEF Coming, Comes
<1>7. \A q \in Replicas \ {p} : Coming(q)' = Coming(q) /\ calls'[q] = calls[q]
  <2> TAKE q \in Replicas \ {p}
  <2>1. \A u \in Publishers : Home[u] = q => pub'[u] = pub[u]
    BY <1>3
  <2>2. \A h \in Replicas : Waiting(h)' = Waiting(h)
    BY <1>3 DEF Waiting
  <2>3. calls'[q] = calls[q]
    BY <1>1, <1>3 DEF Typed
  <2> QED
    BY <1>3, <2>1, <2>2, <2>3 DEF Coming, Comes
<1>8. calls'[p] = Append(calls[p], e)
  BY <1>1, <1>3 DEF Typed
<1> HIDE DEF e
<1>9. Typed'
  <2>1. calls' \in [Replicas -> Seq(Events)] /\ history' \in [Replicas -> Seq(Events)]
    BY <1>1, <1>3, <1>4, <1>5 DEF Typed
  <2> QED
    BY <1>1, <1>3, <2>1 DEF Typed, Issued
<1>10. Bounded'
  BY <1>1, <1>3, <1>5 DEF Bounded, Typed
<1>11. BridgeInOrder'
  BY <1>3 DEF InPipeline, BridgeInOrder, Waiting, Issued
<1>12. CallsInOrder'
  <2>1. CallsInOrder
    BY DEF InPipeline
  <2>2. ASSUME NEW q \in Replicas \ {p}
        PROVE  CallsInOrder!(q)'
    BY <2>1, <1>3, <1>7 DEF CallsInOrder, Issued
  <2>3. InOrder(Append(calls[p], e), resent)
    <3>1. Ahead(Range(calls[p]), {e}, resent) /\ InOrder(calls[p], resent)
      BY <2>1, <1>1, <1>2 DEF CallsInOrder, Ahead
    <3> QED
      BY <3>1, <1>1, <1>4, AppendedOrder
  <2>4. Ahead(Range(calls[p]) \cup {e}, Coming(p)', resent)
    BY <2>1, <1>1, <1>6 DEF CallsInOrder, Ahead, Earlier
  <2>5. CallsInOrder!(p)'
    BY <2>1, <2>3, <2>4, <1>1, <1>3, <1>4, <1>8 DEF CallsInOrder, Issued
  <2> QED
    BY <2>2, <2>5 DEF CallsInOrder
<1>13. ASSUME NEW s \in Streams PROVE StreamInOrder(s)'
  <2>1. Upstream(p)' \subseteq Upstream(p)
    BY <1>2, <1>4, <1>6, <1>8 DEF Upstream
  <2>2. \A q \in Replicas \ {p} : Upstream(q)' = Upstream(q)
    BY <1>7 DEF Upstream
  <2> QED
    BY <1>3, <2>1, <2>2, UpstreamShrinks
<1> QED
  BY <1>9, <1>10, <1>11, <1>12, <1>13 DEF InPipeline

\* A thread gives a new event the next number: all that is on its way came before.
LEMMA ForwardStep ==
    ASSUME InPipeline, NEW t \in Publishers, NEW tenant \in Tenants, Forward(t, tenant)
    PROVE  InPipeline'
<1> USE LiveEventsAssumption
<1> DEFINE p == Home[t]
<1>e. PICK e : e = [by |-> t, n |-> count[t] + 1, tenant |-> tenant, scope |-> mode]
  OBVIOUS
<1>1. Typed /\ Bounded /\ p \in Replicas /\ count[t] \in Nat /\ outbox[p] \in Seq(Events)
  BY DEF InPipeline, Typed
<1>2. e \in Events /\ e.by = t /\ e.n = count[t] + 1
  BY <1>1, <1>e DEF Events, Typed
<1>3. /\ count' = [count EXCEPT ![t] = @ + 1] /\ pub[t] = Nothing
      /\ pub' = [u \in Publishers |-> IF u = t THEN e ELSE pub[u]]
      /\ UNCHANGED <<mode, revoked, retry, channel, up, history, calls, stream, resent>>
  BY <1>1, <1>e DEF Typed, Forward
<1>4. \/ outbox' = outbox
      \/ outbox' = [outbox EXCEPT ![p] = Append(@, e)] /\ Len(outbox[p]) < OutboxSize
  <2>1. Len(outbox[p]) \in Nat
    BY <1>1, LenProperties
  <2> QED
    BY <2>1, <1>e DEF Forward
<1>5. /\ Append(outbox[p], e) \in Seq(Events) /\ Len(Append(outbox[p], e)) = Len(outbox[p]) + 1
      /\ Range(Append(outbox[p], e)) = Range(outbox[p]) \cup {e}
  BY <1>1, <1>2, AppendedMembers
<1>0. \A h \in Replicas :
         \/ outbox'[h] = outbox[h]
         \/ h = p /\ outbox'[h] = Append(outbox[p], e) /\ Len(outbox[p]) < OutboxSize
  <2>1. DOMAIN outbox = Replicas
    BY <1>1 DEF Typed
  <2> QED
    BY <2>1, <1>1, <1>4
<1>6. \A x : Issued(x) => Issued(x)' /\ Earlier(x, e, resent)
  <2> SUFFICES ASSUME NEW x, Issued(x) PROVE Issued(x)' /\ Earlier(x, e, resent)
    OBVIOUS
  <2>1. x \in Events /\ x.by \in Publishers /\ x.n \in Nat /\ x.n <= count[x.by] /\ count[x.by] \in Nat
    BY <1>1 DEF Issued, Events, Typed
  <2>2. count'[x.by] = IF x.by = t THEN count[t] + 1 ELSE count[x.by]
    BY <1>1, <1>3, <2>1 DEF Typed
  <2> QED
    <3>1. Issued(x)'
      BY <2>1, <2>2 DEF Issued
    <3>2. x.by = t => x.n < count[t] + 1
      BY <2>1
    <3> QED
      BY <1>2, <3>1, <3>2 DEF Earlier
<1>7. Issued(e)'
  <2>1. count'[t] = count[t] + 1
    BY <1>1, <1>3 DEF Typed
  <2> QED
    BY <1>1, <1>2, <2>1 DEF Issued
<1>8. \A h \in Replicas : Waiting(h)' \subseteq Waiting(h) \cup {e} /\ (h # p => Waiting(h)' = Waiting(h))
  BY <1>1, <1>3, <1>4, <1>5 DEF Waiting, Typed
<1>9. \A q \in Replicas : Coming(q)' \subseteq Coming(q) \cup {e}
  BY <1>3, <1>8 DEF Coming, Comes
<1>10. Typed'
  <2>1. outbox' \in [Replicas -> Seq(Events)]
    BY <1>1, <1>4, <1>5 DEF Typed
  <2>2. ASSUME NEW u \in Publishers, pub'[u] # Nothing
        PROVE  Issued(pub[u])' /\ pub'[u].by = u
    <3>1. pub'[u] = IF u = t THEN e ELSE pub[u]
      BY <1>3
    <3>2. CASE u = t
      BY <3>1, <3>2, <1>2, <1>7 DEF Issued
    <3>3. CASE u # t
      BY <2>2, <3>1, <3>3, <1>1, <1>6 DEF Typed, Issued
    <3> QED
      BY <3>2, <3>3
  <2>3. pub' = [u \in Publishers |-> pub'[u]] /\ count' \in [Publishers -> Nat]
    BY <1>1, <1>3 DEF Typed
  <2> QED
    <3>1. \A q \in Replicas : retry'[q] # Nothing => retry'[q] \in Events
      BY <1>1, <1>3 DEF Typed
    <3>2. \A s \in Streams : Proper(stream'[s])
      BY <1>1, <1>3 DEF Typed
    <3> QED
      BY <1>1, <1>3, <2>1, <2>2, <2>3, <3>1, <3>2 DEF Typed
<1>11. Bounded'
  <2>1. \A h \in Replicas : Len(outbox'[h]) <= OutboxSize
    <3> TAKE h \in Replicas
    <3>1. Len(outbox[h]) <= OutboxSize /\ Len(outbox[h]) \in Nat /\ Len(outbox[p]) \in Nat
      BY <1>1, LenProperties DEF Bounded, Typed
    <3> QED
      BY <1>0, <1>5, <3>1
  <2> QED
    BY <1>1, <1>3, <2>1 DEF Bounded
<1>12. BridgeInOrder'
  <2>1. BridgeInOrder
    BY DEF InPipeline
  <2>2. \A h \in Replicas : InOrder(outbox'[h], resent)
    <3>1. InOrder(Append(outbox[p], e), resent)
      <4>1. InOrder(outbox[p], resent) /\ Ahead(Range(outbox[p]), {e}, resent)
        BY <2>1, <1>1, <1>6 DEF BridgeInOrder, Ahead, Waiting
      <4> QED
        BY <4>1, <1>1, <1>2, AppendedOrder
    <3> QED
      BY <2>1, <3>1, <1>1, <1>4 DEF BridgeInOrder, Typed
  <2>3. \A h \in Replicas : \A x \in Waiting(h)' : Issued(x)' /\ Home[x.by] = h
    <3> SUFFICES ASSUME NEW h \in Replicas, NEW x \in Waiting(h)' PROVE Issued(x)' /\ Home[x.by] = h
      OBVIOUS
    <3>1. x \in Waiting(h) \/ (x = e /\ h = p)
      BY <1>8
    <3>2. CASE x \in Waiting(h)
      BY <2>1, <3>2, <1>6 DEF BridgeInOrder
    <3>3. CASE x = e /\ h = p
      BY <3>3, <1>2, <1>7
    <3> QED
      BY <3>1, <3>2, <3>3
  <2>4. \A h \in Replicas : \A x \in Range(channel[h]) : Issued(x)'
    BY <2>1, <1>6 DEF BridgeInOrder
  <2>5. \A h \in Replicas : retry[h] # Nothing => Ahead({retry[h]}, Range(outbox'[h]), resent)
    <3> SUFFICES ASSUME NEW h \in Replicas, retry[h] # Nothing, NEW x \in Range(outbox'[h])
                 PROVE  Earlier(retry[h], x, resent)
      BY DEF Ahead
    <3>1. x \in Range(outbox[h]) \/ x = e
      <4>1. CASE outbox'[h] = outbox[h]
        BY <4>1
      <4>2. CASE h = p /\ outbox'[h] = Append(outbox[p], e)
        BY <4>2, <1>5
      <4> QED
        BY <4>1, <4>2, <1>0
    <3>2. retry[h] \in Waiting(h) /\ Issued(retry[h])
      BY <2>1 DEF BridgeInOrder, Waiting
    <3> QED
      BY <2>1, <3>1, <3>2, <1>6 DEF BridgeInOrder, Ahead
  <2>6. \A q, h \in Replicas : Ahead(Range(channel[q]), Waiting(h)', resent)
    BY <2>1, <1>6, <1>8 DEF BridgeInOrder, Ahead
  <2> QED
    BY <2>1, <2>2, <2>3, <2>4, <2>5, <2>6, <1>3 DEF BridgeInOrder
<1>13. CallsInOrder'
  <2>1. CallsInOrder
    BY DEF InPipeline
  <2>2. \A q \in Replicas : Ahead(Range(calls[q]), Coming(q)', resent)
    BY <2>1, <1>6, <1>9 DEF CallsInOrder, Ahead
  <2> QED
    BY <2>1, <2>2, <1>3, <1>6 DEF CallsInOrder
<1>14. ASSUME NEW s \in Streams PROVE StreamInOrder(s)'
  <2>1. StreamInOrder(s)
    BY DEF InPipeline
  <2>2. \A q \in Replicas : Upstream(q)' \subseteq Upstream(q) \cup {e}
    BY <1>3, <1>9 DEF Upstream
  <2>3. stream[s].on \in Replicas =>
           Ahead(Range(stream[s].live) \cup Range(stream[s].queue), Upstream(stream[s].on)', resent)
    <3> SUFFICES ASSUME stream[s].on \in Replicas, NEW x \in Range(stream[s].live) \cup Range(stream[s].queue),
                        NEW y \in Upstream(stream[s].on)'
                 PROVE  Earlier(x, y, resent)
      BY DEF Ahead
    <3>1. y \in Upstream(stream[s].on) \/ y = e
      BY <2>2, <1>3
    <3>2. Issued(x)
      BY <2>1 DEF StreamInOrder
    <3> QED
      BY <2>1, <3>1, <3>2, <1>6 DEF StreamInOrder, Ahead
  <2> QED
    BY <2>1, <2>3, <1>3, <1>6 DEF StreamInOrder
<1> QED
  BY <1>10, <1>11, <1>12, <1>13, <1>14 DEF InPipeline

\* The oldest of the scheduled deliveries joins the queues that have room.
LEMMA DeliverStep == ASSUME InPipeline, NEW p \in Replicas, Deliver(p) PROVE InPipeline'
<1> USE LiveEventsAssumption
<1> DEFINE e == Head(calls[p])
           wants == {s \in Subscribed : stream[s].on = p /\ Allows(stream[s], e)}
           full == {s \in wants : Len(stream[s].queue) >= QueueSize}
           joins == wants \ full
<1>1. Typed /\ Bounded /\ CallsInOrder /\ calls[p] \in Seq(Events) /\ calls[p] # <<>>
  BY DEF InPipeline, Typed, Deliver
<1>2. /\ e \in Range(calls[p]) /\ e \in Events /\ Tail(calls[p]) \in Seq(Events)
      /\ Range(Tail(calls[p])) \subseteq Range(calls[p])
  BY <1>1, TakenMembers
<1>3. /\ stream' = [s \in Streams |-> IF s \in joins THEN [stream[s] EXCEPT !.queue = Append(@, e)] ELSE stream[s]]
      /\ calls' = [calls EXCEPT ![p] = Tail(@)]
      /\ UNCHANGED <<mode, revoked, pub, count, outbox, retry, channel, up, history, resent>>
  BY DEF Deliver, bridge
<1>4. \A s \in joins : /\ s \in Streams /\ stream[s].on = p /\ Proper(stream[s])
                       /\ Len(stream[s].queue) < QueueSize /\ stream[s].queue \in Seq(Events)
  <2> TAKE s \in joins
  <2>1. s \in Streams /\ stream[s].on = p /\ ~(Len(stream[s].queue) >= QueueSize)
    BY DEF Subscribed
  <2>2. Proper(stream[s]) /\ stream[s].queue \in Seq(Events)
    BY <1>1, <2>1 DEF Typed, Proper
  <2> QED
    BY <2>1, <2>2, LenProperties
<1>5. InOrder(Tail(calls[p]), resent) /\ Ahead({e}, Range(Tail(calls[p])), resent)
  BY <1>1, TakenOrder DEF CallsInOrder
<1>6. Issued(e) /\ e \in Upstream(p)
  BY <1>1, <1>2 DEF CallsInOrder, Upstream
<1> HIDE DEF joins, e
<1>7. \A q \in Replicas : Coming(q)' = Coming(q)
  BY <1>3 DEF Coming, Comes, Waiting
<1>8. \A q \in Replicas : calls'[q] = IF q = p THEN Tail(calls[p]) ELSE calls[q]
  BY <1>1, <1>3 DEF Typed
<1>9. \A s \in Streams \ joins : stream'[s] = stream[s]
  BY <1>3
<1>10. ASSUME NEW s \in joins
       PROVE  /\ stream'[s].queue = Append(stream[s].queue, e) /\ stream'[s].live = stream[s].live
              /\ stream'[s].on = p /\ Proper(stream'[s]) /\ Len(stream'[s].queue) <= QueueSize
              /\ Range(stream'[s].queue) = Range(stream[s].queue) \cup {e}
  <2>1. stream'[s] = [stream[s] EXCEPT !.queue = Append(@, e)] /\ Proper(stream[s]) /\ stream[s].on = p
    BY <1>3, <1>4
  <2>2. stream'[s].queue = Append(stream[s].queue, e) /\ stream'[s].live = stream[s].live /\ stream'[s].on = p
    BY <2>1 DEF Proper, Shape
  <2>3. /\ Append(stream[s].queue, e) \in Seq(Events) /\ Len(Append(stream[s].queue, e)) = Len(stream[s].queue) + 1
        /\ Range(Append(stream[s].queue, e)) = Range(stream[s].queue) \cup {e}
    BY <1>2, <1>4, AppendedMembers
  <2>4. Proper(stream'[s])
    BY <2>1, <2>3 DEF Proper, Shape
  <2>5. Len(stream'[s].queue) <= QueueSize
    BY <1>4, <2>2, <2>3, LenProperties
  <2> QED
    BY <2>2, <2>3, <2>4, <2>5
<1>11. Typed'
  <2>1. \A s \in Streams : Proper(stream'[s])
    BY <1>1, <1>9, <1>10 DEF Typed
  <2>2. calls' \in [Replicas -> Seq(Events)] /\ stream' = [s \in Streams |-> stream'[s]]
    BY <1>1, <1>2, <1>3 DEF Typed
  <2> QED
    BY <1>1, <1>3, <2>1, <2>2 DEF Typed, Issued
<1>12. Bounded'
  BY <1>1, <1>3, <1>9, <1>10 DEF Bounded
<1>13. BridgeInOrder'
  BY <1>3 DEF InPipeline, BridgeInOrder, Waiting, Issued
<1>14. CallsInOrder'
  BY <1>1, <1>2, <1>3, <1>5, <1>7, <1>8 DEF CallsInOrder, Issued, Ahead
<1>15. \A q \in Replicas : Upstream(q)' \subseteq Upstream(q)
  BY <1>2, <1>7, <1>8 DEF Upstream
<1>16. ASSUME NEW s \in Streams PROVE StreamInOrder(s)'
  <2>1. StreamInOrder(s)
    BY DEF InPipeline
  <2>2. CASE s \notin joins
    <3>1. stream'[s] = stream[s]
      BY <1>9, <2>2
    <3> QED
      BY <2>1, <3>1, <1>3, <1>15 DEF StreamInOrder, Issued, Ahead
  <2>3. CASE s \in joins
    <3>1. stream[s].on = p /\ stream[s].queue \in Seq(Events)
      BY <1>4, <2>3
    <3>2. Ahead(Range(stream[s].live) \cup Range(stream[s].queue), Upstream(p), resent)
      BY <2>1, <3>1 DEF StreamInOrder
    <3>3. Ahead(Range(stream[s].live) \cup Range(stream[s].queue), {e}, resent)
      BY <3>2, <1>6 DEF Ahead
    <3>4. InOrder(Append(stream[s].queue, e), resent)
      <4>1. InOrder(stream[s].queue, resent) /\ Ahead(Range(stream[s].queue), {e}, resent)
        BY <2>1, <3>3 DEF StreamInOrder, Ahead
      <4> QED
        BY <4>1, <3>1, <1>2, AppendedOrder
    <3>5. Upstream(p)' = Range(Tail(calls[p])) \cup Coming(p)
      BY <1>7, <1>8 DEF Upstream
    <3>6. Ahead({e}, Upstream(p)', resent)
      BY <3>5, <1>1, <1>2, <1>5 DEF CallsInOrder, Ahead
    <3>7. Ahead(Range(stream[s].live) \cup Range(stream'[s].queue), Upstream(p)', resent)
      BY <3>2, <3>6, <1>10, <1>15, <2>3 DEF Ahead
    <3>8. Ahead(Range(stream[s].live), Range(stream'[s].queue), resent)
      BY <2>1, <3>3, <1>10, <2>3 DEF StreamInOrder, Ahead
    <3>9. \A x \in Range(stream[s].live) \cup Range(stream'[s].queue) : Issued(x)'
      <4>1. Range(stream'[s].queue) = Range(stream[s].queue) \cup {e} /\ Issued(e)
        BY <1>6, <1>10, <2>3
      <4>2. \A x \in Range(stream[s].live) \cup Range(stream'[s].queue) : Issued(x)
        BY <2>1, <4>1 DEF StreamInOrder
      <4> QED
        BY <4>2, <1>3 DEF Issued
    <3>10. InOrder(stream'[s].queue, resent) /\ stream'[s].live = stream[s].live /\ stream'[s].on = p
      BY <3>4, <1>10, <2>3
    <3> QED
      BY <2>1, <3>7, <3>8, <3>9, <3>10, <1>3 DEF StreamInOrder
  <2> QED
    BY <2>2, <2>3
<1> QED
  BY <1>11, <1>12, <1>13, <1>14, <1>16 DEF InPipeline

-----------------------------------------------------------------------------
(* Steps of the bridge.                                                    *)

\* The sender and the listener's connection: e, which waited on p, is notified
\* to some, others lose what was on its way to them.
LEMMA BridgeMoved ==
    ASSUME InPipeline, UNCHANGED <<pub, count, history, calls, stream>>, resent \subseteq resent',
           Typed', Bounded', NEW p \in Replicas, NEW e,
           \A h \in Replicas : Waiting(h)' \subseteq Waiting(h) /\ InOrder(outbox'[h], resent),
           \A h \in Replicas : retry'[h] # Nothing => Ahead({retry'[h]}, Range(outbox'[h]), resent),
           \A q \in Replicas :
               \/ channel'[q] = channel[q]
               \/ channel'[q] = <<>>
               \/ /\ channel'[q] = Append(channel[q], e)
                  /\ e \in Waiting(p) /\ Ahead({e}, Waiting(p)', resent')
    PROVE  InPipeline'
<1>1. Typed /\ BridgeInOrder /\ CallsInOrder
  BY DEF InPipeline
<1>2. \A q \in Replicas : channel[q] \in Seq(Events)
  BY <1>1 DEF Typed
<1>3. e \in Waiting(p) => Issued(e) /\ e \in Events /\ Home[e.by] = p
  BY <1>1 DEF BridgeInOrder, Issued
<1>4. \A x : Issued(x)' <=> Issued(x)
  BY DEF Issued
<1>5. \A q \in Replicas : Range(channel'[q]) \subseteq Range(channel[q]) \cup (IF e \in Waiting(p) THEN {e} ELSE {})
  <2> TAKE q \in Replicas
  <2>1. CASE channel'[q] = channel[q]
    BY <2>1
  <2>2. CASE channel'[q] = <<>>
    BY <2>2, EmptyOrder
  <2>3. CASE channel'[q] = Append(channel[q], e) /\ e \in Waiting(p)
    BY <2>3, <1>2, <1>3, AppendedMembers
  <2> QED
    BY <2>1, <2>2, <2>3
<1>6. \A q \in Replicas : InOrder(channel'[q], resent)
  <2> TAKE q \in Replicas
  <2>0. InOrder(channel[q], resent) /\ Ahead(Range(channel[q]), Waiting(p), resent)
    BY <1>1 DEF BridgeInOrder
  <2>1. CASE channel'[q] = channel[q]
    BY <2>0, <2>1
  <2>2. CASE channel'[q] = <<>>
    BY <2>2, EmptyOrder
  <2>3. CASE channel'[q] = Append(channel[q], e) /\ e \in Waiting(p)
    <3>1. Ahead(Range(channel[q]), {e}, resent)
      BY <2>0, <2>3 DEF Ahead
    <3> QED
      BY <2>0, <2>3, <3>1, <1>2, <1>3, AppendedOrder
  <2> QED
    BY <2>1, <2>2, <2>3
<1>7. \A q, h \in Replicas : Ahead(Range(channel'[q]), Waiting(h)', resent')
  <2> SUFFICES ASSUME NEW q \in Replicas, NEW h \in Replicas, NEW x \in Range(channel'[q]), NEW y \in Waiting(h)'
               PROVE  Earlier(x, y, resent')
    BY DEF Ahead
  <2>1. y \in Waiting(h) /\ Home[y.by] = h
    BY <1>1 DEF BridgeInOrder
  <2>2. CASE x \in Range(channel[q])
    BY <1>1, <2>1, <2>2 DEF BridgeInOrder, Ahead, Earlier
  <2>3. CASE x \notin Range(channel[q])
    <3>1. x = e /\ e \in Waiting(p)
      BY <1>5, <2>3
    <3>2. Ahead({e}, Waiting(p)', resent')
      BY <1>2, <2>3, EmptyOrder
    <3> QED
      BY <1>3, <2>1, <3>1, <3>2 DEF Ahead, Earlier
  <2> QED
    BY <2>2, <2>3
<1>8. BridgeInOrder'
  <2>1. \A h \in Replicas : InOrder(outbox'[h], resent') /\ InOrder(channel'[h], resent')
    BY <1>6, AgainGrows
  <2>2. \A h \in Replicas : \A x \in Waiting(h)' : Issued(x)' /\ Home[x.by] = h
    BY <1>1, <1>4 DEF BridgeInOrder
  <2>3. \A h \in Replicas : \A x \in Range(channel'[h]) : Issued(x)'
    <3> SUFFICES ASSUME NEW h \in Replicas, NEW x \in Range(channel'[h]) PROVE Issued(x)
      BY <1>4
    <3>1. x \in Range(channel[h]) \/ (x = e /\ e \in Waiting(p))
      BY <1>5
    <3> QED
      BY <3>1, <1>1, <1>3 DEF BridgeInOrder
  <2>4. \A h \in Replicas : retry'[h] # Nothing => Ahead({retry'[h]}, Range(outbox'[h]), resent')
    BY AgainGrows
  <2> QED
    BY <1>7, <2>1, <2>2, <2>3, <2>4 DEF BridgeInOrder
<1>9. \A q \in Replicas : Coming(q)' \subseteq Coming(q)
  BY <1>3, <1>5 DEF Coming, Comes
<1>10. CallsInOrder'
  <2>1. \A q \in Replicas : InOrder(calls[q], resent') /\ Ahead(Range(calls[q]), Coming(q), resent')
    BY <1>1, AgainGrows DEF CallsInOrder
  <2>2. \A q \in Replicas : Ahead(Range(calls[q]), Coming(q)', resent')
    BY <2>1, <1>9 DEF Ahead
  <2> QED
    BY <2>1, <2>2, <1>1, <1>4 DEF CallsInOrder
<1>11. \A s \in Streams : StreamInOrder(s)'
  <2>1. \A q \in Replicas : Upstream(q)' \subseteq Upstream(q)
    BY <1>9 DEF Upstream
  <2> QED
    BY <2>1, UpstreamShrinks
<1> QED
  BY <1>8, <1>10, <1>11 DEF InPipeline

\* What the sender works on is ahead of what it leaves.
LEMMA SenderTakes ==
    ASSUME InPipeline, NEW p \in Replicas, Sends(p)
    PROVE  /\ Sending(p) \in Waiting(p) /\ Sending(p) \in Events
           /\ retry[p] # Nothing => Ahead({Sending(p)}, Range(outbox[p]), resent)
           /\ retry[p] = Nothing =>
                 /\ outbox[p] # <<>> /\ Sending(p) = Head(outbox[p]) /\ Sending(p) \in Range(outbox[p])
                 /\ Tail(outbox[p]) \in Seq(Events) /\ Len(Tail(outbox[p])) <= OutboxSize
                 /\ Range(Tail(outbox[p])) \subseteq Range(outbox[p]) /\ InOrder(Tail(outbox[p]), resent)
                 /\ Ahead({Sending(p)}, Range(Tail(outbox[p])), resent)
<1>1. Typed /\ Bounded /\ BridgeInOrder
  BY DEF InPipeline
<1>2. outbox[p] \in Seq(Events) /\ InOrder(outbox[p], resent) /\ Len(outbox[p]) <= OutboxSize
  BY <1>1 DEF Typed, BridgeInOrder, Bounded
<1>3. CASE retry[p] # Nothing
  BY <1>1, <1>3 DEF Sending, Waiting, BridgeInOrder, Typed
<1>4. CASE retry[p] = Nothing
  <2>1. outbox[p] # <<>> /\ Sending(p) = Head(outbox[p])
    BY <1>4 DEF Sends, Sending
  <2>2. /\ Head(outbox[p]) \in Range(outbox[p]) /\ Head(outbox[p]) \in Events
        /\ Tail(outbox[p]) \in Seq(Events) /\ Len(Tail(outbox[p])) = Len(outbox[p]) - 1 /\ Len(outbox[p]) \in Nat \ {0}
        /\ Range(Tail(outbox[p])) \subseteq Range(outbox[p])
    BY <1>2, <2>1, TakenMembers
  <2>3. InOrder(Tail(outbox[p]), resent) /\ Ahead({Head(outbox[p])}, Range(Tail(outbox[p])), resent)
    BY <1>2, <2>1, TakenOrder
  <2>4. Len(Tail(outbox[p])) <= OutboxSize
    BY <1>2, <2>2, LiveEventsAssumption
  <2> QED
    BY <1>4, <2>1, <2>2, <2>3, <2>4 DEF Waiting
<1> QED
  BY <1>3, <1>4

\* The sender keeps nothing of what it took, or keeps it to try again.
Taken(p, kept) ==
    IF retry[p] # Nothing
    THEN outbox' = outbox /\ retry' = [retry EXCEPT ![p] = Nothing]
    ELSE outbox' = [outbox EXCEPT ![p] = Tail(@)] /\ retry' = [retry EXCEPT ![p] = kept]

LEMMA SenderLeaves ==
    ASSUME InPipeline, NEW p \in Replicas, Sends(p), NEW kept \in {Nothing, Sending(p)}, Taken(p, kept)
    PROVE  /\ outbox' \in [Replicas -> Seq(Events)] /\ DOMAIN retry' = Replicas /\ retry' = [q \in Replicas |-> retry'[q]]
           /\ \A h \in Replicas : retry'[h] # Nothing => retry'[h] \in Events
           /\ \A h \in Replicas : Len(outbox'[h]) <= OutboxSize
           /\ \A h \in Replicas : Waiting(h)' \subseteq Waiting(h) /\ InOrder(outbox'[h], resent)
           /\ \A h \in Replicas : retry'[h] # Nothing => Ahead({retry'[h]}, Range(outbox'[h]), resent)
           /\ Ahead({Sending(p)}, Range(outbox'[p]), resent) /\ retry'[p] \in {Nothing, kept}
<1>1. Typed /\ Bounded /\ BridgeInOrder
  BY DEF InPipeline
<1>2. /\ DOMAIN outbox = Replicas /\ DOMAIN retry = Replicas /\ outbox \in [Replicas -> Seq(Events)]
      /\ retry = [q \in Replicas |-> retry[q]]
  BY <1>1 DEF Typed
<1>3. \A h \in Replicas \ {p} : outbox'[h] = outbox[h] /\ retry'[h] = retry[h]
  BY <1>2 DEF Taken
<1>4. retry'[p] = (IF retry[p] # Nothing THEN Nothing ELSE kept)
  BY <1>2 DEF Taken
<1>5. outbox'[p] = (IF retry[p] # Nothing THEN outbox[p] ELSE Tail(outbox[p]))
  BY <1>2 DEF Taken
<1>6. DOMAIN retry' = Replicas /\ DOMAIN outbox' = Replicas /\ retry' = [q \in Replicas |-> retry'[q]]
      /\ outbox' = [q \in Replicas |-> outbox'[q]]
  BY <1>2 DEF Taken
<1>7. /\ Sending(p) \in Waiting(p) /\ Sending(p) \in Events
      /\ retry[p] = Nothing =>
            /\ Tail(outbox[p]) \in Seq(Events) /\ Len(Tail(outbox[p])) <= OutboxSize
            /\ Range(Tail(outbox[p])) \subseteq Range(outbox[p]) /\ InOrder(Tail(outbox[p]), resent)
  BY SenderTakes
<1>8. Ahead({Sending(p)}, Range(outbox'[p]), resent)
  BY <1>5, SenderTakes
<1>9. outbox'[p] \in Seq(Events) /\ Len(outbox'[p]) <= OutboxSize /\ Range(outbox'[p]) \subseteq Range(outbox[p])
      /\ InOrder(outbox'[p], resent)
  BY <1>1, <1>2, <1>5, <1>7 DEF Bounded, BridgeInOrder
<1>10. outbox' \in [Replicas -> Seq(Events)]
  BY <1>2, <1>3, <1>6, <1>9
<1>11. \A h \in Replicas : retry'[h] # Nothing => retry'[h] \in Events
  <2>1. \A h \in Replicas \ {p} : retry'[h] # Nothing => retry'[h] \in Events
    BY <1>1, <1>3 DEF Typed
  <2>2. retry'[p] # Nothing => retry'[p] \in Events
    BY <1>4, <1>7
  <2> QED
    BY <2>1, <2>2
<1>12. \A h \in Replicas : Len(outbox'[h]) <= OutboxSize /\ InOrder(outbox'[h], resent)
  BY <1>1, <1>3, <1>9 DEF Bounded, BridgeInOrder
<1>13. \A h \in Replicas : Waiting(h)' \subseteq Waiting(h)
  BY <1>3, <1>4, <1>7, <1>9 DEF Waiting
<1>14. \A h \in Replicas : retry'[h] # Nothing => Ahead({retry'[h]}, Range(outbox'[h]), resent)
  BY <1>1, <1>3, <1>4, <1>8 DEF BridgeInOrder
<1> QED
  BY <1>4, <1>6, <1>8, <1>10, <1>11, <1>12, <1>13, <1>14

LEMMA NotifiedChannels ==
    ASSUME Typed, NEW e \in Events, channel' = Notified(e)
    PROVE  /\ channel' \in [Replicas -> Seq(Events)]
           /\ \A q \in Replicas : channel'[q] = channel[q] \/ channel'[q] = Append(channel[q], e)
<1>1. \A q \in Replicas : Append(channel[q], e) \in Seq(Events)
  BY AppendedMembers DEF Typed
<1> QED
  BY <1>1 DEF Notified, Typed

LEMMA NotifyStep ==
    ASSUME InPipeline, NEW p \in Replicas, Notify(p) \/ NotifyFails(p) PROVE InPipeline'
<1>1. Typed /\ Bounded /\ Sends(p)
  BY DEF InPipeline, Notify, NotifyFails
<1>2. PICK e : e = Sending(p)
  OBVIOUS
<1>3. e \in Waiting(p) /\ e \in Events
  BY <1>1, <1>2, SenderTakes
<1>4. PICK kept \in {Nothing, Sending(p)} :
         /\ Taken(p, kept) /\ resent \subseteq resent'
         /\ channel' = channel \/ (channel' = Notified(e) /\ (kept = Nothing \/ e \in resent'))
  <2>1. CASE Notify(p)
    <3>1. Taken(p, Nothing) /\ resent' = resent /\ channel' = Notified(e)
      BY <1>1, <1>2, <2>1 DEF Notify, Taken, Typed
    <3> QED
      BY <3>1
  <2>2. CASE NotifyFails(p)
    <3>1. Taken(p, Sending(p))
      BY <1>1, <2>2 DEF NotifyFails, Retried, Taken, Sending
    <3>2. resent \subseteq resent' /\ (channel' = channel \/ (channel' = Notified(e) /\ e \in resent'))
      BY <1>2, <2>2 DEF NotifyFails
    <3> QED
      BY <3>1, <3>2
  <2> QED
    BY <2>1, <2>2
<1>5. /\ outbox' \in [Replicas -> Seq(Events)] /\ DOMAIN retry' = Replicas /\ retry' = [q \in Replicas |-> retry'[q]]
      /\ \A h \in Replicas : retry'[h] # Nothing => retry'[h] \in Events
      /\ \A h \in Replicas : Len(outbox'[h]) <= OutboxSize
  BY <1>1, <1>4, SenderLeaves
<1>6. /\ \A h \in Replicas : Waiting(h)' \subseteq Waiting(h) /\ InOrder(outbox'[h], resent)
      /\ \A h \in Replicas : retry'[h] # Nothing => Ahead({retry'[h]}, Range(outbox'[h]), resent)
  BY <1>1, <1>4, SenderLeaves
<1>7. Ahead({e}, Range(outbox'[p]), resent) /\ retry'[p] \in {Nothing, kept}
  BY <1>1, <1>2, <1>4, SenderLeaves
<1>8. kept = Nothing \/ e \in resent' => Ahead({e}, Waiting(p)', resent')
  BY <1>2, <1>4, <1>7 DEF Ahead, Waiting, Earlier
<1>9. UNCHANGED <<mode, revoked, pub, count, up, history, calls, stream>>
  BY DEF Notify, NotifyFails
<1>10. /\ channel' \in [Replicas -> Seq(Events)]
       /\ \A q \in Replicas : channel'[q] = channel[q] \/ channel'[q] = Append(channel[q], e)
  BY <1>1, <1>3, <1>4, NotifiedChannels DEF Typed
<1>11. Typed'
  BY <1>1, <1>5, <1>9, <1>10 DEF Typed, Issued
<1>12. Bounded'
  BY <1>1, <1>5, <1>9 DEF Bounded
<1>13. \A q \in Replicas :
          \/ channel'[q] = channel[q]
          \/ channel'[q] = Append(channel[q], e) /\ e \in Waiting(p) /\ Ahead({e}, Waiting(p)', resent')
  BY <1>3, <1>4, <1>8, <1>10
<1> QED
  BY <1>4, <1>6, <1>9, <1>11, <1>12, <1>13, BridgeMoved

LEMMA OversizedStep == ASSUME InPipeline, NEW p \in Replicas, Oversized(p) PROVE InPipeline'
<1>1. Typed /\ Bounded /\ Sends(p) /\ Taken(p, Nothing)
  BY DEF InPipeline, Oversized, Sends, Taken, Typed
<1>2. UNCHANGED <<mode, revoked, pub, count, channel, up, history, calls, stream, resent>>
  BY DEF Oversized
<1>3. /\ outbox' \in [Replicas -> Seq(Events)] /\ DOMAIN retry' = Replicas /\ retry' = [q \in Replicas |-> retry'[q]]
      /\ \A h \in Replicas : retry'[h] # Nothing => retry'[h] \in Events
      /\ \A h \in Replicas : Len(outbox'[h]) <= OutboxSize
  BY <1>1, SenderLeaves
<1>4. /\ \A h \in Replicas : Waiting(h)' \subseteq Waiting(h) /\ InOrder(outbox'[h], resent)
      /\ \A h \in Replicas : retry'[h] # Nothing => Ahead({retry'[h]}, Range(outbox'[h]), resent)
  BY <1>1, SenderLeaves
<1>5. Typed'
  BY <1>1, <1>2, <1>3 DEF Typed, Issued
<1>6. Bounded'
  BY <1>1, <1>2, <1>3 DEF Bounded
<1> QED
  BY <1>2, <1>4, <1>5, <1>6, BridgeMoved

LEMMA ConnectionSteps ==
    ASSUME InPipeline, NEW p \in Replicas, LoseConnection(p) \/ Reconnect(p)
    PROVE  InPipeline'
<1>1. Typed /\ Bounded /\ BridgeInOrder
  BY DEF InPipeline
<1>2. UNCHANGED <<mode, revoked, pub, count, outbox, retry, history, calls, stream, resent>>
  BY DEF LoseConnection, Reconnect
<1>3. /\ channel' \in [Replicas -> Seq(Events)] /\ up' \in [Replicas -> BOOLEAN]
      /\ \A q \in Replicas : channel'[q] = channel[q] \/ channel'[q] = <<>>
  <2>1. <<>> \in Seq(Events)
    BY EmptyOrder
  <2>2. CASE LoseConnection(p)
    <3>1. /\ channel' = [channel EXCEPT ![p] = <<>>] /\ up' = [up EXCEPT ![p] = FALSE]
          /\ channel \in [Replicas -> Seq(Events)] /\ up \in [Replicas -> BOOLEAN]
      BY <1>1, <2>2 DEF LoseConnection, Typed
    <3> QED
      BY <2>1, <3>1
  <2>3. CASE Reconnect(p)
    BY <1>1, <2>3 DEF Reconnect, Typed
  <2> QED
    BY <2>2, <2>3
<1>4. Typed'
  BY <1>1, <1>2, <1>3 DEF Typed, Issued
<1>5. Bounded'
  BY <1>1, <1>2 DEF Bounded
<1>6. /\ \A h \in Replicas : Waiting(h)' \subseteq Waiting(h) /\ InOrder(outbox'[h], resent)
      /\ \A h \in Replicas : retry'[h] # Nothing => Ahead({retry'[h]}, Range(outbox'[h]), resent)
  BY <1>1, <1>2 DEF Waiting, BridgeInOrder
<1> QED
  BY <1>2, <1>3, <1>4, <1>5, <1>6, BridgeMoved

\* The listener hands on the oldest notification, unless its own replica sent it.
LEMMA ListenStep == ASSUME InPipeline, NEW p \in Replicas, Listen(p) PROVE InPipeline'
<1>1. Typed /\ Bounded /\ BridgeInOrder /\ CallsInOrder /\ channel[p] \in Seq(Events) /\ channel[p] # <<>>
  BY DEF InPipeline, Typed, Listen
<1>2. PICK e : e = Head(channel[p])
  OBVIOUS
<1>3. /\ e \in Range(channel[p]) /\ e \in Events /\ Tail(channel[p]) \in Seq(Events)
      /\ Range(Tail(channel[p])) \subseteq Range(channel[p])
  BY <1>1, <1>2, TakenMembers
<1>4. InOrder(Tail(channel[p]), resent) /\ Ahead({e}, Range(Tail(channel[p])), resent)
  BY <1>1, <1>2, TakenOrder DEF BridgeInOrder
<1>5. /\ channel' = [channel EXCEPT ![p] = Tail(@)]
      /\ UNCHANGED <<mode, revoked, pub, count, outbox, retry, up, stream, resent>>
  BY DEF Listen
<1>6. \/ UNCHANGED <<history, calls>>
      \/ /\ Home[e.by] # p /\ history' = [history EXCEPT ![p] = Recorded(@, e)]
         /\ calls' = [calls EXCEPT ![p] = Append(@, e)]
  BY <1>2 DEF Listen, Relays, Relay
<1>7. \A q \in Replicas : channel'[q] = IF q = p THEN Tail(channel[p]) ELSE channel[q]
  BY <1>1, <1>5 DEF Typed
<1>8. \A h \in Replicas : Waiting(h)' = Waiting(h)
  BY <1>5 DEF Waiting
<1>9. \A q \in Replicas : Coming(q)' \subseteq Coming(q)
  BY <1>3, <1>5, <1>7, <1>8 DEF Coming, Comes
<1>10. Issued(e) /\ \A x : Issued(x)' <=> Issued(x)
  BY <1>1, <1>3, <1>5 DEF BridgeInOrder, Issued
<1>11. BridgeInOrder'
  <2>1. \A q \in Replicas : InOrder(channel'[q], resent) /\ Range(channel'[q]) \subseteq Range(channel[q])
    BY <1>1, <1>3, <1>4, <1>7 DEF BridgeInOrder
  <2>2. \A q, h \in Replicas : Ahead(Range(channel'[q]), Waiting(h), resent)
    BY <1>1, <2>1 DEF BridgeInOrder, Ahead
  <2>3. \A h \in Replicas : \A x \in Waiting(h)' : Issued(x)' /\ Home[x.by] = h
    BY <1>1, <1>8, <1>10 DEF BridgeInOrder
  <2>4. \A h \in Replicas : \A x \in Range(channel'[h]) : Issued(x)'
    BY <1>1, <1>10, <2>1 DEF BridgeInOrder
  <2>5. \A h \in Replicas : InOrder(outbox[h], resent) /\ (retry[h] # Nothing => Ahead({retry[h]}, Range(outbox[h]), resent))
    BY <1>1 DEF BridgeInOrder
  <2> QED
    BY <1>5, <1>8, <2>1, <2>2, <2>3, <2>4, <2>5 DEF BridgeInOrder
<1>12. CASE UNCHANGED <<history, calls>>
  <2>1. Typed'
    BY <1>1, <1>3, <1>5, <1>12 DEF Typed, Issued
  <2>2. Bounded'
    BY <1>1, <1>5, <1>12 DEF Bounded
  <2>3. CallsInOrder'
    BY <1>1, <1>5, <1>9, <1>10, <1>12 DEF CallsInOrder, Ahead
  <2>4. \A s \in Streams : StreamInOrder(s)'
    <3>1. \A q \in Replicas : Upstream(q)' \subseteq Upstream(q)
      BY <1>9, <1>12 DEF Upstream
    <3> QED
      BY <1>5, <3>1, UpstreamShrinks
  <2> QED
    BY <1>11, <2>1, <2>2, <2>3, <2>4 DEF InPipeline
<1>13. CASE /\ Home[e.by] # p /\ history' = [history EXCEPT ![p] = Recorded(@, e)]
            /\ calls' = [calls EXCEPT ![p] = Append(@, e)]
  <2>1. calls[p] \in Seq(Events) /\ Append(calls[p], e) \in Seq(Events)
        /\ Range(Append(calls[p], e)) = Range(calls[p]) \cup {e}
    BY <1>1, <1>3, AppendedMembers DEF Typed
  <2>2. Recorded(history[p], e) \in Seq(Events) /\ Len(Recorded(history[p], e)) <= HistorySize
    BY <1>1, <1>3, RecordedLog DEF Typed, Bounded
  <2>3. e \in Coming(p)
    BY <1>3, <1>13 DEF Coming, Comes
  <2>4. \A q \in Replicas : calls'[q] = IF q = p THEN Append(calls[p], e) ELSE calls[q]
    BY <1>1, <1>13 DEF Typed
  <2>5. Typed'
    <3>1. calls' \in [Replicas -> Seq(Events)] /\ history' \in [Replicas -> Seq(Events)]
      BY <1>1, <1>13, <2>1, <2>2 DEF Typed
    <3>2. channel' \in [Replicas -> Seq(Events)]
      BY <1>1, <1>3, <1>5 DEF Typed
    <3> QED
      BY <1>1, <1>5, <3>1, <3>2 DEF Typed, Issued
  <2>6. Bounded'
    BY <1>1, <1>5, <1>13, <2>2 DEF Bounded, Typed
  <2>7. Ahead({e}, Coming(p)', resent)
    <3> SUFFICES ASSUME NEW y \in Coming(p)' PROVE Earlier(e, y, resent)
      BY DEF Ahead
    <3>1. \/ y \in Range(channel'[p])
          \/ \E h \in Replicas : y \in Waiting(h)
          \/ \E u \in Publishers : Home[u] = p /\ pub[u] # Nothing /\ y = pub[u]
      BY <1>5, <1>8 DEF Coming, Comes
    <3>2. CASE y \in Range(channel'[p])
      BY <3>2, <1>4, <1>7 DEF Ahead
    <3>3. CASE \E h \in Replicas : y \in Waiting(h)
      BY <3>3, <1>1, <1>3 DEF BridgeInOrder, Ahead
    <3>4. CASE \E u \in Publishers : Home[u] = p /\ pub[u] # Nothing /\ y = pub[u]
      BY <3>4, <1>1, <1>13 DEF Typed, Earlier
    <3> QED
      BY <3>1, <3>2, <3>3, <3>4
  <2>8. CallsInOrder'
    <3>1. InOrder(Append(calls[p], e), resent)
      <4>1. InOrder(calls[p], resent) /\ Ahead(Range(calls[p]), {e}, resent)
        BY <1>1, <2>3 DEF CallsInOrder, Ahead
      <4> QED
        BY <4>1, <2>1, <1>3, AppendedOrder
    <3>2. Ahead(Range(calls[p]) \cup {e}, Coming(p)', resent)
      BY <1>1, <1>9, <2>7 DEF CallsInOrder, Ahead
    <3>3. \A q \in Replicas \ {p} : Ahead(Range(calls[q]), Coming(q)', resent)
      BY <1>1, <1>9 DEF CallsInOrder, Ahead
    <3>4. \A q \in Replicas : Ahead(Range(calls'[q]), Coming(q)', resent)
      BY <2>1, <2>4, <3>2, <3>3
    <3>5. \A q \in Replicas : InOrder(calls'[q], resent) /\ \A x \in Range(calls'[q]) : Issued(x)
      BY <1>1, <1>10, <2>1, <2>4, <3>1 DEF CallsInOrder
    <3> QED
      BY <1>5, <1>10, <3>4, <3>5 DEF CallsInOrder
  <2>9. \A s \in Streams : StreamInOrder(s)'
    <3>1. \A q \in Replicas : Upstream(q)' \subseteq Upstream(q)
      BY <1>9, <2>1, <2>3, <2>4 DEF Upstream
    <3> QED
      BY <1>5, <3>1, UpstreamShrinks
  <2> QED
    BY <1>11, <2>5, <2>6, <2>8, <2>9 DEF InPipeline
<1> QED
  BY <1>6, <1>12, <1>13

\* A replica's memory is gone: what is left of the pipeline is in order as it was.
LEMMA RestartStep == ASSUME InPipeline, NEW p \in Replicas, Restart(p) PROVE InPipeline'
<1> USE LiveEventsAssumption
<1>1. Typed /\ Bounded /\ BridgeInOrder /\ CallsInOrder
  BY DEF InPipeline
<1>2. <<>> \in Seq(Events) /\ Range(<<>>) = {} /\ Len(<<>>) = 0 /\ \A again : InOrder(<<>>, again)
  BY EmptyOrder
<1>3. UNCHANGED <<mode, revoked, count, resent>>
  BY DEF Restart
<1>4. \A h \in Replicas :
         /\ outbox'[h] = (IF h = p THEN <<>> ELSE outbox[h]) /\ retry'[h] = (IF h = p THEN Nothing ELSE retry[h])
         /\ channel'[h] = (IF h = p THEN <<>> ELSE channel[h]) /\ history'[h] = (IF h = p THEN <<>> ELSE history[h])
         /\ calls'[h] = (IF h = p THEN <<>> ELSE calls[h])
  BY <1>1 DEF Restart, Typed
<1>5. pub' = [t \in Publishers |-> IF Home[t] = p THEN Nothing ELSE pub[t]]
  BY DEF Restart
<1>6. ASSUME NEW s \in Streams
      PROVE  /\ stream'[s].on = stream[s].on /\ stream'[s].live = stream[s].live
             /\ stream'[s].queue = stream[s].queue \/ stream'[s].queue = <<>>
             /\ Proper(stream'[s])
  <2>1. Proper(stream[s])
    BY <1>1 DEF Typed
  <2>2. CASE stream[s].on = p
    <3>1. stream'[s] = [stream[s] EXCEPT !.phase = "ended", !.queue = <<>>]
      BY <2>2 DEF Restart
    <3>2. stream[s].on \in Replicas
      BY <2>2
    <3> QED
      BY <2>1, <3>1, <3>2, <1>2 DEF Proper, Shape
  <2>3. CASE stream[s].on # p
    <3>1. stream'[s] = stream[s]
      BY <2>3 DEF Restart
    <3> QED
      BY <2>1, <3>1
  <2> QED
    BY <2>2, <2>3
<1>7. Typed'
  <2>1. /\ outbox' \in [Replicas -> Seq(Events)] /\ channel' \in [Replicas -> Seq(Events)]
        /\ history' \in [Replicas -> Seq(Events)] /\ calls' \in [Replicas -> Seq(Events)]
    BY <1>1, <1>2 DEF Restart, Typed
  <2>2. DOMAIN retry' = Replicas /\ retry' = [q \in Replicas |-> retry'[q]] /\ up' \in [Replicas -> BOOLEAN]
    BY <1>1 DEF Restart, Typed
  <2>3. stream' = [s \in Streams |-> stream'[s]]
    BY DEF Restart
  <2>4. \A t \in Publishers : pub'[t] # Nothing => Issued(pub[t])' /\ pub'[t].by = t
    BY <1>1, <1>3, <1>5 DEF Typed, Issued
  <2>5. \A q \in Replicas : retry'[q] # Nothing => retry'[q] \in Events
    BY <1>1, <1>4 DEF Typed
  <2> QED
    BY <1>1, <1>3, <1>5, <1>6, <2>1, <2>2, <2>3, <2>4, <2>5 DEF Typed
<1>8. Bounded'
  BY <1>1, <1>2, <1>4, <1>6 DEF Bounded
<1>9. \A h \in Replicas : /\ Waiting(h)' \subseteq Waiting(h)
                          /\ Range(channel'[h]) \subseteq Range(channel[h])
                          /\ Range(calls'[h]) \subseteq Range(calls[h])
  BY <1>2, <1>4 DEF Waiting
<1>10. \A q \in Replicas : Coming(q)' \subseteq Coming(q)
  BY <1>5, <1>9 DEF Coming, Comes
<1>11. \A x : Issued(x)' <=> Issued(x)
  BY <1>3 DEF Issued
<1>12. BridgeInOrder'
  <2>1. \A h \in Replicas : InOrder(outbox'[h], resent) /\ InOrder(channel'[h], resent)
    <3>1. \A h \in Replicas : InOrder(outbox[h], resent) /\ InOrder(channel[h], resent)
      BY <1>1 DEF BridgeInOrder
    <3> QED
      BY <1>2, <1>4, <3>1
  <2>2. \A h \in Replicas : retry'[h] # Nothing => Ahead({retry'[h]}, Range(outbox'[h]), resent)
    BY <1>1, <1>4 DEF BridgeInOrder
  <2>3. \A q, h \in Replicas : Ahead(Range(channel'[q]), Waiting(h)', resent)
    BY <1>1, <1>9 DEF BridgeInOrder, Ahead
  <2> QED
    BY <1>1, <1>3, <1>9, <1>11, <2>1, <2>2, <2>3 DEF BridgeInOrder
<1>13. CallsInOrder'
  <2>1. \A q \in Replicas : InOrder(calls'[q], resent)
    BY <1>1, <1>2, <1>4 DEF CallsInOrder
  <2> QED
    BY <1>1, <1>3, <1>9, <1>10, <1>11, <2>1 DEF CallsInOrder, Ahead
<1>14. ASSUME NEW s \in Streams PROVE StreamInOrder(s)'
  <2>1. StreamInOrder(s)
    BY DEF InPipeline
  <2>2. \A q \in Replicas : Upstream(q)' \subseteq Upstream(q)
    BY <1>9, <1>10 DEF Upstream
  <2>3. InOrder(stream'[s].queue, resent) /\ Range(stream'[s].queue) \subseteq Range(stream[s].queue)
    BY <2>1, <1>2, <1>6 DEF StreamInOrder
  <2>4. stream[s].on \in Replicas =>
           Ahead(Range(stream[s].live) \cup Range(stream'[s].queue), Upstream(stream[s].on)', resent)
    BY <2>1, <2>2, <2>3, <1>6 DEF StreamInOrder, Ahead
  <2>5. Ahead(Range(stream[s].live), Range(stream'[s].queue), resent)
    BY <2>1, <2>3 DEF StreamInOrder, Ahead
  <2> QED
    BY <2>1, <2>3, <2>4, <2>5, <1>3, <1>6, <1>11 DEF StreamInOrder
<1> QED
  BY <1>7, <1>8, <1>12, <1>13, <1>14 DEF InPipeline

-----------------------------------------------------------------------------
(* The theorems.                                                           *)

LEMMA PipelineInductive == InPipeline /\ [EventsNext]_eventVars => InPipeline'
<1> SUFFICES ASSUME InPipeline, [EventsNext]_eventVars PROVE InPipeline'
  OBVIOUS
<1>1. CASE \E t \in Publishers : Record(t) \/ \E tenant \in Tenants : Forward(t, tenant)
  BY <1>1, RecordStep, ForwardStep
<1>2. CASE \E p \in Replicas : Deliver(p) \/ Listen(p) \/ Restart(p)
  BY <1>2, DeliverStep, ListenStep, RestartStep
<1>3. CASE \E p \in Replicas : Notify(p) \/ NotifyFails(p) \/ Oversized(p)
  BY <1>3, NotifyStep, OversizedStep
<1>4. CASE \E p \in Replicas : LoseConnection(p) \/ Reconnect(p)
  BY <1>4, ConnectionSteps
<1>5. CASE \E s \in Streams : Yield(s)
  BY <1>5, YieldStep
<1>6. CASE \E s \in Streams : \/ Ticket(s) \/ Begin(s) \/ Heartbeat(s) \/ Leave(s)
                              \/ \E p \in Serving : Subscribe(s, p)
  BY <1>6, StreamSteps
<1>7. CASE Revoke \/ SwitchMode \/ UNCHANGED eventVars
  BY <1>7, SettingSteps
<1> QED
  BY <1>1, <1>2, <1>3, <1>4, <1>5, <1>6, <1>7 DEF EventsNext

LEMMA Pipeline == EventsSpec => []InPipeline
BY InitPipeline, PipelineInductive, PTL DEF EventsSpec

\* The outboxes, the histories and the streams' queues keep their bounds
\* (EventsTypeOK), on every replica and through every fault.
THEOREM EventsTypeCorrect == EventsSpec => []EventsTypeOK
<1>1. InPipeline => EventsTypeOK
  <2> SUFFICES ASSUME InPipeline PROVE EventsTypeOK
    OBVIOUS
  <2>1. Typed /\ Bounded
    BY DEF InPipeline
  <2>2. \A p \in Replicas : Range(outbox[p]) \subseteq Events /\ Range(channel[p]) \subseteq Events
    BY <2>1, RangeMembers DEF Typed
  <2>3. \A p \in Replicas : Range(history[p]) \subseteq Events /\ Range(calls[p]) \subseteq Events
    BY <2>1, RangeMembers DEF Typed
  <2>4. {revoked} \cup {up[p] : p \in Replicas} \subseteq BOOLEAN
    BY <2>1 DEF Typed
  <2> QED
    BY <2>1, <2>2, <2>3, <2>4 DEF Typed, Bounded, Proper, EventsTypeOK
<1> QED
  BY <1>1, Pipeline, PTL

\* Every stream receives what a thread publishes once and in order, and twice
\* only what was notified twice (OnceInOrder).
THEOREM DeliveredOnceInOrder == EventsSpec => []OnceInOrder
<1>1. InPipeline => OnceInOrder
  <2> SUFFICES ASSUME InPipeline, NEW s \in Streams, NEW i \in DOMAIN (stream[s].live \o stream[s].queue),
                      NEW j \in DOMAIN (stream[s].live \o stream[s].queue), i < j
               PROVE  Earlier((stream[s].live \o stream[s].queue)[i], (stream[s].live \o stream[s].queue)[j], resent)
    BY DEF OnceInOrder, Earlier
  <2> DEFINE sent == stream[s].live
             held == stream[s].queue
  <2>1. sent \in Seq(Events) /\ held \in Seq(Events)
    BY DEF InPipeline, Typed, Proper
  <2>2. InOrder(sent, resent) /\ InOrder(held, resent) /\ Ahead(Range(sent), Range(held), resent)
    BY DEF InPipeline, StreamInOrder
  <2>3. /\ Len(sent) \in Nat /\ Len(held) \in Nat
        /\ i \in 1..(Len(sent) + Len(held)) /\ j \in 1..(Len(sent) + Len(held))
    <3>1. sent \o held \in Seq(Events) /\ Len(sent \o held) = Len(sent) + Len(held)
      BY <2>1, ConcatProperties
    <3>2. DOMAIN (sent \o held) = 1..(Len(sent) + Len(held))
      BY <3>1, LenProperties
    <3>3. Len(sent) \in Nat /\ Len(held) \in Nat
      BY <2>1, LenProperties
    <3> QED
      BY <3>2, <3>3
  <2>4. \A k \in 1..(Len(sent) + Len(held)) :
           (sent \o held)[k] = IF k <= Len(sent) THEN sent[k] ELSE held[k - Len(sent)]
    BY <2>1, ConcatProperties
  <2> HIDE DEF sent, held
  <2>5. CASE j <= Len(sent)
    <3>1. i \in 1..Len(sent) /\ j \in 1..Len(sent)
      BY <2>3, <2>5
    <3>2. Earlier(sent[i], sent[j], resent)
      BY <2>2, <3>1 DEF InOrder
    <3>3. (sent \o held)[i] = sent[i] /\ (sent \o held)[j] = sent[j]
      BY <2>3, <2>4, <3>1
    <3> QED
      BY <3>2, <3>3 DEF sent, held
  <2>6. CASE i <= Len(sent) /\ ~(j <= Len(sent))
    <3>1. i \in 1..Len(sent) /\ j - Len(sent) \in 1..Len(held)
      BY <2>3, <2>6
    <3>2. sent[i] \in Range(sent) /\ held[j - Len(sent)] \in Range(held)
      BY <2>1, <3>1, RangeMembers
    <3> QED
      BY <2>2, <2>3, <2>4, <2>6, <3>2 DEF Ahead, sent, held
  <2>7. CASE ~(i <= Len(sent))
    <3>1. i - Len(sent) \in 1..Len(held) /\ j - Len(sent) \in 1..Len(held) /\ i - Len(sent) < j - Len(sent)
          /\ ~(j <= Len(sent))
      BY <2>3, <2>7
    <3>2. Earlier(held[i - Len(sent)], held[j - Len(sent)], resent)
      BY <2>2, <3>1 DEF InOrder
    <3>3. (sent \o held)[i] = held[i - Len(sent)] /\ (sent \o held)[j] = held[j - Len(sent)]
      BY <2>3, <2>4, <2>7, <3>1
    <3> QED
      BY <3>2, <3>3 DEF sent, held
  <2> QED
    BY <2>3, <2>5, <2>6, <2>7
<1> QED
  BY <1>1, Pipeline, PTL
=============================================================================
