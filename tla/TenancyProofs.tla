--------------------------- MODULE TenancyProofs ----------------------------
(***************************************************************************)
(* Proofs about Tenancy: the two columns that say whether a tenant         *)
(* operates agree (StatusKept), the customer's policy stands against the   *)
(* provider's edits (PolicyKept), and the rights in a customer's tenant    *)
(* do not grow (RightsKept).                                               *)
(*                                                                         *)
(* A step decides (a handler up to its commit), commits, or ends a request *)
(* or something held for a time.  What a decision may hold is the          *)
(* invariant Job, and what a commit makes of it is the other invariants.   *)
(***************************************************************************)
EXTENDS Tenancy, TLAPS

-----------------------------------------------------------------------------
(* Types.                                                                  *)

Assigned == RoleNames \ AdminRoles

\* What an edit of a tenant's row does to the status and to the settings.
EditJob(q) ==
    /\ q.t \in Tenants /\ q.seen \in Row /\ q.new \in Row /\ q.by \in {"provider", "customer"}
    /\ \/ q.new.status = q.seen.status /\ q.new.active = q.seen.active
       \/ q.new.active = Operating(q.new.status)
    /\ q.by = "provider" =>
          /\ q.new.settings.deleg = q.seen.settings.deleg
          /\ \/ q.new.settings.mfa \in {q.seen.settings.mfa, "provider"}
             \/ q.new.settings.mfa = "no" /\ q.seen.settings.mfa # "customer"
    /\ q.by = "customer" =>
          /\ q.t = Customer
          /\ q.new.settings.mfa \in {q.seen.settings.mfa, "no", "customer"}
    /\ q.new.settings.deleg.dflt \in {q.seen.settings.deleg.dflt} \cup Assigned

OnboardJob(q) ==
    /\ q.t \in Tenants /\ q.new \in Row
    /\ q.new.settings = NewSettings /\ q.new.active = Operating(q.new.status)

GrantJob(q) ==
    q.new \in [state : {"active"}, user : DOMAIN Staff, role : Assigned]

AssignJob(q) ==
    q.user \in Users /\ q.name \in RoleNames

Job(q) ==
    \/ q.kind = "edit" /\ EditJob(q)
    \/ q.kind = "onboard" /\ OnboardJob(q)
    \/ q.kind = "purge" /\ q.t \in Tenants
    \/ q.kind = "grant" /\ GrantJob(q)
    \/ q.kind = "ungrant"
    \/ q.kind = "role" /\ q.perms \in CustomSets
    \/ q.kind \in {"assign", "unassign"} /\ AssignJob(q)

Grants == [state : {"none", "active", "ended"}, user : DOMAIN Staff \cup {None},
           role : RoleNames \cup {None}]

TypeInv ==
    /\ TypeOK /\ grant \in Grants
    /\ DOMAIN tenant = Tenants /\ DOMAIN role = RoleNames /\ DOMAIN req = Requests
    /\ \A r \in Requests : req[r] = Idle \/ Job(req[r])

\* What q was decided on: the row as it stands, and the rights of who asked.
Founded(q) ==
    /\ q.kind = "edit" => Live(q.t) /\ q.seen = tenant[q.t]
    /\ q.kind = "role" => q.gift \in Gifts(q.perms)
    /\ q.kind = "assign" => q.gift \in Gifts(role[q.name])

\* A step of a handler up to its commit.
Begins(r, q) ==
    /\ req[r] = Idle /\ Job(q) /\ Founded(q)
    /\ req' = [req EXCEPT ![r] = q] /\ started' \in Budgets
    /\ UNCHANGED <<tenant, role, holds, grant, history>>

LEMMA Names ==
    /\ Customer \in Tenants /\ Reseller \in Tenants /\ Reseller # Customer /\ Root \notin Tenants
    /\ None # Gone /\ \A row \in Row : row \notin {None, Gone}
    /\ {"soc_manager", "tenant_admin", "customer_admin"} \subseteq DOMAIN Builtin
    /\ RoleNames = DOMAIN Builtin \cup {Custom} /\ Custom \notin DOMAIN Builtin
BY TenancyAssumption DEF TenancyAssumption, RoleNames

LEMMA SocManager == "soc_manager" \in Assigned /\ Custom \in Assigned
BY Names DEF Assigned, AdminRoles, Custom

LEMMA NewSettingsTyped == NewSettings \in Settings
BY Names, SocManager DEF NewSettings, Settings, Delegation, OpenPolicy, Assigned

LEMMA LiveRow ==
    ASSUME TypeInv, NEW t \in Tenants, Live(t)
    PROVE  tenant[t] \in Row
BY DEF TypeInv, TypeOK

LEMMA RowParts ==
    ASSUME NEW row \in Row
    PROVE  /\ row.status \in Statuses /\ row.active \in BOOLEAN /\ row.settings \in Settings
           /\ row.settings.deleg \in Delegation /\ row.settings.mfa \in {"no", "provider", "customer"}
           /\ row.settings.features \in BOOLEAN /\ row.settings.deleg.dflt \in RoleNames
<1>1. row.status \in Statuses /\ row.active \in BOOLEAN /\ row.settings \in Settings  BY DEF Row
<1>2. row.settings.deleg \in Delegation /\ row.settings.mfa \in {"no", "provider", "customer"}
      /\ row.settings.features \in BOOLEAN
      BY <1>1 DEF Settings
<1> QED  BY <1>1, <1>2 DEF Delegation

-----------------------------------------------------------------------------
(* Decisions.                                                              *)

LEMMA MfaRow ==
    ASSUME NEW row \in Row, NEW m \in {"no", "provider", "customer"}
    PROVE  LET new == [row EXCEPT !.settings.mfa = m] IN
           /\ new \in Row /\ new.status = row.status /\ new.active = row.active
           /\ new.settings.deleg = row.settings.deleg /\ new.settings.mfa = m
<1> DEFINE s == [row.settings EXCEPT !.mfa = m]
<1>1. row.settings \in Settings  BY RowParts
<1>2. s \in Settings /\ s.deleg = row.settings.deleg /\ s.mfa = m  BY <1>1 DEF Settings
<1>3. [row EXCEPT !.settings.mfa = m] = [row EXCEPT !.settings = s]  OBVIOUS
<1> HIDE DEF s
<1>4. LET new == [row EXCEPT !.settings = s] IN
         new \in Row /\ new.status = row.status /\ new.active = row.active /\ new.settings = s
      BY <1>2 DEF Row
<1> QED  BY <1>2, <1>3, <1>4

LEMMA DelegRow ==
    ASSUME NEW row \in Row, NEW d \in Delegation
    PROVE  LET new == [row EXCEPT !.settings.deleg = d] IN
           /\ new \in Row /\ new.status = row.status /\ new.active = row.active
           /\ new.settings.deleg = d /\ new.settings.mfa = row.settings.mfa
<1> DEFINE s == [row.settings EXCEPT !.deleg = d]
<1>1. row.settings \in Settings  BY RowParts
<1>2. s \in Settings /\ s.deleg = d /\ s.mfa = row.settings.mfa  BY <1>1 DEF Settings
<1>3. [row EXCEPT !.settings.deleg = d] = [row EXCEPT !.settings = s]  OBVIOUS
<1> HIDE DEF s
<1>4. LET new == [row EXCEPT !.settings = s] IN
         new \in Row /\ new.status = row.status /\ new.active = row.active /\ new.settings = s
      BY <1>2 DEF Row
<1> QED  BY <1>2, <1>3, <1>4

LEMMA FeaturesRow ==
    ASSUME NEW row \in Row
    PROVE  LET new == WithFeatures(row) IN
           /\ new \in Row /\ new.status = row.status /\ new.active = row.active
           /\ new.settings.deleg = row.settings.deleg /\ new.settings.mfa = row.settings.mfa
<1> DEFINE s == [row.settings EXCEPT !.features = ~row.settings.features]
<1>1. row.settings \in Settings  BY RowParts
<1>2. s \in Settings /\ s.deleg = row.settings.deleg /\ s.mfa = row.settings.mfa  BY <1>1 DEF Settings
<1>3. WithFeatures(row) = [row EXCEPT !.settings = s]  BY DEF WithFeatures
<1> HIDE DEF s
<1>4. LET new == [row EXCEPT !.settings = s] IN
         new \in Row /\ new.status = row.status /\ new.active = row.active /\ new.settings = s
      BY <1>2 DEF Row
<1> QED  BY <1>2, <1>3, <1>4

LEMMA StatusRow ==
    ASSUME NEW row \in Row, NEW s \in Statuses
    PROVE  LET new == WithStatus(row, s) IN
           /\ new \in Row /\ new.active = Operating(new.status) /\ new.settings = row.settings
<1>1. Operating(s) \in BOOLEAN  BY DEF Operating
<1> QED  BY <1>1 DEF Row, WithStatus

LEMMA DecideBegins ==
    ASSUME NEW r, NEW area, NEW q, Job(q), Founded(q), Decide(r, area, q)
    PROVE  Begins(r, q)
BY DEF Begins, Decide

LEMMA EditBegins ==
    ASSUME TypeInv, NEW r, NEW t \in Tenants, Live(t), NEW new \in Row,
           NEW by \in {"provider", "customer"}, Edit(r, t, new, by),
           \/ new.status = tenant[t].status /\ new.active = tenant[t].active
           \/ new.active = Operating(new.status),
           by = "provider" =>
              /\ new.settings.deleg = tenant[t].settings.deleg
              /\ \/ new.settings.mfa \in {tenant[t].settings.mfa, "provider"}
                 \/ new.settings.mfa = "no" /\ tenant[t].settings.mfa # "customer",
           by = "customer" =>
              t = Customer /\ new.settings.mfa \in {tenant[t].settings.mfa, "no", "customer"},
           new.settings.deleg.dflt \in {tenant[t].settings.deleg.dflt} \cup Assigned
    PROVE  \E q : Begins(r, q)
<1> DEFINE q == [kind |-> "edit", t |-> t, seen |-> tenant[t], new |-> new, by |-> by]
<1>1. tenant[t] \in Row  BY LiveRow
<1>2. EditJob(q)  BY <1>1 DEF EditJob
<1>3. Job(q) /\ Founded(q)  BY <1>2 DEF Job, Founded
<1> QED  BY <1>3, DecideBegins DEF Edit

LEMMA PatchBegins ==
    ASSUME TypeInv, NEW r, PatchTenant(r)
    PROVE  \E q : Begins(r, q)
<1>1. PICK t \in Managed("mssp:onboard") :
        \/ \E s \in Statuses : Edit(r, t, WithStatus(tenant[t], s), "provider")
        \/ Edit(r, t, WithFeatures(tenant[t]), "provider")
        \/ Edit(r, t, [tenant[t] EXCEPT !.settings.mfa = "provider"], "provider")
        \/ /\ MayLift(tenant[t], "provider")
           /\ Edit(r, t, [tenant[t] EXCEPT !.settings.mfa = "no"], "provider")
      BY DEF PatchTenant
<1>2. t \in Tenants /\ Live(t)  BY DEF Managed, Manages
<1>3. tenant[t] \in Row  BY <1>2, LiveRow
<1>4. CASE \E s \in Statuses : Edit(r, t, WithStatus(tenant[t], s), "provider")
  <2>1. PICK s \in Statuses : Edit(r, t, WithStatus(tenant[t], s), "provider")  BY <1>4
  <2> DEFINE new == WithStatus(tenant[t], s)
  <2>2. new \in Row /\ new.active = Operating(new.status) /\ new.settings = tenant[t].settings
        BY <1>3, StatusRow
  <2>3. Edit(r, t, new, "provider")  BY <2>1
  <2> HIDE DEF new
  <2> QED  BY <1>2, <2>2, <2>3, EditBegins
<1>5. CASE Edit(r, t, WithFeatures(tenant[t]), "provider")
  <2> DEFINE new == WithFeatures(tenant[t])
  <2>1. /\ new \in Row /\ new.status = tenant[t].status /\ new.active = tenant[t].active
        /\ new.settings.deleg = tenant[t].settings.deleg
        /\ new.settings.mfa = tenant[t].settings.mfa
        BY <1>3, FeaturesRow
  <2>2. Edit(r, t, new, "provider")  BY <1>5
  <2> HIDE DEF new
  <2> QED  BY <1>2, <2>1, <2>2, EditBegins
<1>6. CASE Edit(r, t, [tenant[t] EXCEPT !.settings.mfa = "provider"], "provider")
  <2> DEFINE new == [tenant[t] EXCEPT !.settings.mfa = "provider"]
  <2>1. /\ new \in Row /\ new.status = tenant[t].status /\ new.active = tenant[t].active
        /\ new.settings.deleg = tenant[t].settings.deleg /\ new.settings.mfa = "provider"
        BY <1>3, MfaRow
  <2>2. Edit(r, t, new, "provider")  BY <1>6
  <2> HIDE DEF new
  <2> QED  BY <1>2, <2>1, <2>2, EditBegins
<1>7. CASE /\ MayLift(tenant[t], "provider")
           /\ Edit(r, t, [tenant[t] EXCEPT !.settings.mfa = "no"], "provider")
  <2> DEFINE new == [tenant[t] EXCEPT !.settings.mfa = "no"]
  <2>1. /\ new \in Row /\ new.status = tenant[t].status /\ new.active = tenant[t].active
        /\ new.settings.deleg = tenant[t].settings.deleg /\ new.settings.mfa = "no"
        BY <1>3, MfaRow
  <2>2. Edit(r, t, new, "provider") /\ tenant[t].settings.mfa # "customer"  BY <1>7 DEF MayLift
  <2> HIDE DEF new
  <2> QED  BY <1>2, <2>1, <2>2, EditBegins
<1> QED  BY <1>1, <1>4, <1>5, <1>6, <1>7

LEMMA ActingLive == Acting # {} => Live(Customer)
BY DEF Acting, Resolve

LEMMA ProfileBegins ==
    ASSUME TypeInv, NEW r, SaveProfile(r)
    PROVE  \E q : Begins(r, q)
<1>1. Live(Customer) /\ Customer \in Tenants  BY ActingLive, Names DEF SaveProfile
<1>2. tenant[Customer] \in Row  BY <1>1, LiveRow
<1>3. CASE \E access \in BOOLEAN, n \in {x \in RoleNames \ AdminRoles : role[x] # None} :
              \E allowed \in {{}, {n}} :
                 Edit(r, Customer,
                      [tenant[Customer] EXCEPT !.settings.deleg =
                          [access |-> access, dflt |-> n, allowed |-> allowed]], "customer")
  <2>1. PICK access \in BOOLEAN, n \in Assigned : \E allowed \in {{}, {n}} :
                 Edit(r, Customer,
                      [tenant[Customer] EXCEPT !.settings.deleg =
                          [access |-> access, dflt |-> n, allowed |-> allowed]], "customer")
        BY <1>3 DEF Assigned
  <2>2. PICK allowed \in {{}, {n}} :
                 Edit(r, Customer,
                      [tenant[Customer] EXCEPT !.settings.deleg =
                          [access |-> access, dflt |-> n, allowed |-> allowed]], "customer")
        BY <2>1
  <2> DEFINE d == [access |-> access, dflt |-> n, allowed |-> allowed]
             new == [tenant[Customer] EXCEPT !.settings.deleg = d]
  <2>3. d \in Delegation /\ d.dflt = n  BY DEF Delegation, Assigned
  <2>4. Edit(r, Customer, new, "customer")  BY <2>2
  <2> HIDE DEF d
  <2>5. /\ new \in Row /\ new.status = tenant[Customer].status
        /\ new.active = tenant[Customer].active
        /\ new.settings.deleg = d /\ new.settings.mfa = tenant[Customer].settings.mfa
        BY <1>2, <2>3, DelegRow
  <2> HIDE DEF new
  <2> QED  BY <1>1, <2>3, <2>4, <2>5, EditBegins
<1>4. CASE \E m \in {"no", "customer"} :
              Edit(r, Customer, [tenant[Customer] EXCEPT !.settings.mfa = m], "customer")
  <2>1. PICK m \in {"no", "customer"} :
              Edit(r, Customer, [tenant[Customer] EXCEPT !.settings.mfa = m], "customer")
        BY <1>4
  <2> DEFINE new == [tenant[Customer] EXCEPT !.settings.mfa = m]
  <2>2. /\ new \in Row /\ new.status = tenant[Customer].status
        /\ new.active = tenant[Customer].active
        /\ new.settings.deleg = tenant[Customer].settings.deleg /\ new.settings.mfa = m
    <3>1. m \in {"no", "provider", "customer"}  OBVIOUS
    <3> QED  BY <1>2, <3>1, MfaRow
  <2>3. Edit(r, Customer, new, "customer")  BY <2>1
  <2> HIDE DEF new
  <2> QED  BY <1>1, <2>1, <2>2, <2>3, EditBegins
<1> QED  BY <1>3, <1>4 DEF SaveProfile

LEMMA OnboardBegins ==
    ASSUME TypeInv, NEW r, Onboard(r)
    PROVE  \E q : Begins(r, q)
<1>1. PICK t \in Tenants \ {Reseller}, p \in {Root, Reseller} :
        \E s \in {"onboarding", "active"} :
              Decide(r, "tenants", [kind |-> "onboard", t |-> t,
                         new |-> [parent |-> p, status |-> s, active |-> Operating(s),
                                  settings |-> NewSettings]])
      BY DEF Onboard
<1>2. PICK s \in {"onboarding", "active"} :
              Decide(r, "tenants", [kind |-> "onboard", t |-> t,
                         new |-> [parent |-> p, status |-> s, active |-> Operating(s),
                                  settings |-> NewSettings]])
      BY <1>1
<1> DEFINE new == [parent |-> p, status |-> s, active |-> Operating(s), settings |-> NewSettings]
           q == [kind |-> "onboard", t |-> t, new |-> new]
<1>3. new \in Row /\ new.settings = NewSettings /\ new.active = Operating(new.status)
      BY Names, NewSettingsTyped DEF Row, Statuses, Operating
<1> HIDE DEF new
<1>4. OnboardJob(q)  BY <1>3 DEF OnboardJob
<1>5. Job(q) /\ Founded(q)  BY <1>4 DEF Job, Founded
<1>6. Decide(r, "tenants", q)  BY <1>2 DEF new
<1> QED  BY <1>5, <1>6, DecideBegins

LEMMA HandlerBegins ==
    ASSUME TypeInv, NEW r \in Requests,
           \/ PatchTenant(r) \/ SaveProfile(r) \/ Onboard(r) \/ Offboard(r)
           \/ CreateGrant(r) \/ RevokeGrant(r) \/ SaveRole(r) \/ AssignRole(r) \/ RevokeRole(r)
    PROVE  \E q : Begins(r, q)
<1>1. CASE Offboard(r)
  <2>1. PICK t \in Tenants : Decide(r, "tenants", [kind |-> "purge", t |-> t])
        BY <1>1 DEF Offboard
  <2> DEFINE q == [kind |-> "purge", t |-> t]
  <2>2. Job(q) /\ Founded(q)  BY DEF Job, Founded
  <2> QED  BY <2>1, <2>2, DecideBegins
<1>2. CASE CreateGrant(r)
  <2>1. PICK w \in DOMAIN Staff, n \in Assigned :
           Decide(r, "tenants", [kind |-> "grant",
                      new |-> [state |-> "active", user |-> w, role |-> n]])
        BY <1>2 DEF CreateGrant, Assigned
  <2> DEFINE q == [kind |-> "grant", new |-> [state |-> "active", user |-> w, role |-> n]]
  <2>2. Job(q) /\ Founded(q)  BY DEF Job, GrantJob, Founded
  <2> QED  BY <2>1, <2>2, DecideBegins
<1>3. CASE RevokeGrant(r)
  <2>1. Decide(r, "tenants", [kind |-> "ungrant"])  BY <1>3 DEF RevokeGrant
  <2> DEFINE q == [kind |-> "ungrant"]
  <2>2. Job(q) /\ Founded(q)  BY DEF Job, Founded
  <2> QED  BY <2>1, <2>2, DecideBegins
<1>4. CASE SaveRole(r)
  <2>1. PICK perms \in CustomSets : \E gift \in Gifts(perms) :
           Decide(r, "roles", [kind |-> "role", perms |-> perms, gift |-> gift])
        BY <1>4 DEF SaveRole
  <2>2. PICK gift \in Gifts(perms) :
           Decide(r, "roles", [kind |-> "role", perms |-> perms, gift |-> gift])
        BY <2>1
  <2> DEFINE q == [kind |-> "role", perms |-> perms, gift |-> gift]
  <2>3. Job(q) /\ Founded(q)  BY DEF Job, Founded
  <2> QED  BY <2>2, <2>3, DecideBegins
<1>5. CASE AssignRole(r)
  <2>1. PICK n \in RoleNames : \E gift \in Gifts(role[n]) : \E u \in Users :
           Decide(r, "roles", [kind |-> "assign", user |-> u, name |-> n, gift |-> gift])
        BY <1>5 DEF AssignRole
  <2>2. PICK gift \in Gifts(role[n]), u \in Users :
           Decide(r, "roles", [kind |-> "assign", user |-> u, name |-> n, gift |-> gift])
        BY <2>1
  <2> DEFINE q == [kind |-> "assign", user |-> u, name |-> n, gift |-> gift]
  <2>3. Job(q) /\ Founded(q)  BY DEF Job, AssignJob, Founded
  <2> QED  BY <2>2, <2>3, DecideBegins
<1>6. CASE RevokeRole(r)
  <2>1. PICK n \in RoleNames, u \in Users :
           Decide(r, "roles", [kind |-> "unassign", user |-> u, name |-> n, gift |-> {}])
        BY <1>6 DEF RevokeRole
  <2> DEFINE q == [kind |-> "unassign", user |-> u, name |-> n, gift |-> {}]
  <2>2. Job(q) /\ Founded(q)  BY DEF Job, AssignJob, Founded
  <2> QED  BY <2>1, <2>2, DecideBegins
<1> QED  BY <1>1, <1>2, <1>3, <1>4, <1>5, <1>6, PatchBegins, ProfileBegins, OnboardBegins

-----------------------------------------------------------------------------
(* Steps.                                                                  *)

LEMMA StepForms ==
    ASSUME TypeInv, [Next]_vars
    PROVE  \/ \E r \in Requests : \E q : Begins(r, q)
           \/ \E r \in Requests : Commit(r)
           \/ \E r \in Requests : Fail(r)
           \/ Lapse
           \/ UNCHANGED vars
BY HandlerBegins DEF Next

LEMMA MergedRow ==
    ASSUME NEW now \in Row, NEW seen \in Row, NEW new \in Row
    PROVE  LET m == Merged(now, seen, new) IN
           /\ m \in Row
           /\ m.status = IF new.status # seen.status THEN new.status ELSE now.status
           /\ m.active = IF new.active # seen.active THEN new.active ELSE now.active
           /\ m.settings = IF new.settings # seen.settings THEN new.settings ELSE now.settings
BY DEF Row, Merged, Column

\* A request that a commit finds, by what kind of request it is.
LEMMA CommitForms ==
    ASSUME TypeInv, NEW r \in Requests, Commit(r)
    PROVE  /\ Job(req[r])
           /\ \/ CommitEdit(req[r]) /\ EditJob(req[r])
              \/ CommitOnboard(req[r]) /\ OnboardJob(req[r])
              \/ CommitPurge(req[r]) /\ req[r].t \in Tenants
              \/ CommitGrant(req[r])
              \/ CommitRole(req[r]) /\ req[r].perms \in CustomSets
              \/ CommitAssign(req[r]) /\ AssignJob(req[r])
<1>1. Job(req[r])  BY DEF Commit, TypeInv
<1> QED
  BY <1>1 DEF Commit, Job, CommitEdit, CommitOnboard, CommitPurge, CommitGrant, CommitRole, CommitAssign

\* The tenant's row that a commit writes.
LEMMA EditRow ==
    ASSUME TypeInv, NEW q, EditJob(q), CommitEdit(q)
    PROVE  LET m == Merged(tenant[q.t], q.seen, q.new) IN
           /\ q.t \in Tenants /\ Live(q.t) /\ tenant[q.t] \in Row /\ tenant'[q.t] = m
           /\ m \in Row /\ Live(q.t)'
           /\ m.status = IF q.new.status # q.seen.status THEN q.new.status ELSE tenant[q.t].status
           /\ m.active = IF q.new.active # q.seen.active THEN q.new.active ELSE tenant[q.t].active
           /\ m.settings = IF q.new.settings # q.seen.settings THEN q.new.settings
                           ELSE tenant[q.t].settings
           /\ \A t \in Tenants : t # q.t => tenant'[t] = tenant[t]
           /\ DOMAIN tenant' = Tenants
<1>1. q.t \in Tenants /\ Live(q.t) /\ q.seen \in Row /\ q.new \in Row  BY DEF EditJob, CommitEdit
<1>2. tenant[q.t] \in Row  BY <1>1, LiveRow
<1> DEFINE m == Merged(tenant[q.t], q.seen, q.new)
<1>3. tenant' = [tenant EXCEPT ![q.t] = m] /\ DOMAIN tenant = Tenants
      BY DEF CommitEdit, TypeInv
<1>4. /\ m \in Row
      /\ m.status = IF q.new.status # q.seen.status THEN q.new.status ELSE tenant[q.t].status
      /\ m.active = IF q.new.active # q.seen.active THEN q.new.active ELSE tenant[q.t].active
      /\ m.settings = IF q.new.settings # q.seen.settings THEN q.new.settings
                      ELSE tenant[q.t].settings
      BY <1>1, <1>2, MergedRow
<1> HIDE DEF m
<1>5. tenant'[q.t] = m /\ \A t \in Tenants : t # q.t => tenant'[t] = tenant[t]  BY <1>1, <1>3
<1>6. Live(q.t)'
  <2>1. m \notin {None, Gone}  BY <1>4, Names
  <2>2. tenant'[q.t] \notin {None, Gone} => Live(q.t)'
        BY DEF Live
  <2> QED  BY <1>5, <2>1, <2>2
<1>7. DOMAIN tenant' = Tenants  BY <1>3
<1> QED  BY <1>1, <1>2, <1>4, <1>5, <1>6, <1>7 DEF m

\* The rows a grant refers to are there.
GrantHeld ==
    grant # NoGrant =>
        /\ grant.state \in {"active", "ended"} /\ grant.role \in RoleNames
        /\ grant.user \in DOMAIN Staff /\ Live(Customer)
        /\ Staff[grant.user].home = Reseller => Live(Reseller)

LEMMA TypeInit == Init => TypeInv
<1> SUFFICES ASSUME Init PROVE TypeInv  OBVIOUS
<1>1. PICK p \in {Root, Reseller}, gone \in SUBSET {Customer} :
        tenant = [t \in Tenants |->
                    IF t \in gone THEN None
                    ELSE [parent |-> IF t = Reseller THEN Root ELSE p, status |-> "active",
                          active |-> TRUE, settings |-> NewSettings]]
      BY DEF Init
<1>2. DOMAIN tenant = Tenants  BY <1>1
<1>3. ASSUME NEW t \in Tenants, Live(t) PROVE tenant[t] \in Row
  <2>1. tenant[t] = [parent |-> IF t = Reseller THEN Root ELSE p, status |-> "active",
                     active |-> TRUE, settings |-> NewSettings]
        BY <1>1, <1>3 DEF Live
  <2>2. (IF t = Reseller THEN Root ELSE p) \in {Root} \cup Tenants  BY Names
  <2> QED  BY <2>1, <2>2, NewSettingsTyped DEF Row, Statuses
<1>4. /\ DOMAIN role = RoleNames /\ role[Custom] = None
      /\ holds \in [Users -> SUBSET RoleNames]
      BY Names DEF Init
<1>5. grant = NoGrant /\ grant \in Grants  BY DEF Init, NoGrant, Grants
<1>6. started \in Budgets  BY TenancyAssumption DEF Init, TenancyAssumption
<1>7. DOMAIN req = Requests /\ \A r \in Requests : req[r] = Idle  BY DEF Init
<1> QED  BY <1>2, <1>3, <1>4, <1>5, <1>6, <1>7 DEF TypeInv, TypeOK

LEMMA StaffHomes ==
    ASSUME NEW u \in DOMAIN Staff
    PROVE  Staff[u].home \in {Root, Reseller}
BY TenancyAssumption DEF TenancyAssumption

LEMMA TypeStep == TypeInv /\ [Next]_vars => TypeInv'
<1> SUFFICES ASSUME TypeInv, [Next]_vars PROVE TypeInv'  OBVIOUS
<1>1. /\ \A t \in Tenants : Live(t) => tenant[t] \in Row
      /\ role[Custom] # None => role[Custom] \in SUBSET UNION CustomSets
      /\ holds \in [Users -> SUBSET RoleNames]
      /\ GrantHeld /\ grant \in Grants /\ started \in Budgets
      /\ DOMAIN tenant = Tenants /\ DOMAIN role = RoleNames /\ DOMAIN req = Requests
      /\ \A r \in Requests : req[r] = Idle \/ Job(req[r])
      BY DEF TypeInv, TypeOK, GrantHeld
<1>2. ASSUME NEW r \in Requests, NEW q, Begins(r, q) PROVE TypeInv'
      BY <1>1, <1>2 DEF Begins, TypeInv, TypeOK, GrantHeld, Live
<1>3. ASSUME NEW r \in Requests, Commit(r) PROVE TypeInv'
  <2>1. PICK q : q = req[r]  OBVIOUS
  <2>2. /\ DOMAIN req' = Requests /\ \A x \in Requests : req'[x] = Idle \/ Job(req'[x])
        /\ started' = started
        BY <1>1, <1>3 DEF Commit
  <2>3. CASE CommitEdit(q) /\ EditJob(q)
    <3>1. /\ q.t \in Tenants /\ DOMAIN tenant' = Tenants
          /\ tenant'[q.t] \in Row /\ \A t \in Tenants : t # q.t => tenant'[t] = tenant[t]
          BY <2>3, EditRow
    <3>2. \A t \in Tenants : Live(t) => Live(t)'  BY <3>1, Names DEF Live
    <3>3. UNCHANGED <<role, holds, grant>>  BY <2>3 DEF CommitEdit
    <3>4. \A t \in Tenants : Live(t)' => tenant'[t] \in Row  BY <1>1, <3>1 DEF Live
    <3>5. GrantHeld'  BY <1>1, <3>2, <3>3, Names DEF GrantHeld
    <3> QED  BY <1>1, <2>2, <3>1, <3>3, <3>4, <3>5 DEF TypeInv, TypeOK, GrantHeld
  <2>4. CASE CommitOnboard(q) /\ OnboardJob(q)
    <3>1. /\ q.t \in Tenants /\ DOMAIN tenant' = Tenants /\ tenant[q.t] = None
          /\ tenant'[q.t] \in Row /\ \A t \in Tenants : t # q.t => tenant'[t] = tenant[t]
          BY <1>1, <2>4 DEF CommitOnboard, OnboardJob
    <3>2. \A t \in Tenants : Live(t) => Live(t)'  BY <3>1, Names DEF Live
    <3>3. UNCHANGED <<role, holds, grant>>  BY <2>4 DEF CommitOnboard
    <3>4. \A t \in Tenants : Live(t)' => tenant'[t] \in Row  BY <1>1, <3>1 DEF Live
    <3>5. GrantHeld'  BY <1>1, <3>2, <3>3, Names DEF GrantHeld
    <3> QED  BY <1>1, <2>2, <3>1, <3>3, <3>4, <3>5 DEF TypeInv, TypeOK, GrantHeld
  <2>5. CASE CommitPurge(q) /\ q.t \in Tenants
    <3>1. /\ DOMAIN tenant' = Tenants /\ tenant'[q.t] = Gone
          /\ \A t \in Tenants : t # q.t => tenant'[t] = tenant[t]
          /\ grant' = GrantAfter(q.t) /\ UNCHANGED <<role, holds>>
          BY <1>1, <2>5 DEF CommitPurge
    <3>2. \A t \in Tenants : Live(t)' => tenant'[t] \in Row  BY <1>1, <3>1 DEF Live
    <3>3. grant' \in {NoGrant, grant} /\ NoGrant \in Grants
          BY <3>1 DEF GrantAfter, NoGrant, Grants
    <3>4. GrantHeld'
      <4>1. SUFFICES ASSUME grant' # NoGrant PROVE GrantHeld'  BY DEF GrantHeld
      <4>2. grant' = grant /\ grant # NoGrant /\ q.t \notin {Customer, Staff[grant.user].home}
            BY <3>1, <4>1 DEF GrantAfter
      <4>3. /\ grant.state \in {"active", "ended"} /\ grant.role \in RoleNames
            /\ grant.user \in DOMAIN Staff /\ Live(Customer)
            /\ Staff[grant.user].home = Reseller => Live(Reseller)
            BY <1>1, <4>2 DEF GrantHeld
      <4>4. Live(Customer)' /\ (Staff[grant.user].home = Reseller => Live(Reseller)')
            BY <3>1, <4>2, <4>3, Names DEF Live
      <4> QED  BY <4>2, <4>3, <4>4 DEF GrantHeld
    <3> QED  BY <1>1, <2>2, <3>1, <3>2, <3>3, <3>4 DEF TypeInv, TypeOK, GrantHeld
  <2>6. CASE CommitGrant(q)
    <3>1. UNCHANGED <<tenant, role, holds>> /\ Live(Customer)  BY <2>6 DEF CommitGrant
    <3>2. GrantHeld' /\ grant' \in Grants
      <4>1. CASE q.kind = "grant"
        <5>1. GrantJob(q)  BY <1>1, <1>3, <2>1, <4>1 DEF Commit, Job
        <5>2. /\ grant' = q.new /\ q.new.state = "active" /\ q.new.user \in DOMAIN Staff
              /\ q.new.role \in RoleNames /\ q.new \in Grants
              BY <2>6, <4>1, <5>1 DEF CommitGrant, GrantJob, Grants, Assigned
        <5>3. Staff[q.new.user].home = Reseller => Live(Reseller)
              BY <2>6, <4>1, Names DEF CommitGrant
        <5> QED  BY <3>1, <5>2, <5>3 DEF GrantHeld, Live
      <4>2. CASE q.kind # "grant"
        <5>1. grant.state = "active" /\ grant' = [grant EXCEPT !.state = "ended"]
              BY <2>6, <4>2 DEF CommitGrant
        <5>2. /\ grant' \in Grants /\ grant'.state = "ended" /\ grant'.user = grant.user
              /\ grant'.role = grant.role /\ grant # NoGrant
              BY <1>1, <5>1 DEF Grants, NoGrant
        <5> QED  BY <1>1, <3>1, <5>2 DEF GrantHeld, Live
      <4> QED  BY <4>1, <4>2
    <3> QED  BY <1>1, <2>2, <3>1, <3>2 DEF TypeInv, TypeOK, GrantHeld, Live
  <2>7. CASE CommitRole(q) /\ q.perms \in CustomSets
    <3>1. UNCHANGED <<tenant, holds, grant>> /\ role' = [role EXCEPT ![Custom] = q.perms]
          BY <2>7 DEF CommitRole
    <3>2. DOMAIN role' = RoleNames /\ role'[Custom] \in SUBSET UNION CustomSets
          BY <1>1, <2>7, <3>1, Names
    <3> QED  BY <1>1, <2>2, <3>1, <3>2 DEF TypeInv, TypeOK, GrantHeld, Live
  <2>8. CASE CommitAssign(q) /\ AssignJob(q)
    <3>1. UNCHANGED <<tenant, role, grant>>  BY <2>8 DEF CommitAssign
    <3>2. holds' \in [Users -> SUBSET RoleNames]
          BY <1>1, <2>8 DEF CommitAssign, AssignJob
    <3> QED  BY <1>1, <2>2, <3>1, <3>2 DEF TypeInv, TypeOK, GrantHeld, Live
  <2> QED  BY <1>3, <2>1, <2>3, <2>4, <2>5, <2>6, <2>7, <2>8, CommitForms
<1>4. ASSUME NEW r \in Requests, Fail(r) PROVE TypeInv'
      BY <1>1, <1>4 DEF Fail, TypeInv, TypeOK, GrantHeld, Live
<1>5. CASE Lapse
  <2>1. /\ UNCHANGED <<tenant, role, req, started>>
        /\ holds' \in [Users -> SUBSET RoleNames]
        /\ grant' = grant \/ (grant.state = "active" /\ grant' = [grant EXCEPT !.state = "ended"])
        BY <1>1, <1>5 DEF Lapse
  <2>2. GrantHeld' /\ grant' \in Grants
    <3>1. CASE grant' = grant  BY <1>1, <2>1, <3>1 DEF GrantHeld, Live
    <3>2. CASE grant.state = "active" /\ grant' = [grant EXCEPT !.state = "ended"]
      <4>1. /\ grant' \in Grants /\ grant'.state = "ended" /\ grant'.user = grant.user
            /\ grant'.role = grant.role /\ grant # NoGrant
            BY <1>1, <3>2 DEF Grants, NoGrant
      <4> QED  BY <1>1, <2>1, <4>1 DEF GrantHeld, Live
    <3> QED  BY <2>1, <3>1, <3>2
  <2> QED  BY <1>1, <2>1, <2>2 DEF TypeInv, TypeOK, GrantHeld, Live
<1>6. CASE UNCHANGED vars
      BY <1>1, <1>6 DEF vars, TypeInv, TypeOK, GrantHeld, Live
<1> QED  BY <1>2, <1>3, <1>4, <1>5, <1>6, StepForms

\* Every variable keeps its type, and a grant in force refers to a customer
\* and a staff member whose tenants are there.
THEOREM TypeCorrect == Spec => []TypeOK
<1>1. TypeInv => TypeOK  BY DEF TypeInv
<1> QED  BY <1>1, TypeInit, TypeStep, PTL DEF Spec

-----------------------------------------------------------------------------
(* The status of a tenant.                                                 *)

Agrees(row) == row.active <=> Operating(row.status)

\* What a request read and what it leaves agree as well.
StatusInv ==
    ~crossed =>
        /\ \A t \in Tenants : Live(t) => Agrees(tenant[t])
        /\ \A r \in Requests : req[r].kind = "edit" => Agrees(req[r].seen)

LEMMA MergedAgrees ==
    ASSUME NEW now \in Row, NEW seen \in Row, NEW new \in Row,
           Agrees(now), Agrees(seen),
           \/ new.status = seen.status /\ new.active = seen.active
           \/ new.active = Operating(new.status),
           new.status # seen.status => now.status = seen.status
    PROVE  Agrees(Merged(now, seen, new))
<1>1. /\ now.active \in BOOLEAN /\ seen.active \in BOOLEAN /\ new.active \in BOOLEAN
      BY RowParts
<1>2. \A s : Operating(s) \in BOOLEAN  BY DEF Operating
<1>3. now.active = Operating(now.status) /\ seen.active = Operating(seen.status)
      BY <1>1, <1>2 DEF Agrees
<1>4. /\ Merged(now, seen, new).status = IF new.status # seen.status THEN new.status ELSE now.status
      /\ Merged(now, seen, new).active = IF new.active # seen.active THEN new.active ELSE now.active
      BY MergedRow
<1>5. CASE new.status = seen.status
  <2>1. new.active = seen.active  BY <1>3, <1>5
  <2> QED  BY <1>3, <1>4, <1>5, <2>1 DEF Agrees
<1>6. CASE new.status # seen.status
  <2>1. now.active = seen.active /\ new.active = Operating(new.status)  BY <1>3, <1>6
  <2> QED  BY <1>4, <1>6, <2>1 DEF Agrees
<1> QED  BY <1>5, <1>6

LEMMA StatusStep == TypeInv /\ StatusInv /\ [Next]_vars => StatusInv'
<1> SUFFICES ASSUME TypeInv, StatusInv, [Next]_vars PROVE StatusInv'  OBVIOUS
<1>1. ASSUME NEW r \in Requests, NEW q, Begins(r, q) PROVE StatusInv'
  <2>1. /\ crossed' = crossed /\ tenant' = tenant /\ req' = [req EXCEPT ![r] = q] /\ Job(q)
        /\ DOMAIN req = Requests
        BY <1>1 DEF Begins, history, TypeInv
  <2>2. q.kind = "edit" /\ ~crossed => Agrees(q.seen)
        BY <1>1, <2>1 DEF Begins, Founded, Job, EditJob, StatusInv
  <2> QED  BY <2>1, <2>2 DEF StatusInv, Live
<1>2. ASSUME NEW r \in Requests, Commit(r) PROVE StatusInv'
  <2>1. PICK q : q = req[r]  OBVIOUS
  <2>2. \A x \in Requests : req'[x].kind = "edit" => req'[x] = req[x]
        BY <1>2 DEF Commit, TypeInv, Idle
  <2>3. SUFFICES ASSUME ~crossed' PROVE \A t \in Tenants : Live(t)' => Agrees(tenant'[t])
        <3>1. crossed => crossed'
              BY <1>2 DEF Commit, CommitEdit, CommitOnboard, CommitPurge, CommitGrant, CommitRole,
                          CommitAssign, history
        <3> QED  BY <2>2, <3>1 DEF StatusInv
  <2>4. CASE CommitEdit(q) /\ EditJob(q)
    <3>1. /\ q.t \in Tenants /\ Live(q.t) /\ tenant[q.t] \in Row
          /\ tenant'[q.t] = Merged(tenant[q.t], q.seen, q.new)
          /\ \A t \in Tenants : t # q.t => tenant'[t] = tenant[t]
          BY <2>4, EditRow
    <3>2. ~crossed /\ (q.new.status # q.seen.status => tenant[q.t].status = q.seen.status)
          BY <2>3, <2>4 DEF CommitEdit
    <3>3. Agrees(tenant[q.t]) /\ Agrees(q.seen)
          BY <2>1, <2>4, <3>1, <3>2 DEF StatusInv, CommitEdit
    <3>4. Agrees(tenant'[q.t])
          BY <2>4, <3>1, <3>2, <3>3, MergedAgrees DEF EditJob
    <3> QED  BY <3>1, <3>2, <3>4 DEF StatusInv, Live
  <2>5. CASE CommitOnboard(q) /\ OnboardJob(q)
    <3>1. /\ q.t \in Tenants /\ tenant'[q.t] = q.new /\ ~crossed
          /\ \A t \in Tenants : t # q.t => tenant'[t] = tenant[t]
          BY <2>3, <2>5 DEF CommitOnboard, OnboardJob, TypeInv, history
    <3>2. Agrees(q.new)  BY <2>5 DEF OnboardJob, Agrees
    <3> QED  BY <3>1, <3>2 DEF StatusInv, Live
  <2>6. CASE CommitPurge(q) /\ q.t \in Tenants
    <3>1. /\ tenant'[q.t] = Gone /\ ~crossed
          /\ \A t \in Tenants : t # q.t => tenant'[t] = tenant[t]
          BY <2>3, <2>6 DEF CommitPurge, TypeInv, history
    <3> QED  BY <3>1 DEF StatusInv, Live
  <2>7. CASE CommitGrant(q) \/ CommitRole(q) \/ CommitAssign(q)
        BY <2>3, <2>7 DEF CommitGrant, CommitRole, CommitAssign, StatusInv, Live, history
  <2> QED  BY <1>2, <2>1, <2>4, <2>5, <2>6, <2>7, CommitForms
<1>3. ASSUME NEW r \in Requests, Fail(r) PROVE StatusInv'
      BY <1>3 DEF Fail, StatusInv, TypeInv, Idle, Live, history
<1>4. CASE Lapse
      BY <1>4 DEF Lapse, StatusInv, Live, history
<1>5. CASE UNCHANGED vars
      BY <1>5 DEF vars, StatusInv, Live
<1> QED  BY <1>1, <1>2, <1>3, <1>4, <1>5, StepForms

\* The two columns of a tenant's status agree while no two changes of status
\* have overlapped.
THEOREM StatusKept == Spec => []StatusAgrees
<1>1. Init => StatusInv
  <2> SUFFICES ASSUME Init PROVE StatusInv  OBVIOUS
  <2>1. \A t \in Tenants : Live(t) => tenant[t].status = "active" /\ tenant[t].active = TRUE
        BY DEF Init, Live
  <2>2. \A r \in Requests : req[r].kind # "edit"  BY DEF Init, Idle
  <2> QED  BY <2>1, <2>2 DEF StatusInv, Agrees, Operating
<1>2. StatusInv => StatusAgrees  BY DEF StatusInv, StatusAgrees, Agrees
<1> QED  BY <1>1, <1>2, TypeInit, TypeStep, StatusStep, PTL DEF Spec

-----------------------------------------------------------------------------
(* The customer's policy.                                                  *)

\* Nothing is saved for a customer that has not been onboarded, and an MFA
\* requirement that nobody overruled is marked as the customer's.
PolicyInv ==
    ~tangled =>
        /\ tenant[Customer] = None => saved = [deleg |-> OpenPolicy, mfa |-> FALSE]
        /\ Live(Customer) => /\ tenant[Customer].settings.deleg = saved.deleg
                             /\ saved.mfa /\ ~overruled =>
                                    tenant[Customer].settings.mfa = "customer"

LEMMA PolicyEdit ==
    ASSUME TypeInv, PolicyInv, NEW q, EditJob(q), CommitEdit(q), q.t = Customer, ~tangled'
    PROVE  /\ tenant'[Customer].settings.deleg = saved'.deleg
           /\ saved'.mfa /\ ~overruled' => tenant'[Customer].settings.mfa = "customer"
<1> DEFINE s == tenant[Customer].settings
           seen == q.seen.settings
           new == q.new.settings
           now == tenant'[Customer].settings
<1>1. /\ Live(Customer) /\ now = IF new # seen THEN new ELSE s
      BY EditRow
<1>2. ~tangled /\ (new # seen => s = seen)
      BY DEF CommitEdit
<1>3. s.deleg = saved.deleg /\ (saved.mfa /\ ~overruled => s.mfa = "customer")
      BY <1>1, <1>2 DEF PolicyInv
<1>4. q.by \in {"provider", "customer"}  BY DEF EditJob
<1>5. CASE new = seen
  <2>1. saved'.deleg = saved.deleg /\ saved'.mfa = saved.mfa /\ overruled' = overruled
        BY <1>5 DEF CommitEdit
  <2> QED  BY <1>1, <1>3, <1>5, <2>1
<1>6. CASE new # seen /\ q.by = "customer"
  <2>1. /\ saved'.deleg = IF new.deleg # seen.deleg THEN new.deleg ELSE saved.deleg
        /\ saved'.mfa = IF new.mfa # seen.mfa THEN new.mfa = "customer" ELSE saved.mfa
        /\ new.mfa = seen.mfa => overruled' = overruled
        BY <1>6 DEF CommitEdit
  <2> QED  BY <1>1, <1>2, <1>3, <1>6, <2>1
<1>7. CASE new # seen /\ q.by = "provider"
  <2>1. /\ saved' = saved /\ new.deleg = seen.deleg
        /\ new.mfa \in {seen.mfa, "provider"} \/ (new.mfa = "no" /\ seen.mfa # "customer")
        BY <1>7 DEF CommitEdit, EditJob
  <2>2. /\ new.mfa = seen.mfa => overruled' = overruled
        /\ new.mfa # seen.mfa =>
              (overruled' <=> overruled \/ (seen.mfa = "customer" /\ new.mfa = "provider"))
        BY <1>7 DEF CommitEdit
  <2> QED  BY <1>1, <1>2, <1>3, <1>7, <2>1, <2>2
<1> QED  BY <1>4, <1>5, <1>6, <1>7

LEMMA PolicyStep == TypeInv /\ PolicyInv /\ [Next]_vars => PolicyInv'
<1> SUFFICES ASSUME TypeInv, PolicyInv, [Next]_vars PROVE PolicyInv'  OBVIOUS
<1>1. ASSUME NEW r \in Requests, NEW q, Begins(r, q) PROVE PolicyInv'
      BY <1>1 DEF Begins, history, PolicyInv, Live
<1>2. ASSUME NEW r \in Requests, Commit(r) PROVE PolicyInv'
  <2>1. PICK q : q = req[r]  OBVIOUS
  <2>2. CASE CommitEdit(q) /\ EditJob(q) /\ q.t = Customer
    <3>1. tenant'[Customer] \in Row  BY <2>2, EditRow
    <3>2. tenant'[Customer] # None  BY <3>1, Names
    <3> QED  BY <2>2, <3>2, PolicyEdit DEF PolicyInv
  <2>3. CASE CommitEdit(q) /\ EditJob(q) /\ q.t # Customer
    <3>1. tenant'[Customer] = tenant[Customer] /\ saved' = saved /\ overruled' = overruled
          BY <2>3, EditRow, Names DEF CommitEdit
    <3>2. tangled => tangled'  BY <2>3 DEF CommitEdit
    <3> QED  BY <3>1, <3>2 DEF PolicyInv, Live
  <2>4. CASE CommitOnboard(q) /\ OnboardJob(q)
    <3>1. UNCHANGED <<saved, tangled, overruled>>  BY <2>4 DEF CommitOnboard, history
    <3>2. CASE q.t = Customer
      <4>1. tenant[Customer] = None /\ tenant'[Customer] = q.new
            BY <2>4, <3>2, Names DEF CommitOnboard, TypeInv
      <4>2. q.new.settings.deleg = OpenPolicy /\ q.new # None
            BY <2>4, Names DEF OnboardJob, NewSettings
      <4>3. ~tangled => saved.deleg = OpenPolicy /\ saved.mfa = FALSE
            BY <4>1 DEF PolicyInv
      <4> QED  BY <3>1, <4>1, <4>2, <4>3 DEF PolicyInv
    <3>3. CASE q.t # Customer
      <4>1. tenant'[Customer] = tenant[Customer]
            BY <2>4, <3>3, Names DEF CommitOnboard, TypeInv
      <4> QED  BY <3>1, <4>1 DEF PolicyInv, Live
    <3> QED  BY <3>2, <3>3
  <2>5. CASE CommitPurge(q) /\ q.t \in Tenants
    <3>1. /\ UNCHANGED <<saved, tangled, overruled>>
          /\ tenant'[Customer] \in {tenant[Customer], Gone}
          BY <2>5, Names DEF CommitPurge, TypeInv, history
    <3> QED  BY <3>1, Names DEF PolicyInv, Live
  <2>6. CASE CommitGrant(q) \/ CommitRole(q) \/ CommitAssign(q)
        BY <2>6 DEF CommitGrant, CommitRole, CommitAssign, PolicyInv, Live, history
  <2> QED  BY <1>2, <2>1, <2>2, <2>3, <2>4, <2>5, <2>6, CommitForms
<1>3. ASSUME NEW r \in Requests, Fail(r) PROVE PolicyInv'
      BY <1>3 DEF Fail, PolicyInv, Live, history
<1>4. CASE Lapse
      BY <1>4 DEF Lapse, PolicyInv, Live, history
<1>5. CASE UNCHANGED vars
      BY <1>5 DEF vars, PolicyInv, Live
<1> QED  BY <1>1, <1>2, <1>3, <1>4, <1>5, StepForms

\* The customer's delegation policy is the one it saved, and its requirement
\* of MFA stands unless the provider put its own in place of it, as long as
\* no two requests wrote the settings from copies that had gone stale.
THEOREM PolicyKept == Spec => []PolicyStands
<1>1. Init => PolicyInv
  <2> SUFFICES ASSUME Init PROVE PolicyInv  OBVIOUS
  <2>1. saved = [deleg |-> OpenPolicy, mfa |-> FALSE]  BY DEF Init
  <2>2. Live(Customer) => tenant[Customer].settings = NewSettings
        BY Names DEF Init, Live
  <2> QED  BY <2>1, <2>2 DEF PolicyInv, NewSettings
<1>2. PolicyInv => PolicyStands  BY DEF PolicyInv, PolicyStands
<1> QED  BY <1>1, <1>2, TypeInit, TypeStep, PolicyStep, PTL DEF Spec

-----------------------------------------------------------------------------
(* Rights in the customer's tenant.                                        *)

Reach == Ceiling \cup given

\* What a request would add to the rights is within reach or a gift.
RightsJob(q, reach) ==
    /\ q.kind = "role" => q.perms \subseteq reach \cup q.gift /\ q.perms \cap Provider = {}
    /\ q.kind = "assign" /\ q.name = "tenant_admin" =>
          Builtin["tenant_admin"] \subseteq reach \cup q.gift
    /\ q.kind = "edit" /\ q.t = Customer => q.seen.settings.deleg.dflt \in Assigned

\* The built-in roles are as they were made, and of the two that nobody is
\* given by delegation only customer_admin is within reach from the start.
RightsInv ==
    /\ \A n \in DOMAIN Builtin : role[n] = Builtin[n]
    /\ role[Custom] # None => role[Custom] \subseteq Reach /\ role[Custom] \cap Provider = {}
    /\ \A u \in Users : "tenant_admin" \in holds[u] => Builtin["tenant_admin"] \subseteq Reach
    /\ grant # NoGrant => grant.role \in Assigned
    /\ Live(Customer) => tenant[Customer].settings.deleg.dflt \in Assigned
    /\ \A r \in Requests : RightsJob(req[r], Reach)

LEMMA RoleReach ==
    ASSUME RightsInv, NEW n \in RoleNames, role[n] # None
    PROVE  /\ n # "tenant_admin" => role[n] \subseteq Reach
           /\ role[n] \cap Provider = {}
<1>1. CASE n = Custom  BY <1>1 DEF RightsInv
<1>2. CASE n \in DOMAIN Builtin
  <2>1. role[n] = Builtin[n] /\ Builtin[n] \cap Provider = {}
        BY <1>2, TenancyAssumption DEF RightsInv, TenancyAssumption
  <2>2. n # "tenant_admin" => Builtin[n] \subseteq Ceiling  BY <1>2 DEF Ceiling
  <2> QED  BY <2>1, <2>2 DEF Reach
<1> QED  BY <1>1, <1>2, Names

LEMMA HomeReach ==
    ASSUME TypeInv, RightsInv, NEW u \in Users
    PROVE  Effective(u) \subseteq Reach /\ Effective(u) \cap Provider = {}
<1> SUFFICES ASSUME NEW n \in holds[u], role[n] # None
             PROVE  role[n] \subseteq Reach /\ role[n] \cap Provider = {}
    BY DEF Effective
<1>1. n \in RoleNames  BY DEF TypeInv, TypeOK
<1>2. CASE n = "tenant_admin"
      BY <1>1, <1>2, RoleReach, Names DEF RightsInv
<1>3. CASE n # "tenant_admin"  BY <1>1, <1>3, RoleReach
<1> QED  BY <1>2, <1>3

LEMMA DelegatedReach ==
    ASSUME TypeInv, RightsInv, NEW u \in DOMAIN Staff, ~IsPlatform(u), NEW v \in BOOLEAN,
           NEW d \in Resolve(u, v)
    PROVE  d.perms \subseteq Reach /\ d.perms \cap Provider = {}
<1>1. Live(Customer) /\ \E n \in RolesFor(u) : role[n] # None /\ d.perms = Inside(n)
      BY DEF Resolve
<1>2. PICK n \in RolesFor(u) : role[n] # None /\ d.perms = Inside(n)  BY <1>1
<1>3. n \in Assigned
  <2>1. n = tenant[Customer].settings.deleg.dflt \/ (grant.state = "active" /\ n = grant.role)
        BY <1>2 DEF RolesFor
  <2>2. grant.state = "active" => grant # NoGrant  BY DEF NoGrant
  <2> QED  BY <1>1, <2>1, <2>2 DEF RightsInv
<1>4. n \in RoleNames /\ n # "tenant_admin"  BY <1>3 DEF Assigned, AdminRoles
<1> QED  BY <1>2, <1>4, RoleReach DEF Inside

LEMMA ActorReach ==
    ASSUME TypeInv, RightsInv, NEW who \in Acting, ~Has(who.perms, "platform:admin")
    PROVE  who.perms \subseteq Reach /\ who.perms \cap Provider = {}
<1>1. CASE \E u \in Users : who = [perms |-> Effective(u), via |-> "home"]
      BY <1>1, HomeReach
<1>2. CASE \E u \in DOMAIN Staff, v \in BOOLEAN : who \in Resolve(u, v)
  <2>1. PICK u \in DOMAIN Staff, v \in BOOLEAN : who \in Resolve(u, v)  BY <1>2
  <2>2. CASE IsPlatform(u)
    <3>1. who.perms = {Wildcard}  BY <2>1, <2>2 DEF Resolve
    <3> QED  BY <3>1 DEF Has
  <2>3. CASE ~IsPlatform(u)  BY <2>1, <2>3, DelegatedReach
  <2> QED  BY <2>2, <2>3
<1> QED  BY <1>1, <1>2 DEF Acting

\* Who is no platform administrator hands out what it has itself.
LEMMA GrantableHeld ==
    ASSUME NEW who, NEW asked, Grantable(who, asked), ~Has(who.perms, "platform:admin"),
           who.perms \cap Provider = {}
    PROVE  asked \subseteq who.perms
<1> SUFFICES ASSUME NEW p \in asked PROVE p \in who.perms  OBVIOUS
<1>1. p \notin Violations(who.perms, asked) /\ p \notin Provider  BY DEF Grantable
<1>2. p \notin Platform \cup {Wildcard, "platform:*"}  BY <1>1 DEF Violations
<1>3. \A x \in IF p = "mssp:*" THEN Provider ELSE {p} : Has(who.perms, x)
      BY <1>1, <1>2 DEF Violations
<1>4. Wildcard \notin who.perms  BY DEF Has
<1>5. CASE p = "mssp:*"
  <2>1. Has(who.perms, "mssp:grants") /\ "mssp:grants" \in Provider
        BY <1>3, <1>5 DEF Provider
  <2>2. "mssp:grants" \notin who.perms /\ "mssp:grants" \notin Platform
        BY <2>1 DEF Platform
  <2> QED  BY <1>4, <1>5, <2>1, <2>2 DEF Has
<1>6. CASE p # "mssp:*"
  <2>1. Has(who.perms, p)  BY <1>3, <1>6
  <2> QED  BY <1>1, <1>2, <1>4, <2>1 DEF Has
<1> QED  BY <1>5, <1>6

LEMMA GiftCovers ==
    ASSUME TypeInv, RightsInv, NEW asked, NEW gift \in Gifts(asked)
    PROVE  asked \subseteq Reach \cup gift /\ asked \cap Provider = {}
<1>1. PICK who \in Acting :
        /\ Grantable(who, asked)
        /\ gift = IF Has(who.perms, "platform:admin") THEN asked ELSE {}
      BY DEF Gifts
<1>2. asked \cap Provider = {}  BY <1>1 DEF Grantable
<1>3. CASE Has(who.perms, "platform:admin")  BY <1>1, <1>2, <1>3
<1>4. CASE ~Has(who.perms, "platform:admin")
  <2>1. who.perms \subseteq Reach /\ who.perms \cap Provider = {}  BY <1>4, ActorReach
  <2>2. asked \subseteq who.perms  BY <1>1, <1>4, <2>1, GrantableHeld
  <2> QED  BY <1>2, <2>1, <2>2
<1> QED  BY <1>3, <1>4

LEMMA BegunRights ==
    ASSUME TypeInv, RightsInv, NEW r \in Requests, NEW q, Begins(r, q)
    PROVE  RightsJob(q, Reach)
<1>1. Job(q) /\ Founded(q)  BY DEF Begins
<1>2. CASE q.kind = "role"
  <2>1. q.gift \in Gifts(q.perms)  BY <1>1, <1>2 DEF Founded
  <2>2. q.perms \subseteq Reach \cup q.gift /\ q.perms \cap Provider = {}
        BY <2>1, GiftCovers
  <2> QED  BY <1>2, <2>2 DEF RightsJob
<1>3. CASE q.kind = "assign"
  <2>1. q.gift \in Gifts(role[q.name])  BY <1>1, <1>3 DEF Founded
  <2>2. role[q.name] \subseteq Reach \cup q.gift  BY <2>1, GiftCovers
  <2>3. q.name = "tenant_admin" => role[q.name] = Builtin["tenant_admin"]
        BY Names DEF RightsInv
  <2> QED  BY <1>3, <2>2, <2>3 DEF RightsJob
<1>4. CASE q.kind = "edit"
      BY <1>1, <1>4 DEF Founded, RightsInv, RightsJob
<1>5. CASE q.kind \notin {"role", "assign", "edit"}  BY <1>5 DEF RightsJob
<1> QED  BY <1>2, <1>3, <1>4, <1>5

LEMMA RightsJobLater ==
    ASSUME NEW q, NEW a, NEW b, RightsJob(q, a), a \subseteq b
    PROVE  RightsJob(q, b)
BY DEF RightsJob

\* Requests that come to their end, and rights handed out meanwhile.
LEMMA JobsLater ==
    ASSUME RightsInv, given \subseteq given',
           \A r \in Requests : req'[r] \in {req[r], Idle}
    PROVE  \A r \in Requests : RightsJob(req'[r], Reach')
<1> SUFFICES ASSUME NEW r \in Requests PROVE RightsJob(req'[r], Reach')  OBVIOUS
<1>1. Reach \subseteq Reach'  BY DEF Reach
<1>2. RightsJob(req[r], Reach')  BY <1>1, RightsJobLater DEF RightsInv
<1>3. RightsJob(Idle, Reach')  BY DEF RightsJob, Idle
<1> QED  BY <1>2, <1>3

LEMMA RightsStep == TypeInv /\ RightsInv /\ [Next]_vars => RightsInv'
<1> SUFFICES ASSUME TypeInv, RightsInv, [Next]_vars PROVE RightsInv'  OBVIOUS
<1>1. ASSUME NEW r \in Requests, NEW q, Begins(r, q) PROVE RightsInv'
  <2>1. /\ RightsJob(q, Reach) /\ req' = [req EXCEPT ![r] = q] /\ DOMAIN req = Requests
        /\ UNCHANGED <<tenant, role, holds, grant, given>>
        BY <1>1, BegunRights DEF Begins, history, TypeInv
  <2>2. Reach' = Reach  BY <2>1 DEF Reach
  <2> QED  BY <2>1, <2>2 DEF RightsInv, Live
<1>2. ASSUME NEW r \in Requests, Commit(r) PROVE RightsInv'
  <2>1. PICK q : q = req[r]  OBVIOUS
  <2>2. \A x \in Requests : req'[x] \in {req[x], Idle}  BY <1>2 DEF Commit, TypeInv
  <2>3. given \subseteq given'
        BY <1>2 DEF Commit, CommitEdit, CommitOnboard, CommitPurge, CommitGrant, CommitRole,
                    CommitAssign, history
  <2>4. \A x \in Requests : RightsJob(req'[x], Reach')  BY <2>2, <2>3, JobsLater
  <2>5. Reach \subseteq Reach'  BY <2>3 DEF Reach
  <2>6. RightsJob(q, Reach)  BY <2>1 DEF RightsInv
  <2>7. CASE CommitEdit(q) /\ EditJob(q)
    <3>1. UNCHANGED <<role, holds, grant, given>>  BY <2>7 DEF CommitEdit
    <3>2. Live(Customer)' => tenant'[Customer].settings.deleg.dflt \in Assigned
      <4>1. CASE q.t = Customer
        <5>1. /\ tenant'[Customer].settings \in {q.new.settings, tenant[Customer].settings}
              /\ Live(Customer)
              BY <2>7, <4>1, EditRow
        <5>2. q.new.settings.deleg.dflt \in Assigned
              BY <2>6, <2>7, <4>1 DEF RightsJob, EditJob, CommitEdit
        <5> QED  BY <5>1, <5>2 DEF RightsInv
      <4>2. CASE q.t # Customer
        <5>1. tenant'[Customer] = tenant[Customer]  BY <2>7, <4>2, EditRow, Names
        <5> QED  BY <5>1 DEF RightsInv, Live
      <4> QED  BY <4>1, <4>2
    <3> QED  BY <2>4, <2>5, <3>1, <3>2 DEF RightsInv
  <2>8. CASE CommitOnboard(q) /\ OnboardJob(q)
    <3>1. UNCHANGED <<role, holds, grant, given>>  BY <2>8 DEF CommitOnboard, history
    <3>2. tenant'[Customer] = tenant[Customer] \/ tenant'[Customer].settings = NewSettings
          BY <2>8, Names DEF CommitOnboard, OnboardJob, TypeInv
    <3>3. NewSettings.deleg.dflt \in Assigned  BY SocManager DEF NewSettings, OpenPolicy
    <3> QED  BY <2>4, <2>5, <3>1, <3>2, <3>3 DEF RightsInv, Live
  <2>9. CASE CommitPurge(q) /\ q.t \in Tenants
    <3>1. UNCHANGED <<role, holds, given>> /\ grant' \in {NoGrant, grant}
          BY <2>9 DEF CommitPurge, GrantAfter, history
    <3>2. tenant'[Customer] \in {tenant[Customer], Gone}
          BY <2>9, Names DEF CommitPurge, TypeInv
    <3> QED  BY <2>4, <2>5, <3>1, <3>2 DEF RightsInv, Live
  <2>10. CASE CommitGrant(q)
    <3>1. UNCHANGED <<tenant, role, holds, given>>  BY <2>10 DEF CommitGrant, history
    <3>2. grant' # NoGrant => grant'.role \in Assigned
      <4>1. CASE q.kind = "grant"
        <5>1. GrantJob(q)  BY <1>2, <2>1, <4>1, CommitForms DEF Job
        <5> QED  BY <2>10, <4>1, <5>1 DEF CommitGrant, GrantJob
      <4>2. CASE q.kind # "grant"
        <5>1. grant.state = "active" /\ grant' = [grant EXCEPT !.state = "ended"]
              BY <2>10, <4>2 DEF CommitGrant
        <5>2. grant'.role = grant.role /\ grant # NoGrant
              BY <5>1 DEF TypeInv, Grants, NoGrant
        <5> QED  BY <5>2 DEF RightsInv
      <4> QED  BY <4>1, <4>2
    <3> QED  BY <2>4, <2>5, <3>1, <3>2 DEF RightsInv, Live
  <2>11. CASE CommitRole(q) /\ q.perms \in CustomSets
    <3>1. /\ UNCHANGED <<tenant, holds, grant>> /\ role' = [role EXCEPT ![Custom] = q.perms]
          /\ given' = given \cup q.gift /\ q.kind = "role"
          BY <2>11 DEF CommitRole
    <3>2. /\ role'[Custom] = q.perms
          /\ \A n \in DOMAIN Builtin : role'[n] = role[n]
          BY <3>1, Names DEF TypeInv
    <3>3. q.perms \subseteq Reach' /\ q.perms \cap Provider = {}
          BY <2>6, <3>1 DEF RightsJob, Reach
    <3> QED  BY <2>4, <2>5, <3>1, <3>2, <3>3 DEF RightsInv, Live
  <2>12. CASE CommitAssign(q) /\ AssignJob(q)
    <3>1. UNCHANGED <<tenant, role, grant>> /\ given' = given \cup q.gift
          BY <2>12 DEF CommitAssign
    <3>2. ASSUME NEW u \in Users, "tenant_admin" \in holds'[u]
          PROVE  Builtin["tenant_admin"] \subseteq Reach'
      <4>1. "tenant_admin" \in holds[u] \/ (q.kind = "assign" /\ q.name = "tenant_admin")
            BY <2>12, <3>2 DEF CommitAssign, AssignJob, TypeInv, TypeOK
      <4>2. CASE "tenant_admin" \in holds[u]  BY <2>5, <4>2 DEF RightsInv
      <4>3. CASE q.kind = "assign" /\ q.name = "tenant_admin"
            BY <2>6, <3>1, <4>3 DEF RightsJob, Reach
      <4> QED  BY <4>1, <4>2, <4>3
    <3> QED  BY <2>4, <2>5, <3>1, <3>2 DEF RightsInv, Live
  <2> QED  BY <1>2, <2>1, <2>7, <2>8, <2>9, <2>10, <2>11, <2>12, CommitForms
<1>3. ASSUME NEW r \in Requests, Fail(r) PROVE RightsInv'
  <2>1. /\ UNCHANGED <<tenant, role, holds, grant, given>>
        /\ \A x \in Requests : req'[x] \in {req[x], Idle}
        BY <1>3 DEF Fail, history, TypeInv
  <2>2. \A x \in Requests : RightsJob(req'[x], Reach')  BY <2>1, JobsLater
  <2> QED  BY <2>1, <2>2 DEF RightsInv, Live, Reach
<1>4. CASE Lapse
  <2>1. /\ UNCHANGED <<tenant, role, req, given>>
        /\ \A u \in Users : holds'[u] \subseteq holds[u]
        BY <1>4 DEF Lapse, history, TypeInv, TypeOK
  <2>2. grant' # NoGrant => grant'.role \in Assigned
    <3>1. CASE grant' = grant  BY <3>1 DEF RightsInv
    <3>2. CASE grant.state = "active" /\ grant' = [grant EXCEPT !.state = "ended"]
      <4>1. grant'.role = grant.role /\ grant # NoGrant
            BY <3>2 DEF TypeInv, Grants, NoGrant
      <4> QED  BY <4>1 DEF RightsInv
    <3> QED  BY <1>4, <3>1, <3>2 DEF Lapse
  <2> QED  BY <2>1, <2>2 DEF RightsInv, Live, Reach
<1>5. CASE UNCHANGED vars
      BY <1>5 DEF vars, history, RightsInv, Live, Reach
<1> QED  BY <1>1, <1>2, <1>3, <1>4, <1>5, StepForms

LEMMA RightsInit == Init => RightsInv
<1> SUFFICES ASSUME Init PROVE RightsInv  OBVIOUS
<1>1. /\ \A n \in DOMAIN Builtin : role[n] = Builtin[n]
      /\ role[Custom] = None
      BY Names DEF Init
<1>2. \A u \in Users : "tenant_admin" \notin holds[u]  BY DEF Init
<1>3. grant = NoGrant  BY DEF Init
<1>4. Live(Customer) => tenant[Customer].settings = NewSettings
      BY Names DEF Init, Live
<1>5. NewSettings.deleg.dflt \in Assigned  BY SocManager DEF NewSettings, OpenPolicy
<1>6. \A r \in Requests : RightsJob(req[r], Reach)  BY DEF Init, RightsJob, Idle
<1> QED  BY <1>1, <1>2, <1>3, <1>4, <1>5, <1>6 DEF RightsInv

LEMMA MoreRights ==
    ASSUME NEW a, NEW b, a \subseteq b
    PROVE  Rights(a) \subseteq Rights(b)
BY DEF Rights, Has

\* At first no role amounts to a right of the provider or the platform.
LEMMA BuiltinRights ==
    ASSUME NEW perms, perms \cap (Provider \cup Platform \cup Wildcards) = {}
    PROVE  Rights(perms) \cap (Provider \cup Platform) = {}
<1> SUFFICES ASSUME NEW p \in Provider \cup Platform, Has(perms, p) PROVE FALSE
    BY DEF Rights
<1>1. /\ Wildcard \notin perms /\ "mssp:*" \notin perms /\ "platform:*" \notin perms
      /\ p \notin perms
      BY DEF Wildcards
<1> QED  BY <1>1 DEF Has

LEMMA CeilingPlain == Ceiling \cap (Provider \cup Platform \cup Wildcards) = {}
<1>1. \A n \in DOMAIN Builtin : Builtin[n] \cap (Provider \cup Platform \cup Wildcards) = {}
      BY TenancyAssumption DEF TenancyAssumption
<1> QED  BY <1>1 DEF Ceiling

\* What comes of the ceiling and of gifts and is the provider's, is a gift.
LEMMA ReachRights ==
    ASSUME NEW perms, perms \subseteq Reach
    PROVE  Rights(perms) \cap (Provider \cup Platform) \subseteq Rights(given)
<1> SUFFICES ASSUME NEW p \in Provider \cup Platform, p \in Known, Has(perms, p)
             PROVE  Has(given, p)
    BY DEF Rights
<1>1. Has(Ceiling, p) \/ Has(given, p)  BY DEF Reach, Has
<1>2. p \notin Rights(Ceiling)  BY CeilingPlain, BuiltinRights
<1> QED  BY <1>1, <1>2 DEF Rights

\* Nobody comes to have, in the customer's tenant, a right beyond those of its
\* roles at first, wildcards counted for what they stand for, unless who has
\* platform:admin handed it out; and no role of it amounts to a right of the
\* provider or the platform that was not handed out so.
THEOREM RightsKept == Spec => []RightsDoNotGrow
<1>1. TypeInv /\ RightsInv => RightsDoNotGrow
  <2> SUFFICES ASSUME TypeInv, RightsInv PROVE RightsDoNotGrow  OBVIOUS
  <2>1. \A u \in Users : Rights(Effective(u)) \subseteq Rights(Reach)
        BY HomeReach, MoreRights
  <2>2. \A u \in {x \in DOMAIN Staff : ~IsPlatform(x)} : \A d \in Resolve(u, TRUE) :
           Rights(d.perms) \subseteq Rights(Reach)
        BY DelegatedReach, MoreRights
  <2>3. ASSUME NEW n \in RoleNames, role[n] # None
        PROVE  Rights(role[n]) \cap (Provider \cup Platform) \subseteq Rights(given)
    <3>1. CASE n = Custom
          BY <2>3, <3>1, ReachRights DEF RightsInv
    <3>2. CASE n \in DOMAIN Builtin
      <4>1. role[n] \cap (Provider \cup Platform \cup Wildcards) = {}
            BY <3>2, TenancyAssumption DEF RightsInv, TenancyAssumption
      <4> QED  BY <4>1, BuiltinRights
    <3> QED  BY <3>1, <3>2, Names
  <2> QED  BY <2>1, <2>2, <2>3 DEF RightsDoNotGrow, Reach
<1> QED  BY <1>1, RightsInit, TypeInit, TypeStep, RightsStep, PTL DEF Spec
=============================================================================
