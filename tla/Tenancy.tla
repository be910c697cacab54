------------------------------ MODULE Tenancy -------------------------------
(***************************************************************************)
(* A provider, its reseller and its customers: the tenant rows with status *)
(* and settings, the grants that let provider staff act in a customer, and *)
(* the roles of one customer, from services/tenancy.py,                    *)
(* services/tenants.py, auth/permissions.py, auth/deps.py, routers/mssp.py *)
(* and routers/rbac.py.                                                    *)
(*                                                                         *)
(* A handler resolves who is calling, loads its rows and decides; later it *)
(* commits the columns it changed.  settings is one column.                *)
(***************************************************************************)
EXTENDS Naturals, FiniteSets

CONSTANTS Tenants,    \* every tenant but the root provider
          Reseller,   \* the one of them that is a reseller; the others are customers
          Customer,   \* the customer whose roles and users are followed
          Root,       \* the provider's own tenant
          Staff,      \* provider and reseller users: home tenant and home permissions
          Users,      \* the customer's own users; the first admin is one of them
          Admin,
          Builtin,    \* the permissions of the built-in roles of a customer
          CustomSets, \* the permissions a custom role may be asked to have
          Requests, None, Gone,
          Budgets     \* how many requests may start that are about tenants and about roles

Custom == "custom"
RoleNames == DOMAIN Builtin \cup {Custom}
AdminRoles == {"tenant_admin", "customer_admin"}

Platform == {"platform:admin"}
Provider == {"mssp:all_customers", "mssp:onboard", "mssp:grants"}
Wildcard == "*"
Wildcards == {Wildcard, "mssp:*", "platform:*"}

VARIABLES tenant,    \* the rows
          role,      \* the customer's roles; None where there is none of the name
          holds,     \* user_roles: the roles of each user that have not lapsed
          grant,     \* one TenantAccessGrant of the customer
          req, started,
          saved,     \* the delegation policy and MFA requirement the customer asked for
          tangled,   \* settings were written from a stale copy
          crossed,   \* two changes of status overlapped
          overruled, \* the provider imposed MFA where the customer required it
          given      \* permissions a platform administrator handed out

vars == <<tenant, role, holds, grant, req, started, saved, tangled, crossed, overruled, given>>
history == <<saved, tangled, crossed, overruled, given>>

Statuses == {"onboarding", "active", "suspended", "offboarding"}
Operating(s) == s \in {"active", "onboarding"}

Delegation == [access : BOOLEAN, dflt : RoleNames, allowed : SUBSET RoleNames]
Settings == [deleg : Delegation, mfa : {"no", "provider", "customer"}, features : BOOLEAN]
Row == [parent : {Root} \cup Tenants, status : Statuses, active : BOOLEAN, settings : Settings]
Column == {"parent", "status", "active", "settings"}

\* None and Gone stand for rows that are not there.  The roles a customer is
\* given hold no permission of the provider or the platform, not by a wildcard
\* either (roles_for_tenant_kind).
ASSUME TenancyAssumption ==
    /\ {Reseller, Customer} \subseteq Tenants /\ Reseller # Customer /\ Root \notin Tenants
    /\ None # Gone /\ {None, Gone} \cap Row = {}
    /\ \A u \in DOMAIN Staff : Staff[u].home \in {Root, Reseller}
    /\ Admin \in Users /\ Users \cap DOMAIN Staff = {}
    /\ {"soc_manager", "tenant_admin", "customer_admin"} \subseteq DOMAIN Builtin
    /\ Custom \notin DOMAIN Builtin
    /\ \A n \in DOMAIN Builtin : Builtin[n] \cap (Provider \cup Platform \cup Wildcards) = {}
    /\ Budgets \subseteq [{"tenants", "roles"} -> Nat]
    /\ [tenants |-> 0, roles |-> 0] \in Budgets

\* delegation_policy fills in what onboard_tenant leaves out.
OpenPolicy == [access |-> TRUE, dflt |-> "soc_manager", allowed |-> {}]
NewSettings == [deleg |-> OpenPolicy, mfa |-> "no", features |-> FALSE]
NoGrant == [state |-> "none", user |-> None, role |-> None]

Live(t) == tenant[t] \notin {None, Gone}

TypeOK ==
    /\ \A t \in Tenants : Live(t) => tenant[t] \in Row
    /\ role[Custom] # None => role[Custom] \in SUBSET UNION CustomSets
    /\ holds \in [Users -> SUBSET RoleNames]
    /\ grant # NoGrant =>
          /\ grant.state \in {"active", "ended"} /\ grant.role \in RoleNames
          /\ grant.user \in DOMAIN Staff /\ Live(Customer)
          /\ Staff[grant.user].home = Reseller => Live(Reseller)
    /\ started \in Budgets

-----------------------------------------------------------------------------
(* Permissions.                                                            *)

\* role_has_permission.
Has(perms, p) ==
    \/ Wildcard \in perms \/ p \in perms
    \/ p \in Provider /\ "mssp:*" \in perms
    \/ p \in Platform /\ "platform:*" \in perms

\* The permissions there are, and those that perms amounts to.
Known == (UNION {Builtin[n] : n \in DOMAIN Builtin} \cup UNION CustomSets \cup Provider \cup Platform)
            \ Wildcards
Rights(perms) == {p \in Known : Has(perms, p)}

\* grant_violations: what the granter may not hand out.
Violations(granter, asked) ==
    {p \in asked :
        IF p \in Platform \cup {Wildcard, "platform:*"} THEN ~Has(granter, "platform:admin")
        ELSE \E q \in IF p = "mssp:*" THEN Provider ELSE {p} : ~Has(granter, q)}

\* Mutant of Grantable: roles that exist already are handed on unchecked.
GrantableNew(who, asked) == asked \in CustomSets => Violations(who.perms, asked) = {}

\* _check_grantable, in a customer tenant.
Grantable(who, asked) ==
    /\ Violations(who.perms, asked) = {}
    /\ asked \cap Provider = {}

\* _effective_permissions: roles whose assignment has not lapsed.
Effective(u) ==
    UNION {role[n] : n \in {x \in holds[u] : role[x] # None}}

-----------------------------------------------------------------------------
(* Who may act where.                                                      *)

Ancestors(t) ==
    {tenant[t].parent} \cup
    (IF tenant[t].parent = Reseller /\ Live(Reseller) THEN {tenant[Reseller].parent} ELSE {})

IsPlatform(u) == Has(Staff[u].perms, "platform:admin")

\* _authenticate and _usable: a user of a tenant that is not active is refused.
Usable(u) == Staff[u].home # Root => Live(Staff[u].home) /\ tenant[Staff[u].home].active

\* _role_permissions.
Inside(n) == role[n] \ (Platform \cup Provider \cup {Wildcard})

\* The role resolve_access gives, if any.
RolesFor(u) ==
    IF Has(Staff[u].perms, "mssp:all_customers") THEN {tenant[Customer].settings.deleg.dflt}
    ELSE IF grant.state = "active" /\ grant.user = u THEN {grant.role} ELSE {}

\* resolve_access and _enter_tenant: at most one decision.
Resolve(u, verified) ==
    LET t == tenant[Customer]
        pol == t.settings.deleg
    IN  IF ~Live(Customer) \/ ~Usable(u) \/ t.status = "offboarding" THEN {}
        ELSE IF t.settings.mfa # "no" /\ ~verified THEN {}
        ELSE IF IsPlatform(u)
        THEN {[perms |-> {Wildcard}, via |-> IF pol.access THEN "platform" ELSE "break_glass"]}
        ELSE {[perms |-> Inside(n), via |-> "delegated"] :
                 n \in {x \in RolesFor(u) :
                           /\ Staff[u].home \in Ancestors(Customer)
                           /\ pol.access
                           /\ t.active \/ Has(Staff[u].perms, "mssp:onboard")
                           /\ pol.allowed = {} \/ x \in pol.allowed
                           /\ role[x] # None}}

\* The principals a request in the customer's tenant may come from.
Acting ==
    {[perms |-> Effective(u), via |-> "home"] :
        u \in {x \in Users : Live(Customer) /\ tenant[Customer].active}}
    \cup UNION {Resolve(u, v) : u \in DOMAIN Staff, v \in BOOLEAN}

\* _managed with require_home.
Manages(u, p, t) ==
    /\ Usable(u) /\ Has(Staff[u].perms, p) /\ Live(t)
    /\ IsPlatform(u) \/ Staff[u].home \in Ancestors(t)

Managed(p) == {t \in Tenants : \E u \in DOMAIN Staff : Manages(u, p, t)}

\* What a change of roles by those who may make it counts as a gift of.
Gifts(asked) ==
    {IF Has(who.perms, "platform:admin") THEN asked ELSE {} :
        who \in {w \in Acting : Has(w.perms, "rbac:manage") /\ Grantable(w, asked)}}

-----------------------------------------------------------------------------
Idle == [kind |-> "idle"]

Init ==
    /\ \E p \in {Root, Reseller} :
          tenant \in {[t \in Tenants |->
                          IF t \in gone THEN None
                          ELSE [parent |-> IF t = Reseller THEN Root ELSE p, status |-> "active",
                                active |-> TRUE, settings |-> NewSettings]] :
                      gone \in SUBSET {Customer}}
    /\ role = [n \in RoleNames |-> IF n = Custom THEN None ELSE Builtin[n]]
    /\ holds = [u \in Users |-> IF u = Admin THEN {"customer_admin"} ELSE {}]
    /\ grant = NoGrant
    /\ req = [r \in Requests |-> Idle] /\ started = [tenants |-> 0, roles |-> 0]
    /\ saved = [deleg |-> OpenPolicy, mfa |-> FALSE]
    /\ tangled = FALSE /\ crossed = FALSE /\ overruled = FALSE /\ given = {}

Decide(r, area, decision) ==
    /\ req[r] = Idle
    /\ req' = [req EXCEPT ![r] = decision]
    /\ started' = [started EXCEPT ![area] = @ + 1]
    /\ started' \in Budgets
    /\ UNCHANGED <<tenant, role, holds, grant, history>>

\* What a handler leaves of a tenant's row.
Edit(r, t, row, by) ==
    Decide(r, "tenants", [kind |-> "edit", t |-> t, seen |-> tenant[t], new |-> row, by |-> by])

\* Mutant of WithStatus: is_active is left as it was.
WithStatusOnly(row, s) == [row EXCEPT !.status = s]

WithStatus(row, s) == [row EXCEPT !.status = s, !.active = Operating(s)]

\* _apply_security_policy: what the provider may not undo.
MayLift(row, by) == by = "provider" => row.settings.mfa # "customer"

\* Mutant of WithFeatures: the settings are built anew.
WithFeaturesAnew(row) == [row EXCEPT !.settings = [NewSettings EXCEPT !.features = ~row.settings.features,
                                                                      !.mfa = row.settings.mfa]]

\* feature_overrides and customer_approval_actions.
WithFeatures(row) == [row EXCEPT !.settings.features = ~@]

\* update_tenant (suspend and activate are calls of it).
PatchTenant(r) ==
    \E t \in Managed("mssp:onboard") :
        /\ req[r] = Idle
        /\ \/ \E s \in Statuses : Edit(r, t, WithStatus(tenant[t], s), "provider")
           \/ Edit(r, t, WithFeatures(tenant[t]), "provider")
           \/ Edit(r, t, [tenant[t] EXCEPT !.settings.mfa = "provider"], "provider")
           \/ /\ MayLift(tenant[t], "provider")
              /\ Edit(r, t, [tenant[t] EXCEPT !.settings.mfa = "no"], "provider")

\* update_current_tenant: the customer's own users, of its own tenant.
SaveProfile(r) ==
    LET mine == {who \in Acting : Has(who.perms, "tenant:manage") /\ who.via = "home"}
    IN  /\ req[r] = Idle /\ mine # {}
        /\ \/ \E access \in BOOLEAN, n \in {x \in RoleNames \ AdminRoles : role[x] # None} :
                 \E allowed \in {{}, {n}} :
                    Edit(r, Customer,
                         [tenant[Customer] EXCEPT !.settings.deleg =
                             [access |-> access, dflt |-> n, allowed |-> allowed]], "customer")
           \/ \E m \in {"no", "customer"} :
                 Edit(r, Customer, [tenant[Customer] EXCEPT !.settings.mfa = m], "customer")

\* onboard_tenant with provision_tenant.
Onboard(r) ==
    \E u \in DOMAIN Staff, t \in Tenants \ {Reseller}, p \in {Root, Reseller} :
        /\ tenant[t] = None /\ Usable(u) /\ Has(Staff[u].perms, "mssp:onboard")
        /\ p # Staff[u].home => IF p = Root THEN IsPlatform(u) ELSE Manages(u, "mssp:onboard", p)
        /\ \E s \in {"onboarding", "active"} :
              Decide(r, "tenants", [kind |-> "onboard", t |-> t,
                         new |-> [parent |-> p, status |-> s, active |-> Operating(s),
                                  settings |-> NewSettings]])

\* offboard up to the DELETE.
Offboard(r) ==
    \E t \in {x \in Tenants : \E u \in DOMAIN Staff : Manages(u, "mssp:onboard", x) /\ x # Staff[u].home} :
        /\ tenant[t].status \in {"suspended", "offboarding"}
        /\ \A c \in Tenants : Live(c) => tenant[c].parent # t
        /\ Decide(r, "tenants", [kind |-> "purge", t |-> t])

\* create_grant.
CreateGrant(r) ==
    \E u \in DOMAIN Staff, w \in DOMAIN Staff, n \in RoleNames \ AdminRoles :
        /\ req[r] = Idle
        /\ Manages(u, "mssp:grants", Customer)
        /\ Staff[w].home = Staff[u].home
        /\ role[n] # None
        /\ grant.state # "active"
        /\ Decide(r, "tenants", [kind |-> "grant",
                      new |-> [state |-> "active", user |-> w, role |-> n]])

\* revoke_grant.
RevokeGrant(r) ==
    \E u \in DOMAIN Staff :
        /\ Usable(u) /\ Has(Staff[u].perms, "mssp:grants")
        /\ grant.state = "active" /\ Staff[u].home = Staff[grant.user].home
        /\ Decide(r, "tenants", [kind |-> "ungrant"])

\* create_role and update_role: built-in roles are not edited.
SaveRole(r) ==
    /\ req[r] = Idle
    /\ \E perms \in CustomSets : \E gift \in Gifts(perms) :
          Decide(r, "roles", [kind |-> "role", perms |-> perms, gift |-> gift])

\* assign_role; create_user does the same for the roles of a new user.
AssignRole(r) ==
    /\ req[r] = Idle
    /\ \E n \in {x \in RoleNames : role[x] # None} : \E gift \in Gifts(role[n]) :
          \E u \in Users :
             Decide(r, "roles", [kind |-> "assign", user |-> u, name |-> n, gift |-> gift])

\* revoke_role.
RevokeRole(r) ==
    /\ req[r] = Idle
    /\ \E n \in {x \in RoleNames : role[x] # None /\ Gifts(role[x]) # {}}, u \in Users :
          /\ n \in holds[u]
          /\ Decide(r, "roles", [kind |-> "unassign", user |-> u, name |-> n, gift |-> {}])

-----------------------------------------------------------------------------
(* Commits: of the tenant's row the columns that differ from what was      *)
(* loaded.                                                                 *)

Merged(now, seen, new) == [c \in Column |-> IF new[c] # seen[c] THEN new[c] ELSE now[c]]

CommitEdit(q) ==
    LET now == tenant[q.t]
        mine == q.t = Customer
        seen == q.seen.settings
        new == q.new.settings
    IN  /\ q.kind = "edit" /\ Live(q.t)
        /\ tenant' = [tenant EXCEPT ![q.t] = Merged(now, q.seen, q.new)]
        /\ tangled' = (tangled \/ (new # seen /\ now.settings # seen))
        /\ crossed' = (crossed \/ (q.new.status # q.seen.status /\ now.status # q.seen.status))
        /\ saved' = IF mine /\ q.by = "customer"
                    THEN [deleg |-> IF new.deleg # seen.deleg THEN new.deleg ELSE saved.deleg,
                          mfa |-> IF new.mfa # seen.mfa THEN new.mfa = "customer" ELSE saved.mfa]
                    ELSE saved
        /\ overruled' = IF ~mine \/ new.mfa = seen.mfa THEN overruled
                        ELSE /\ q.by = "provider"
                             /\ overruled \/ (seen.mfa = "customer" /\ new.mfa = "provider")
        /\ UNCHANGED <<role, holds, grant, given>>

CommitOnboard(q) ==
    /\ q.kind = "onboard" /\ tenant[q.t] = None
    /\ q.new.parent \in Tenants => Live(q.new.parent)
    /\ tenant' = [tenant EXCEPT ![q.t] = q.new]
    /\ UNCHANGED <<role, holds, grant, history>>

\* What purge_tenant leaves of the grants: none to, from or for users of it.
GrantAfter(t) ==
    IF grant # NoGrant /\ t \in {Customer, Staff[grant.user].home} THEN NoGrant ELSE grant

\* purge_tenant: the foreign key of a child that has appeared refuses it.
CommitPurge(q) ==
    /\ q.kind = "purge" /\ Live(q.t)
    /\ \A c \in Tenants : Live(c) => tenant[c].parent # q.t
    /\ tenant' = [tenant EXCEPT ![q.t] = Gone]
    /\ grant' = GrantAfter(q.t)
    /\ UNCHANGED <<role, holds, history>>

CommitGrant(q) ==
    /\ q.kind \in {"grant", "ungrant"} /\ Live(Customer)
    /\ IF q.kind = "grant"
       THEN Staff[q.new.user].home \in Tenants => Live(Staff[q.new.user].home)
       ELSE grant.state = "active"
    /\ grant' = IF q.kind = "grant" THEN q.new ELSE [grant EXCEPT !.state = "ended"]
    /\ UNCHANGED <<tenant, role, holds, history>>

CommitRole(q) ==
    /\ q.kind = "role" /\ Live(Customer)
    /\ role' = [role EXCEPT ![Custom] = q.perms]
    /\ given' = given \cup q.gift
    /\ UNCHANGED <<tenant, holds, grant, saved, tangled, crossed, overruled>>

CommitAssign(q) ==
    /\ q.kind \in {"assign", "unassign"} /\ Live(Customer)
    /\ holds' = [holds EXCEPT ![q.user] = IF q.kind = "assign" THEN @ \cup {q.name} ELSE @ \ {q.name}]
    /\ given' = given \cup q.gift
    /\ UNCHANGED <<tenant, role, grant, saved, tangled, crossed, overruled>>

Commit(r) ==
    /\ req[r] # Idle
    /\ \/ CommitEdit(req[r]) \/ CommitOnboard(req[r]) \/ CommitPurge(req[r])
       \/ CommitGrant(req[r]) \/ CommitRole(req[r]) \/ CommitAssign(req[r])
    /\ req' = [req EXCEPT ![r] = Idle]
    /\ UNCHANGED started

\* An exception, a crash, or a row that is gone.
Fail(r) ==
    /\ req[r] # Idle
    /\ req' = [req EXCEPT ![r] = Idle]
    /\ UNCHANGED <<tenant, role, holds, grant, started, history>>

\* A grant or a role assigned for a time comes to its end: any may have been.
Lapse ==
    /\ \/ /\ grant.state = "active" /\ grant' = [grant EXCEPT !.state = "ended"]
          /\ UNCHANGED holds
       \/ /\ \E u \in Users, n \in RoleNames :
                /\ n \in holds[u] /\ <<u, n>> # <<Admin, "customer_admin">>
                /\ holds' = [holds EXCEPT ![u] = @ \ {n}]
          /\ UNCHANGED grant
    /\ UNCHANGED <<tenant, role, req, started, history>>

Next ==
    \/ Lapse
    \/ \E r \in Requests :
          \/ PatchTenant(r) \/ SaveProfile(r) \/ Onboard(r) \/ Offboard(r)
          \/ CreateGrant(r) \/ RevokeGrant(r)
          \/ SaveRole(r) \/ AssignRole(r) \/ RevokeRole(r)
          \/ Commit(r) \/ Fail(r)

Spec == Init /\ [][Next]_vars

-----------------------------------------------------------------------------
(* What must hold.                                                         *)

\* MSSP.md: "Provider staff cannot change this policy."  The settings column
\* holds what the customer last saved, and the provider's own entries: its
\* contract edits carry the customer's delegation policy over, and lift no
\* requirement of MFA that is the customer's, unless two requests overlapped
\* or the provider had first put its own requirement in place of it.
PolicyStands ==
    Live(Customer) /\ ~tangled =>
        /\ tenant[Customer].settings.deleg = saved.deleg
        /\ saved.mfa /\ ~overruled => tenant[Customer].settings.mfa # "no"

\* Two columns say whether a tenant operates, and sign-in reads one, the
\* console the other.  They agree unless two changes of status overlapped.
StatusAgrees ==
    \A t \in Tenants :
        Live(t) /\ ~crossed => (tenant[t].active <=> Operating(tenant[t].status))

\* What anybody in the customer's tenant can do at first, with what it may
\* delegate: every built-in role but tenant_admin, which nobody holds.
Ceiling == UNION {Builtin[n] : n \in DOMAIN Builtin \ {"tenant_admin"}}

\* Rights do not grow, wildcards counted for what they stand for: through
\* whatever roles, temporary elevations, grants and edits of roles already
\* assigned, by admins and delegated staff in any overlap, nobody comes to have
\* in the tenant a right that nobody had, unless it was handed out by who has
\* platform:admin; and a role of the customer amounts to a right of the provider
\* or the platform only if such a one has handed that out (_check_grantable).
RightsDoNotGrow ==
    /\ \A u \in Users : Rights(Effective(u)) \subseteq Rights(Ceiling \cup given)
    /\ \A u \in {x \in DOMAIN Staff : ~IsPlatform(x)} : \A d \in Resolve(u, TRUE) :
          Rights(d.perms) \subseteq Rights(Ceiling \cup given)
    /\ \A n \in RoleNames : role[n] # None =>
          Rights(role[n]) \cap (Provider \cup Platform) \subseteq Rights(given)

\* Not kept by the code, as TLC shows in the instance of MC_Tenancy.cfg:
\* RBAC.md 38: "Customer tenants never contain platform or provider
\* permissions".  The customer's users have no right of the provider or the
\* platform.
CustomersStayCustomers ==
    \A u \in Users : Rights(Effective(u)) \cap (Provider \cup Platform) = {}

\* Not kept by the code, as TLC shows in the same instance: MSSP.md 45: "Acting
\* permissions are the customer tenant's own role permissions minus any platform
\* (platform:*) or provider (mssp:*) permissions."  _role_permissions takes away
\* the names and leaves the wildcards.
DelegatesStayOut ==
    \A u \in {x \in DOMAIN Staff : ~IsPlatform(x)} : \A d \in Resolve(u, TRUE) :
        Rights(d.perms) \cap (Provider \cup Platform) = {}

\* MSSP.md: the provider "cannot lift one the customer set".
CustomerMfaStands == Live(Customer) /\ saved.mfa /\ ~tangled => tenant[Customer].settings.mfa # "no"
=============================================================================
