----------------------------- MODULE MC_Tenancy -----------------------------
(* An instance of Tenancy for TLC.                                         *)
EXTENDS Tenancy, TLC

CONSTANTS r1, r2

Slots == Permutations({r1, r2})

\* The kinds of staff that the rules tell apart.
TheStaff ==
    [platform |-> [home |-> Root, perms |-> {"*"}],
     manager  |-> [home |-> Root, perms |-> Provider],
     partner  |-> [home |-> Reseller, perms |-> {"mssp:onboard", "mssp:grants"}],
     analyst  |-> [home |-> Root, perms |-> {}]]

\* One permission of each kind; model:manage is one that only a tenant_admin has.
TheRoles ==
    [soc_manager    |-> {"rbac:manage", "incident:write"},
     customer_admin |-> {"rbac:manage", "tenant:manage"},
     tenant_admin   |-> {"rbac:manage", "tenant:manage", "incident:write", "model:manage"}]

TheSets == {{"rbac:manage"}, {"incident:write", "model:manage"}, {"mssp:grants"}, {"platform:*", "mssp:*"}}

TheBudgets ==
    {b \in [{"tenants", "roles"} -> 0..4] :
        /\ b["tenants"] <= 3
        /\ b["tenants"] > 0 /\ b["roles"] > 0 => b["tenants"] + b["roles"] <= 3}
=============================================================================
