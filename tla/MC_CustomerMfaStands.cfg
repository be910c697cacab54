SPECIFICATION Spec
CONSTANTS
    r1 = r1
    r2 = r2
    None = None
    Gone = Gone
    Tenants = {"partner", "acme"}
    Reseller = "partner"
    Customer = "acme"
    Root = "root"
    Staff <- TheStaff
    Users = {"admin", "member"}
    Admin = "admin"
    Builtin <- TheRoles
    CustomSets <- TheSets
    Requests = {r1, r2}
    Budgets <- TheBudgets
SYMMETRY Slots
INVARIANT CustomerMfaStands
CHECK_DEADLOCK FALSE
