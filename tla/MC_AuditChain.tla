--------------------------- MODULE MC_AuditChain ---------------------------
(***************************************************************************)
(* Instances of AuditChain for TLC.                                        *)
(***************************************************************************)
EXTENDS AuditChain, TLC

CONSTANTS p1, p2, p3, a, b, c, d

\* Three replicas; a request that writes two records is alone on its replica.
McTxs == {a, b, c, d}
McProcs == {p1, p2, p3}
McHome == (a :> p1) @@ (b :> p2) @@ (c :> p2) @@ (d :> p3)
McBudget == (a :> 2) @@ (b :> 1) @@ (c :> 1) @@ (d :> 2)

\* One process, where the request that writes two records has company.
OneHome == (a :> p1) @@ (b :> p1)
OneBudget == (a :> 2) @@ (b :> 1)
=============================================================================
