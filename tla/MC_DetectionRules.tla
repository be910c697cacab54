------------------------- MODULE MC_DetectionRules --------------------------
(***************************************************************************)
(* Instances of DetectionRules for TLC.                                    *)
(***************************************************************************)
EXTENDS DetectionRules, TLC

CONSTANTS eng, mgr, cust, c1, c2, q1, q2

Symmetry == Permutations({c1, c2}) \cup Permutations({q1, q2})

Body(new, status) ==
    [logic |-> new # {}, new |-> new, status |-> status, exceptions |-> FALSE,
     enabled |-> "absent"]

\* Bodies with one field, one that repeats the logic, and some with logic and
\* a status.
McPayloads ==
    {Body({}, s) : s \in Statuses}
    \cup {Body({"matcher"}, s) : s \in {"absent", "approved", "deployed"}}
    \cup {Body(Columns, "approved"),
          [Body({}, "absent") EXCEPT !.logic = TRUE],
          [Body({}, "absent") EXCEPT !.exceptions = TRUE],
          [Body({}, "absent") EXCEPT !.enabled = "yes"],
          [Body({}, "absent") EXCEPT !.enabled = "no"]}
=============================================================================
