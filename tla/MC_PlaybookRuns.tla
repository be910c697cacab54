-------------------------- MODULE MC_PlaybookRuns ---------------------------
(***************************************************************************)
(* Instances of PlaybookRuns for TLC.                                      *)
(***************************************************************************)
EXTENDS PlaybookRuns, TLC

CONSTANTS r1, r2, x1, x2

A(type, halts, role) == [type |-> type, halts |-> halts, role |-> role]

\* A step that may fail, two approvals and a task; a condition, an approval
\* and a task.
McSteps ==
    [gated |-> <<A("task", FALSE, ""), A("approval", TRUE, "soc_manager"),
                 A("approval", TRUE, "incident_commander"), A("task", TRUE, "")>>,
     plain |-> <<A("condition", TRUE, ""), A("approval", TRUE, "incident_commander"),
                 A("task", TRUE, "")>>]

McRoles == {"incident_commander", "soc_manager"}

Symmetric == Permutations({r1, r2}) \cup Permutations({x1, x2})
=============================================================================
