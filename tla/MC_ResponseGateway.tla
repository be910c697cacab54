------------------------- MODULE MC_ResponseGateway -------------------------
(***************************************************************************)
(* Instances of ResponseGateway for TLC.                                   *)
(***************************************************************************)
EXTENDS ResponseGateway, TLC

CONSTANTS r1, r2

\* The commander may not approve what needs the SOC manager.
McRoles == (r1 :> {"incident_commander"}) @@ (r2 :> {"soc_manager", "rbac:manage"})

Want(action, confidence, live) ==
    [action |-> action, criticality |-> "low", confidence |-> confidence,
     evidence |-> 1, recipients |-> 1, live |-> live]

\* Denied, needing approval (reversible and not), allowed; LIVE and DEMO.
McWanted == {Want("block_ip", 40, TRUE), Want("block_ip", 80, TRUE),
             Want("remove_email_from_mailboxes", 95, TRUE),
             Want("block_ip", 95, TRUE), Want("block_ip", 95, FALSE)}

\* One request for every input that the thresholds of the policy tell apart.
AnyWanted ==
    [action : {"increase_monitoring", "notify_team", "block_ip", "quarantine_email",
               "remove_email_from_mailboxes"},
     criticality : {"info", "low", "medium", "high", "critical"},
     confidence : {0, 49, 50, 69, 70, 89, 90, 100}, evidence : 0..1,
     recipients : {5, 6}, live : {FALSE}]

EveryWanted == McWanted \cup AnyWanted
=============================================================================
