---------------------------- MODULE PolicyEngine ----------------------------
(***************************************************************************)
(* services/policy/engine.py: the rules a requested response action is     *)
(* decided by, the policy the platform seeds (seed/catalog.py), and the    *)
(* Rego policy (policies/response.rego) that is meant to decide the same.  *)
(* Confidence is a percentage.                                             *)
(***************************************************************************)
EXTENDS Integers, Sequences

NoRole == "none"

\* PolicyInput, as far as a condition can refer to it.
IsInput(i) ==
    /\ i.action \in STRING /\ i.criticality \in STRING
    /\ i.confidence \in Int /\ i.evidence \in Int /\ i.blast \in Int
    /\ i.reversible \in BOOLEAN

\* Mutant of Matches: a threshold counts as below itself.
MatchesAtThreshold(when, i) ==
    /\ "confidence_lt" \in DOMAIN when => i.confidence <= when.confidence_lt
    /\ "confidence_gte" \in DOMAIN when => i.confidence >= when.confidence_gte
    /\ "evidence_count_lt" \in DOMAIN when => i.evidence < when.evidence_count_lt
    /\ "asset_criticality_in" \in DOMAIN when => i.criticality \in when.asset_criticality_in
    /\ "reversible_eq" \in DOMAIN when => i.reversible = when.reversible_eq
    /\ "blast_radius_gt" \in DOMAIN when => i.blast > when.blast_radius_gt
    /\ "action_in" \in DOMAIN when => i.action \in when.action_in

\* Every key of a rule's condition holds; keys the engine does not know are
\* not looked at.
Matches(when, i) ==
    /\ "confidence_lt" \in DOMAIN when => i.confidence < when.confidence_lt
    /\ "confidence_gte" \in DOMAIN when => i.confidence >= when.confidence_gte
    /\ "evidence_count_lt" \in DOMAIN when => i.evidence < when.evidence_count_lt
    /\ "asset_criticality_in" \in DOMAIN when => i.criticality \in when.asset_criticality_in
    /\ "reversible_eq" \in DOMAIN when => i.reversible = when.reversible_eq
    /\ "blast_radius_gt" \in DOMAIN when => i.blast > when.blast_radius_gt
    /\ "action_in" \in DOMAIN when => i.action \in when.action_in

\* The places of the rules with this effect that match.
Hits(p, effect, i) ==
    {n \in DOMAIN p.rules : p.rules[n].effect = effect /\ Matches(p.rules[n].when, i)}

\* A deny rule wins, then an approval rule, then an allow rule unless the
\* confidence is under the floor; the default decides the rest.
Effect(p, i) ==
    IF Hits(p, "deny", i) # {} THEN "deny"
    ELSE IF Hits(p, "require_approval", i) # {} THEN "require_approval"
    ELSE IF Hits(p, "allow", i) = {} THEN p.default
    ELSE IF i.confidence < p.floor THEN "require_approval"
    ELSE "allow"

\* The role of the first matching approval rule that names one; the gateway
\* falls back to the incident commander.
RequiredRole(p, i) ==
    LET named == {n \in Hits(p, "require_approval", i) : p.rules[n].approver # NoRole}
    IN  IF named = {} THEN "incident_commander"
        ELSE p.rules[CHOOSE n \in named : \A m \in named : n <= m].approver

Rule(when, effect, approver) == [when |-> when, effect |-> effect, approver |-> approver]

\* The seeded policy.
ResponsePolicy ==
    [floor |-> 70, default |-> "require_approval",
     rules |-> <<
        Rule([confidence_lt |-> 50], "deny", NoRole),
        Rule([evidence_count_lt |-> 1], "deny", NoRole),
        Rule([asset_criticality_in |-> {"high", "critical"}],
             "require_approval", "incident_commander"),
        Rule([reversible_eq |-> FALSE], "require_approval", "soc_manager"),
        Rule([blast_radius_gt |-> 5], "require_approval", "incident_commander"),
        Rule([action_in |-> {"increase_monitoring", "create_ticket", "notify_team"},
              confidence_gte |-> 70], "allow", NoRole),
        Rule([reversible_eq |-> TRUE, confidence_gte |-> 90,
              asset_criticality_in |-> {"info", "low", "medium"}], "allow", NoRole) >>]

-----------------------------------------------------------------------------
(* policies/response.rego                                                  *)

RegoDeny(i) == i.confidence < 50 \/ i.evidence < 1

RegoAllow(i) ==
    \/ /\ i.reversible /\ i.confidence >= 90
       /\ i.criticality \in {"info", "low", "medium"}
    \/ /\ i.action \in {"increase_monitoring", "create_ticket", "notify_team"}
       /\ i.confidence >= 70

RegoNeedsApproval(i) ==
    \/ i.criticality \in {"high", "critical"}
    \/ ~i.reversible
    \/ i.blast > 5
    \/ i.confidence < 70

RegoDecision(i) ==
    IF RegoDeny(i) THEN "deny"
    ELSE IF RegoNeedsApproval(i) \/ ~RegoAllow(i) THEN "require_approval"
    ELSE "allow"

\* The values Rego's rules give approver_role: none is undefined, two are an
\* evaluation error.
RegoApprovers(i) ==
    (IF i.criticality \in {"high", "critical"} THEN {"incident_commander"} ELSE {})
    \cup (IF ~i.reversible THEN {"soc_manager"} ELSE {})
=============================================================================
