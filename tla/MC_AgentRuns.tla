--------------------------- MODULE MC_AgentRuns ---------------------------
(* An instance of AgentRuns for TLC: a hosted and a private model.         *)
EXTENDS AgentRuns, TLC

CONSTANTS sim, hosted, own

TheOrder == <<hosted, own, sim>>

\* Triage gives up after one hung call; the planner handles confidential data
\* and is always verified; no answer is within the tokens of the hunter.
TheAgents == [triage |-> [cap |-> "fast_triage", cls |-> 1, patience |-> 1, budget |-> 1, forced |-> FALSE],
              planner |-> [cap |-> "response_planner", cls |-> 2, patience |-> 2, budget |-> 1, forced |-> TRUE],
              hunter |-> [cap |-> "fast_triage", cls |-> 1, patience |-> 2, budget |-> 0, forced |-> FALSE]]

ThePlans == [investigate |-> <<"triage", "planner">>, single |-> <<"hunter">>]

ForTriage == [primary |-> hosted, fallback |-> own, verifier |-> Unset, verify |-> FALSE]
ForPlans == [primary |-> own, fallback |-> Unset, verifier |-> hosted, verify |-> FALSE]
TheRoutes == {ForTriage, ForPlans}

ThePolicies == {[ai |-> FALSE, strategy |-> "hybrid", external |-> TRUE],
                [ai |-> TRUE, strategy |-> "hybrid", external |-> TRUE]}

TheConfigs == {[on |-> TRUE, allow |-> 1, serves |-> TRUE]}

TheStart == [policy |-> [ai |-> TRUE, strategy |-> "hybrid", external |-> TRUE],
             route |-> [fast_triage |-> ForTriage, response_planner |-> ForPlans],
             config |-> [p \in {sim, hosted, own} |-> [on |-> TRUE, allow |-> IF p = hosted THEN 1 ELSE 2, serves |-> TRUE]]]

\* Each request on a replica of its own; with OneProcess for Process, TLC refutes
\* RunsEnd.
OwnProcess == [r \in Requests |-> r]
OneProcess == [r \in Requests |-> "api"]

\* Two deployments of the hosted provider, the second as the fallback: with these
\* for Routes and Start, TLC refutes CircuitsHonored.
OfOneProvider == [primary |-> hosted, fallback |-> hosted, verifier |-> Unset, verify |-> FALSE]
OneProvider == {OfOneProvider, ForPlans}
StartOneProvider == [TheStart EXCEPT !.route.fast_triage = OfOneProvider]
=============================================================================
