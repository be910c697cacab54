-------------------------- MODULE ResponseContract --------------------------
(***************************************************************************)
(* What services/response.py promises of a production-changing action      *)
(* (docstring, lines 3-15), whatever requests run at the same time: the    *)
(* policy decides it once, nothing is sent to a connector before it is     *)
(* cleared, and no success is reported that a connector did not confirm.   *)
(***************************************************************************)
EXTENDS Naturals

CONSTANTS Actions

VARIABLES
    verdict,      \* verdict[a]: the policy decision, "none" before it
    cleared,      \* cleared[a]: allowed by the policy or approved by a human
    sent,         \* sent[a]: calls of a connector's write adapter
    confirmed,    \* confirmed[a]: calls the adapter said were a success
    reported      \* reported[a]: LIVE executions recorded as a success

contractVars == <<verdict, cleared, sent, confirmed, reported>>

Init ==
    /\ verdict = [a \in Actions |-> "none"]
    /\ cleared = [a \in Actions |-> FALSE]
    /\ sent = [a \in Actions |-> 0]
    /\ confirmed = [a \in Actions |-> 0]
    /\ reported = [a \in Actions |-> 0]

Decide(a, v) ==
    /\ verdict[a] = "none"
    /\ verdict' = [verdict EXCEPT ![a] = v]
    /\ cleared' = [cleared EXCEPT ![a] = (v = "allow")]
    /\ UNCHANGED <<sent, confirmed, reported>>

Clear(a) ==
    /\ verdict[a] = "require_approval"
    /\ cleared' = [cleared EXCEPT ![a] = TRUE]
    /\ UNCHANGED <<verdict, sent, confirmed, reported>>

Send(a, ok) ==
    /\ cleared[a]
    /\ sent' = [sent EXCEPT ![a] = @ + 1]
    /\ confirmed' = [confirmed EXCEPT ![a] = IF ok THEN @ + 1 ELSE @]
    /\ UNCHANGED <<verdict, cleared, reported>>

Report(a) ==
    /\ reported[a] < confirmed[a]
    /\ reported' = [reported EXCEPT ![a] = @ + 1]
    /\ UNCHANGED <<verdict, cleared, sent, confirmed>>

Next ==
    \E a \in Actions :
        \/ \E v \in {"deny", "allow", "require_approval"} : Decide(a, v)
        \/ Clear(a)
        \/ \E ok \in BOOLEAN : Send(a, ok)
        \/ Report(a)

Spec == Init /\ [][Next]_contractVars
=============================================================================
