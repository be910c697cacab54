-------------------------- MODULE ResponseGateway ---------------------------
(***************************************************************************)
(* services/response.py with routers/response.py, on PostgreSQL: requests  *)
(* to approve, reject, dry-run, execute, verify and roll back the same     *)
(* response action, each a transaction on a thread of some API replica.    *)
(*                                                                         *)
(* A handler checks the status it has loaded and writes later: rows are    *)
(* locked by the UPDATE, not by the read, and an UPDATE waits for the row  *)
(* and then overwrites it (READ COMMITTED).  SQLAlchemy sends no UPDATE    *)
(* for a column that is assigned the value it was loaded with.             *)
(*                                                                         *)
(* audit.record() is the audit lock, held until the transaction ends, and  *)
(* the flush of whatever the handler has changed.  The wait for the        *)
(* process-wide _APPEND_LOCK is the subject of AuditChain: here requests   *)
(* that meet run on different replicas, where PostgreSQL sees every wait.  *)
(***************************************************************************)
EXTENDS PolicyEngine, FiniteSets

CONSTANTS
    Actions,      \* response actions
    Requests,     \* slots for concurrent requests
    RolesOf,      \* RolesOf[r]: roles and extra permissions of r's principal
    Wanted,       \* what may be asked for, see IsWanted
    Followed,     \* bound on the actions that are followed beyond their creation
    Policy,       \* SystemSetting response_policy
    MaxStarts,    \* bound on the number of requests in a behaviour
    Crashes,      \* whether replicas may die
    None

IsWanted(q) ==
    /\ q.action \in STRING /\ q.criticality \in STRING /\ q.live \in BOOLEAN
    /\ q.confidence \in Int /\ q.evidence \in Nat /\ q.recipients \in Nat

ASSUME GatewayAssumption ==
    /\ Requests \subseteq DOMAIN RolesOf
    /\ \A q \in Wanted : IsWanted(q)
    /\ Followed \subseteq Wanted
    /\ Policy.default \in {"deny", "allow", "require_approval"}
    /\ MaxStarts \in Nat /\ Crashes \in BOOLEAN
    /\ None \notin Requests

VARIABLES
    order,        \* order[a]: what was asked for and decided at creation
    status,       \* status[a]: committed status
    approval,     \* approval[a]: committed status of its approval request
    trail,        \* trail[a]: its committed audit entries after creation
    expired,      \* expired[a]: its four hours are over
    sent,         \* sent[a]: calls of a connector's write adapter
    confirmed,    \* confirmed[a]: those the adapter said were a success
    rowLock,      \* rowLock[a]: who has an uncommitted UPDATE of its row
    auditLock,    \* holder of the audit lock
    req,          \* req[r]: the request r is serving
    started       \* requests so far

committed == <<order, status, approval, trail>>
vars == <<committed, expired, sent, confirmed, rowLock, auditLock, req, started>>

-----------------------------------------------------------------------------
ReversibleKinds == {"isolate_endpoint", "disable_account", "block_ip", "block_domain",
                    "quarantine_email", "revoke_sessions", "increase_monitoring", "add_ioc"}
IrreversibleKinds == {"remove_email_from_mailboxes", "collect_endpoint_evidence"}

Reversible(kind) == kind \in ReversibleKinds \ IrreversibleKinds

BlastRadius(q) ==
    CASE q.action = "create_ticket" -> 0
      [] q.action \in {"isolate_endpoint", "release_endpoint", "disable_account",
                       "revoke_sessions", "increase_monitoring",
                       "collect_endpoint_evidence"} -> 1
      [] q.action = "block_ip" -> 3
      [] q.action = "block_domain" -> 4
      [] q.action \in {"quarantine_email", "remove_email_from_mailboxes"} -> q.recipients
      [] OTHER -> 2

PolicyInput(q) ==
    [action |-> q.action, criticality |-> q.criticality, confidence |-> q.confidence,
     evidence |-> q.evidence, reversible |-> Reversible(q.action), blast |-> BlastRadius(q)]

\* Anything but enrichment cites at least one confirmed fact.
Evidenced(q) == q.action \in {"increase_monitoring", "create_ticket"} \/ q.evidence > 0

NoOrder == [effect |-> "none"]
Order(q) ==
    [input |-> PolicyInput(q), effect |-> Effect(Policy, PolicyInput(q)),
     role |-> RequiredRole(Policy, PolicyInput(q)),
     reversible |-> Reversible(q.action), live |-> q.live]

Idle == [pc |-> "idle"]

Decisions == {"approve", "reject"}
Operations == Decisions \cup {"dry_run", "execute", "verify", "rollback"}

Executing(r) == req[r].op \in {"execute", "verify"}

-----------------------------------------------------------------------------
Init ==
    /\ order = [a \in Actions |-> NoOrder]
    /\ status = [a \in Actions |-> "none"]
    /\ approval = [a \in Actions |-> "none"]
    /\ trail = [a \in Actions |-> <<>>]
    /\ expired = [a \in Actions |-> FALSE]
    /\ sent = [a \in Actions |-> 0]
    /\ confirmed = [a \in Actions |-> 0]
    /\ rowLock = [a \in Actions |-> None]
    /\ auditLock = None
    /\ req = [r \in Requests |-> Idle]
    /\ started = 0

\* POST /actions.  Nobody sees the new rows before the commit, so the one
\* wait, for the audit lock, is the whole of its interaction.
CreateAction(a, q) ==
    /\ order[a] = NoOrder /\ auditLock = None /\ Evidenced(q)
    /\ order' = [order EXCEPT ![a] = Order(q)]
    /\ status' = [status EXCEPT ![a] =
                    CASE Order(q).effect = "deny" -> "blocked_by_policy"
                      [] Order(q).effect = "require_approval" -> "pending_approval"
                      [] Order(q).effect = "allow" -> "approved"]
    /\ approval' = [approval EXCEPT ![a] =
                    IF Order(q).effect = "require_approval" THEN "pending" ELSE "none"]
    /\ UNCHANGED <<trail, expired, sent, confirmed, rowLock, auditLock, req, started>>

Traced == {Order(q) : q \in Followed}

\* An action and its approval request are given the same four hours.
Expire(a) ==
    /\ order[a] \in Traced /\ ~expired[a]
    /\ expired' = [expired EXCEPT ![a] = TRUE]
    /\ UNCHANGED <<committed, sent, confirmed, rowLock, auditLock, req, started>>

\* approve and reject load the approval request first, then the action.
LoadApproval(r, op, a) ==
    /\ req[r] = Idle /\ started < MaxStarts
    /\ op \in Decisions /\ approval[a] # "none" /\ order[a] \in Traced
    /\ req' = [req EXCEPT ![r] = [pc |-> "loading", op |-> op, on |-> a, seen |-> "none",
                                  seenApproval |-> approval[a], next |-> "none", row |-> FALSE, mine |-> <<>>]]
    /\ started' = started + 1
    /\ UNCHANGED <<committed, expired, sent, confirmed, rowLock, auditLock>>

MayDecide(r, a) ==
    RolesOf[r] \cap {order[a].role, "rbac:manage"} # {}

\* Mutant of Permitted: execute does not look at the status.
PermittedUnapproved(r, op, a, seen, seenApproval) ==
    \/ op = "approve" /\ MayDecide(r, a) /\ seenApproval = "pending" /\ ~expired[a]
    \/ op = "execute" /\ seen \notin {"blocked_by_policy", "rejected"}

\* The check of each handler, on the statuses it has loaded.
Permitted(r, op, a, seen, seenApproval) ==
    \/ op = "approve" /\ MayDecide(r, a) /\ seenApproval = "pending" /\ ~expired[a]
    \/ op = "reject"
    \/ op = "dry_run" /\ seen \notin {"blocked_by_policy", "rejected"}
    \/ op = "execute" /\ seen = "approved" /\ ~expired[a]
    \/ op = "verify" /\ seen = "succeeded"
    \/ op = "rollback" /\ order[a].reversible /\ seen \in {"verified", "succeeded"}

\* The status a handler assigns.
Target(op, seen) ==
    CASE op = "approve" -> "approved"
      [] op = "reject" -> "rejected"
      [] op = "execute" -> "executing"
      [] op = "rollback" -> "rolled_back"
      [] OTHER -> seen

FirstStep(op) ==
    CASE op = "execute" -> "flushing"
      [] op = "verify" -> "verifying"
      [] OTHER -> "recording"

\* The action is loaded and checked.  A refusal changes nothing: what an
\* expired request assigns before it raises is rolled back.
DecideLoaded(r) ==
    /\ req[r].pc = "loading"
    /\ LET a == req[r].on
           seen == status[a]
       IN  IF Permitted(r, req[r].op, a, seen, req[r].seenApproval)
           THEN req' = [req EXCEPT ![r].pc = "recording", ![r].seen = seen,
                                   ![r].next = Target(req[r].op, seen),
                                   ![r].row = (Target(req[r].op, seen) # seen)]
           ELSE req' = [req EXCEPT ![r] = Idle]
    /\ UNCHANGED <<committed, expired, sent, confirmed, rowLock, auditLock, started>>

\* Of these a dry run alone may leave the row as it is, when it predicts
\* what an earlier one predicted.
LoadAction(r, op, a, row) ==
    /\ row \/ op = "dry_run"
    /\ req[r] = Idle /\ started < MaxStarts
    /\ op \notin Decisions /\ order[a] \in Traced
    /\ Permitted(r, op, a, status[a], approval[a])
    /\ req' = [req EXCEPT ![r] = [pc |-> FirstStep(op), op |-> op, on |-> a,
                                  seen |-> status[a], seenApproval |-> approval[a],
                                  next |-> Target(op, status[a]), row |-> row, mine |-> <<>>]]
    /\ started' = started + 1
    /\ UNCHANGED <<committed, expired, sent, confirmed, rowLock, auditLock>>

\* Mutant of FlushExecuting: without the flush nothing is locked.
FlushNothing(r) ==
    /\ req[r].pc = "flushing"
    /\ req' = [req EXCEPT ![r].pc = "sending"]
    /\ UNCHANGED <<committed, expired, sent, confirmed, rowLock, auditLock, started>>

\* Mutant of FlushExecuting: EXECUTING is committed for all to see.
CommitExecuting(r) ==
    /\ req[r].pc = "flushing" /\ rowLock[req[r].on] = None
    /\ rowLock' = [rowLock EXCEPT ![req[r].on] = r]
    /\ status' = [status EXCEPT ![req[r].on] = "executing"]
    /\ req' = [req EXCEPT ![r].pc = "sending"]
    /\ UNCHANGED <<order, approval, trail, expired, sent, confirmed, auditLock, started>>

\* execute: the row is updated to EXECUTING before anything is sent.
FlushExecuting(r) ==
    /\ req[r].pc = "flushing" /\ rowLock[req[r].on] = None
    /\ rowLock' = [rowLock EXCEPT ![req[r].on] = r]
    /\ req' = [req EXCEPT ![r].pc = "sending"]
    /\ UNCHANGED <<committed, expired, sent, confirmed, auditLock, started>>

Simulate(r) ==
    /\ req[r].pc = "sending" /\ ~order[req[r].on].live
    /\ req' = [req EXCEPT ![r].pc = "recording", ![r].next = "succeeded"]
    /\ UNCHANGED <<committed, expired, sent, confirmed, rowLock, auditLock, started>>

\* No enabled connector with write permission, or the adapter gives up
\* before it sends anything.
NotSent(r) ==
    /\ req[r].pc = "sending" /\ order[req[r].on].live
    /\ req' = [req EXCEPT ![r].pc = "recording", ![r].next = "failed"]
    /\ UNCHANGED <<committed, expired, sent, confirmed, rowLock, auditLock, started>>

\* Mutant of Send: the request is a success once the call is made.
SendHopefully(r, ok) ==
    /\ req[r].pc = "sending" /\ order[req[r].on].live
    /\ sent' = [sent EXCEPT ![req[r].on] = @ + 1]
    /\ confirmed' = [confirmed EXCEPT ![req[r].on] = IF ok THEN @ + 1 ELSE @]
    /\ req' = [req EXCEPT ![r].pc = "recording", ![r].next = "succeeded"]
    /\ UNCHANGED <<committed, expired, rowLock, auditLock, started>>

\* The write adapter is called: acknowledged, or refused, failed or timed out.
Send(r, ok) ==
    /\ req[r].pc = "sending" /\ order[req[r].on].live
    /\ sent' = [sent EXCEPT ![req[r].on] = @ + 1]
    /\ confirmed' = [confirmed EXCEPT ![req[r].on] = IF ok THEN @ + 1 ELSE @]
    /\ req' = [req EXCEPT ![r].pc = "recording",
                          ![r].next = IF ok THEN "succeeded" ELSE "failed"]
    /\ UNCHANGED <<committed, expired, rowLock, auditLock, started>>

\* record() begins: the audit lock, which the transaction may hold already.
TakeAuditLock(r) ==
    /\ req[r].pc = "recording" /\ auditLock \in {None, r}
    /\ auditLock' = r
    /\ req' = [req EXCEPT ![r].pc = "writing"]
    /\ UNCHANGED <<committed, expired, sent, confirmed, rowLock, started>>

Entry(r) ==
    CASE Executing(r) /\ req[r].next \in {"succeeded", "failed"} ->
           <<"executed", req[r].next = "succeeded">>
      [] Executing(r) /\ req[r].next \notin {"succeeded", "failed"} ->
           <<"verified", req[r].next = "verified">>
      [] OTHER -> <<req[r].op, TRUE>>

\* record() ends: one flush inserts the entry and updates the rows.
FlushRecord(r) ==
    LET a == req[r].on
    IN  /\ req[r].pc = "writing"
        /\ req[r].row => rowLock[a] \in {None, r}
        /\ rowLock' = IF req[r].row THEN [rowLock EXCEPT ![a] = r] ELSE rowLock
        /\ req' = [req EXCEPT ![r].mine = Append(@, Entry(r)),
                              ![r].pc = IF Executing(r) /\ req[r].next = "succeeded"
                                        THEN "verifying" ELSE "committing"]
        /\ UNCHANGED <<committed, expired, sent, confirmed, auditLock, started>>

\* verify: a simulated effect is always found, a LIVE one is asked for.
Verify(r, found) ==
    /\ req[r].pc = "verifying" /\ (order[req[r].on].live \/ found)
    /\ req' = [req EXCEPT ![r].pc = "recording",
                          ![r].next = IF found THEN "verified" ELSE "verify_failed"]
    /\ UNCHANGED <<committed, expired, sent, confirmed, rowLock, auditLock, started>>

\* Mutant of Release: a row stays locked.
ReleaseAuditOnly(rs) ==
    /\ auditLock' = IF auditLock \in rs THEN None ELSE auditLock
    /\ req' = [r \in Requests |-> IF r \in rs THEN Idle ELSE req[r]]
    /\ UNCHANGED rowLock

\* The end of the transactions of rs gives back their locks.
Release(rs) ==
    /\ rowLock' = [a \in Actions |-> IF rowLock[a] \in rs THEN None ELSE rowLock[a]]
    /\ auditLock' = IF auditLock \in rs THEN None ELSE auditLock
    /\ req' = [r \in Requests |-> IF r \in rs THEN Idle ELSE req[r]]

Commit(r) ==
    LET a == req[r].on
        decided == CASE req[r].op = "approve" -> "approved"
                     [] req[r].op = "reject" -> "rejected"
                     [] OTHER -> req[r].seenApproval
    IN  /\ req[r].pc = "committing"
        /\ status' = IF req[r].next # req[r].seen
                     THEN [status EXCEPT ![a] = req[r].next] ELSE status
        /\ approval' = IF decided # req[r].seenApproval
                       THEN [approval EXCEPT ![a] = decided] ELSE approval
        /\ trail' = [trail EXCEPT ![a] = @ \o req[r].mine]
        /\ Release({r})
        /\ UNCHANGED <<order, expired, sent, confirmed, started>>

WaitsForRow(r, s) ==
    /\ req[r].pc = "writing" /\ req[r].row
    /\ rowLock[req[r].on] = s /\ s # r

WaitsForAudit(r, s) == req[r].pc = "recording" /\ auditLock = s /\ s # r

\* PostgreSQL aborts one transaction of a cycle; the handler raises.
DeadlockAbort(r) ==
    /\ \E s \in Requests :
          \/ WaitsForRow(r, s) /\ WaitsForAudit(s, r)
          \/ WaitsForAudit(r, s) /\ WaitsForRow(s, r)
    /\ Release({r})
    /\ UNCHANGED <<committed, expired, sent, confirmed, started>>

\* The replica that serves r dies, and its connection with it.
Crash(r) ==
    /\ Crashes /\ req[r] # Idle
    /\ Release({r})
    /\ UNCHANGED <<committed, expired, sent, confirmed, started>>

\* What r does once its request is in.
Continue(r) ==
    \/ DecideLoaded(r) \/ FlushExecuting(r)
    \/ Simulate(r) \/ NotSent(r) \/ \E ok \in BOOLEAN : Send(r, ok)
    \/ TakeAuditLock(r) \/ FlushRecord(r)
    \/ \E found \in BOOLEAN : Verify(r, found)
    \/ Commit(r) \/ DeadlockAbort(r)

Next ==
    \/ \E a \in Actions, q \in Wanted : CreateAction(a, q)
    \/ \E a \in Actions : Expire(a)
    \/ \E r \in Requests, op \in Operations, a \in Actions :
          \/ LoadApproval(r, op, a)
          \/ \E row \in BOOLEAN : LoadAction(r, op, a, row)
    \/ \E r \in Requests : Continue(r) \/ Crash(r)

Spec == Init /\ [][Next]_vars

\* Threads are scheduled, connectors answer or time out, and PostgreSQL
\* grants its locks and breaks its deadlocks.
FairSpec == Spec /\ \A r \in Requests : WF_vars(Continue(r))

-----------------------------------------------------------------------------
Statuses == {"none", "blocked_by_policy", "pending_approval", "approved", "rejected",
             "executing", "succeeded", "failed", "verified", "verify_failed", "rolled_back"}

Events == {"approve", "reject", "dry_run", "executed", "verified", "rollback"}
Entries == Seq(Events \X BOOLEAN)

Request ==
    [pc : {"loading", "flushing", "sending", "recording", "writing", "verifying", "committing"},
     op : Operations, on : Actions, seen : Statuses, next : Statuses,
     seenApproval : {"none", "pending", "approved", "rejected"},
     row : BOOLEAN, mine : Entries]

\* Type invariant of the gateway's rows, locks and requests.
TypeOK ==
    /\ DOMAIN order = Actions
    /\ \A a \in Actions :
          \/ order[a] = NoOrder
          \/ /\ order[a].effect \in {"deny", "allow", "require_approval"}
             /\ order[a].reversible \in BOOLEAN /\ order[a].live \in BOOLEAN
    /\ status \in [Actions -> Statuses]
    /\ approval \in [Actions -> {"none", "pending", "approved", "rejected"}]
    /\ trail \in [Actions -> Entries]
    /\ expired \in [Actions -> BOOLEAN]
    /\ sent \in [Actions -> Nat] /\ confirmed \in [Actions -> Nat]
    /\ rowLock \in [Actions -> Requests \cup {None}]
    /\ auditLock \in Requests \cup {None}
    /\ DOMAIN req = Requests
    /\ \A r \in Requests : req[r] = Idle \/ req[r] \in Request
    /\ started \in Nat

Has(a, entry) == \E n \in DOMAIN trail[a] : trail[a][n] = entry
Cleared(a) == order[a].effect = "allow" \/ Has(a, <<"approve", TRUE>>)

\* The trail of an action explains every execution and rollback in it: an
\* execution comes after the policy allowed the action or someone approved
\* it, a rollback after an execution that was verified (response.py 305, 433).
TrailInOrder ==
    \A a \in Actions : \A n \in DOMAIN trail[a] :
        LET before(entry) == \E m \in 1..(n - 1) : trail[a][m] = entry
        IN  /\ trail[a][n][1] = "executed" =>
                  order[a].effect = "allow" \/ before(<<"approve", TRUE>>)
            /\ trail[a][n][1] = "rollback" => before(<<"verified", TRUE>>)

\* However many requests execute an action at once, one at a time is past
\* the UPDATE of line 314: connectors never see two calls for it overlap.
OneCallAtATime ==
    \A r, s \in Requests :
        /\ req[r] # Idle /\ req[r].pc = "sending"
        /\ req[s] # Idle /\ req[s].pc = "sending"
        /\ req[r].on = req[s].on
        => r = s

\* No reader meets an action half way through its execution, even when the
\* process dies there: execution and verification are one transaction.
NoHalfWay == \A a \in Actions : status[a] \notin {"executing", "succeeded"}

\* The contract of the gateway's docstring.
Reported(a) ==
    IF order[a] # NoOrder /\ order[a].live
    THEN Cardinality({n \in DOMAIN trail[a] : trail[a][n] = <<"executed", TRUE>>})
    ELSE 0

Contract == INSTANCE ResponseContract WITH
    verdict  <- [a \in Actions |-> order[a].effect],
    cleared  <- [a \in Actions |-> Cleared(a)],
    reported <- [a \in Actions |-> Reported(a)]

\* Whatever requests, crashes and deadlocks interleave, nothing is sent to a
\* connector before the policy or a human has cleared it, and the LIVE
\* successes in the trail are at most those a connector confirmed.
KeepsContract == Contract!Spec

\* Every request a replica took up comes to its end, although execute takes
\* the row before the audit lock and the other handlers the other way round.
RequestsEnd == \A r \in Requests : req[r] # Idle ~> req[r] = Idle

\* Under the seeded policy the engine's ordered rules and Rego's resolution
\* come to the same effect for every action asked for, as response.rego says
\* of itself; and where Rego names one approver, that role is required.
DecidesAsRego ==
    \A a \in Actions : order[a] # NoOrder =>
        LET i == order[a].input
        IN  /\ order[a].effect = RegoDecision(i)
            /\ \A role \in RegoApprovers(i) :
                  RegoApprovers(i) = {role} => order[a].role = role

-----------------------------------------------------------------------------
(* What the guide says and the code does not keep.                         *)

\* TLC refutes it in the instance of MC_ResponseGateway.cfg.
\* PLATFORM_GUIDE 8.2: "Every action goes through a fixed sequence: ... ->
\* execute -> verify -> rollback (if needed) -> audit".  Every call of a
\* connector is in the trail once the request that made it is over.
EveryCallAudited ==
    \A a \in Actions :
        (\A r \in Requests : req[r] = Idle) =>
            sent[a] <= Cardinality({n \in DOMAIN trail[a] : trail[a][n][1] = "executed"})
=============================================================================
