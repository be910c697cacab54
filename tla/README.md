# Formal models of AstraSOC

This directory holds TLA+ models of the AstraSOC API (`apps/api/astrasoc`), the
TLC configurations that check them on small instances, and proofs checked by
TLAPS. Paths are relative to `apps/api/astrasoc` unless they start with
`docs/` or `policies/`.

To check everything: `tlc -config MC_X.cfg <module>` for each line of the table
in section 4, and `tlapm AuditAndAgentProofs.tla`, `tlapm SessionsProofs.tla`,
`tlapm AccountsProofs.tla`, `tlapm ResponseGatewayProofs.tla`,
`tlapm RulesAndEventsProofs.tla`, `tlapm PlaybookRunsProofs.tla`,
`tlapm TenancyProofs.tla`, `tlapm OperationsProofs.tla`.

## 1. Inventory

Requests are served by FastAPI on a thread pool of one or more API replicas.
A request has one database session (`db.get_db`, autoflush off) and therefore
one transaction, which the router commits; an exception closes the session and
rolls it back. Rows are locked by the UPDATE a flush sends, never by the read,
and the production database is PostgreSQL at READ COMMITTED. SQLAlchemy writes
only the columns that differ from what was loaded. Nearly every hard behaviour
below comes from that: a handler decides on what it has loaded and writes later.

| Component | State | Operations | Hard behaviours | What makes it correct |
|---|---|---|---|---|
| Audit trail `services/audit.py` | `audit_events`, `_APPEND_LOCK` per process, one advisory lock | `record`, `verify_audit_chain` | two locks of different lifetime, rollback after a record, crash, verification while others append | the chain never forks, verification neither misses an edit nor raises a false alarm, nobody waits for ever |
| Response gateway `services/response.py`, `routers/response.py` | `response_actions`, `approval_requests`, `policy_decisions` | create, approve, reject, dry-run, execute, verify, rollback | requests on the same action overlap, row lock and audit lock in both orders, crash after the connector call, expiry | nothing is sent before policy or a human clears it; no success without a confirmation; the trail explains what was done |
| Policy engine `services/policy/engine.py` | the `response_policy` setting | `evaluate_policy` | several rules match, thresholds, a second formulation in Rego | engine and Rego agree |
| Detection content `routers/detections.py`, `routers/mssp.py` | `detection_rules` of provider and customers | create, PATCH, deploy | edit, approval and deployment overlap | only published logic reaches customers, authors do not approve their own, customers keep their own |
| Sessions `routers/auth.py`, `auth/deps.py` | `sessions`, the user's password hash | sign-in, refresh, logout, revoke, change of password | lost answers, overlapping refreshes, replayed tokens, sign-in during a change | a retry is not taken for theft, nothing revives a revoked session |
| Sign-in details `routers/auth.py`, `auth/mfa.py` | lockout counter, MFA secrets, recovery codes, challenges | failure count, enrolment, second factor | read-increment-write by overlapping attempts, enrolment against removal | counts and one-time codes hold under overlap, the factor is never half there |
| Playbooks `services/workflow.py`, `routers/playbooks.py` | `playbooks`, `playbook_versions`, `workflow_runs` | save, run, resume | overlapping decisions, saves while runs wait, crash between steps | gates hold, versions are pinned, no run is stranded |
| Delegated access and tenancy `services/tenancy.py`, `auth/context.py`, `routers/mssp.py`, `routers/rbac.py` | tenant tree, delegation policy, access grants, role assignments | grant, revoke, expire, onboard, suspend, offboard (a tenant's parent is set when it is onboarded and never changes) | access resolved at the start of a request; `settings` is one JSON column that provider and customer both rewrite | nobody comes to hold a right nobody gave; what the customer decided stands; status and activity agree |
| Cluster and events `services/cluster.py`, `services/events.py`, `routers/stream.py` | leader lock, LISTEN/NOTIFY bridge, subscriber queues | elect, sweep, publish, subscribe | leader loses its connection, full queues, reconnect, a notification sent twice | a sweep has effect once; a stream sees an event once and in order, and misses only what was dropped |
| Detection pipeline `services/pipeline.py`, `services/detection.py` | alerts, incidents, keys | ingest, deduplicate, correlate, promote | two ingests of one key | an alert of some weight is in an incident of its kind |
| Incidents and SLA `routers/incidents.py`, `services/sla.py` | incident status, due times, breaches | transition, acknowledge, sweep, escalate | sweep races transition, two leaders | a breach is announced once, clocks agree with status, an incident left late is recorded |
| Operating mode `services/mode.py` | DEMO/LIVE per tenant | switch | requests in flight keep the mode they read | data scopes do not mix |
| Agents and model gateway `services/agents/`, `services/model_gateway/`, `services/tool_broker/` | runs, provider health, token counters | run, fall back, verify, meter, probe | row locks held across model calls, counters shared by overlapping requests | data goes where policy lets it, tokens are metered, the breaker opens, every request ends |
| Connectors `services/connectors/` | configuration, health | `execute_action`, `verify_action` | timeouts whose effect is unknown | modelled as the gateway sees them |
| Secrets, egress, injection screening, reports, dashboards, knowledge, threat intelligence, query workbench, middleware, bootstrap, demo data, web console | little or none | | | pure functions, text processing, read-only views or start-up code: not modelled |

Interactions. Every component that changes state calls `audit.record`, whose
advisory lock is held to the end of the transaction: it is the one lock that all
writers share, and it decides the order of their commits. The playbook engine
creates response actions through the gateway, the gateway asks the policy engine
and calls connectors, the pipeline evaluates the rules of the detection content,
and every request is admitted by a session.

## 2. Modules

| Module | What it models | Correspondence |
|---|---|---|
| `AuditLog` | what the audit trail promises: whole transactions in one growing log | abstract |
| `AuditChain` | `record()` step by step under both locks, the transaction around it on PostgreSQL and SQLite, rollback, failed INSERT, crash of a process, `verify_audit_chain` page by page | `pc` is the position inside `record`; `pending` a transaction's flushed rows; a hash is a term over what it signs |
| `AuditAndAgentProofs` | theorems about `AuditChain` and about `AgentRuns` | EXTENDS both |
| `PolicyEngine` | rule matching and resolution, the seeded policy, `policies/response.rego` | pure operators, confidence in percent |
| `ResponseContract` | the gateway docstring: decided once, cleared before sent, no unconfirmed success | abstract |
| `ResponseGateway` | every request on an action: load, check, flush, connector call, audit record, commit; row locks, deadlock victims, crashes | EXTENDS `PolicyEngine`; `req[r]` is the handler's local state, `rowLock` the uncommitted UPDATE |
| `ResponseGatewayProofs` | theorems about `ResponseGateway` | |
| `DetectionRules` | create, PATCH and `deploy_content` for one library rule and one customer | a row has two logic columns, `matcher` and `sigma`; `Changed` is SQLAlchemy's UPDATE of changed columns |
| `RulesAndEventsProofs` | theorems about `DetectionRules` and about `LiveEvents` | EXTENDS both |
| `Sessions` | the sessions of one user, with clients that lose answers and try again | a token is its number within the session |
| `SessionsProofs` | theorems about `Sessions` | |
| `Accounts` | one user's lockout counter, second factor, recovery codes and challenge tokens, and what administrators do to them | a handler is a decision on the row it loaded (`seen`, `new`) and a commit of the columns that differ (`Merged`) |
| `AccountsProofs` | theorems about `Accounts` | |
| `PlaybookRuns` | runs of one playbook through `_advance`, decisions, saves | a step's identifier is its place in the graph; a task's effect is its success or failure |
| `PlaybookRunsProofs` | theorems about `PlaybookRuns` | |
| `Tenancy` | the customer's tenant row, delegation policy, MFA requirement, access grants, roles and their assignment, edited by provider, reseller and customer | `settings` is one column, written whole; `Resolve` is `resolve_access` |
| `TenancyProofs` | theorems about `Tenancy` | |
| `Operations` | ingestion, deduplication and correlation, incident transitions, SLA clocks, breach sweep and escalation, leader election, switch of mode | an incident is its status, severity and clock columns; `leader` is what a replica believes, `holder` whose connection has the lock |
| `OperationsProofs` | theorems about `Operations` | |
| `AgentRuns` | single runs and investigations: guardrails, route, fallback, circuit breaker, verification, budgets and metering, in one transaction with its row locks and the two audit locks; tests and edits of providers as requests too | a request's `phase` is the place in `run_agent`, `invoke` and `record`, `mine` its uncommitted rows; `Read` is what its session sees |
| `LiveEvents` | event bus, history, bridge over LISTEN/NOTIFY, bounded queues and SSE streams of several replicas | `outbox`, `channel` and a stream's `queue` are the code's queues |
| `MC_*` | instances for TLC | |

What the models have in common: a handler is split where another request can
come between (load, wait for a lock, external call, commit); what happens under
one lock between two such points is one action. A refusal that changes nothing
is a guard. A process crash and an exception both roll the transaction back.
Definitions after a comment "Mutant of X" are never used by the
specifications: each is a plausible wrong version of X, with which the property
it is meant for has been seen to fail.

The ten components have eight modules of proofs: two of these hold the theorems
of two components each, one after the other. The components so joined share no state,
and no name either: `AgentRuns` and `LiveEvents` call their specification,
initial states, steps, type invariant and variables `RunsSpec`, `RunsInit`, `RunsNext`, `RunsTypeOK`,
`runVars` and `EventsSpec`, `EventsInit`, `EventsNext`, `EventsTypeOK`, `eventVars`,
and what stands for nothing `Unset` and `Nothing`. No theorem uses facts of both.

Composition: `ResponseGateway` EXTENDS `PolicyEngine` and instantiates
`ResponseContract`; `AuditChain` instantiates `AuditLog`. `Operations` composes
pipeline, incidents, sweeper, election and mode, which all write the same rows;
`AgentRuns` composes orchestrator, gateway and metering. The other modules keep
of `record()` what matters to them, the audit lock that orders commits, because
`AuditChain` shows what it does by itself.

## 3. Abstractions and assumptions worth knowing

- `AuditChain`: hashes are collision-free terms. On SQLite there is one process
  and one writer; a wait for the writer may end with "database is locked".
  Cutting off the newest rows of the table is not among the edits
  `AlterationDetected` speaks of: nothing outside the table says how long it was.
- `ResponseGateway`: the requests that meet run on different replicas, so that
  PostgreSQL sees every wait. In one process the two locks of `record()` can
  stop both for ever; that is shown separately by `audit_deadlock`. A connector
  call is one step that is acknowledged, refused or not sent. Two executions
  that overlap do not call the connector at the same time, but the second does
  call it again: the status it checked was read before. The model allows this
  as the code does.
- `DetectionRules`: the logic is two columns, of the six that there are: `matcher`,
  and `sigma` for the other five. A PATCH may give a new value to either or to
  both, or repeat what is there, and every new value is another one. An UPDATE writes
  each column by itself, so overlapping deployments can leave a copy with columns of
  two versions: `mixed` records the copies written on other logic than their writer
  had loaded, and `CopiesAreWhole`, which does without it, is refuted. The additional guard of `deploy_content` on AI-generated
  rules is left out: the rule of the model is not AI-generated. Replay, the query
  workbench and evaluation of rules change no rule.
- `Sessions`: accounts without a second factor; users and tenants stay active;
  API keys are not sessions. Time is a counter, and a client that tries again
  does so within the grace period. `KeepsSession` is about clients that send one
  refresh after the other.
- `PlaybookRuns`: a request that saves takes the audit lock and commits in one
  step, as nothing between the two depends on others. Runs of other playbooks
  and what tasks do elsewhere are outside. Approvers have one role at a time.
- `Accounts`: time is counted in TOTP steps, and lockout and challenges last a
  small number of them. The password, its change and refresh tokens are in
  `Sessions`. An administrator's request revokes the sessions it found when it
  looked (`found`), not one that a sign-in commits meanwhile. The notification mails are
  left out.
- `Tenancy`: one provider, one reseller, one customer. `get_tenant` and lists are
  left out. A grant's expiry is a step of its own (`Lapse`), which may come
  at any time. `tangled`, `overruled`, `crossed` and `given` are history
  variables: they record that two writers of one column overlapped, that the
  provider had put its requirement in place of the customer's, and what a
  platform administrator handed out. Permissions are names and wildcards, and
  `Rights` is the set of rights that a role amounts to when `*`, `mssp:*` and
  `platform:*` are expanded as `role_has_permission` does. A platform
  administrator may put these into a customer's role; `_check_grantable` and
  `_role_permissions` compare names only, so `CustomersStayCustomers` and
  `DelegatesStayOut`, which say what the documents say, are refuted, and
  `RightsDoNotGrow` bounds rights by what was there and what was handed out.
- `Operations`: an event is its deduplication key, entity and severity.
  The readiness checks before a switch to LIVE are taken to pass. Ingestion's own
  escalation of a critical incident is in `Announced`, but its delivery
  to contacts is not followed further. Entities, evidence and timeline are data.
- `AgentRuns`: a deployment stands for its provider. The row of the simulated
  provider is neither written nor locked here, although the code counts its calls:
  no decision reads it, and its lock would be one more of those whose cycles PostgreSQL
  breaks. One usage row
  stands for the agent-run and the token counter, which are written together; it is
  there from the start, so that the insertion of a month's first row under a savepoint
  (`services/metering.py:40-51`) is not modelled.
  Everything happens on one day. A region is what a provider `serves`. There are two
  classes of data. The tool broker appears as a run that is refused, and what
  a run writes into the case is left out. `audit.record` is in the model with its two
  locks, the process's until it returns and the advisory lock until the commit: a single
  run, a test and an edit record while their rows are held, an investigation after it
  has committed them. `Process` says which process serves a request. In the instance
  each has its own, so that PostgreSQL sees every wait; with two in one process
  `RunsEnd` is refuted (section 6). The switch of mode, changes of agents and of routes
  are one step each, taken when the advisory lock is free.
- `LiveEvents`: the ticket and the session are looked up in one step and tickets
  do not expire. The replay of recent events is yielded at once. A sender
  takes an event and notifies in one step, which may fail once. The
  instance has its stream on one replica and publishers on both: streams are
  alike.

## 4. Runs

| Run | Configuration | Instance | What it shows |
|---|---|---|---|
| `audit_chain` | `MC_AuditChain.cfg` | three replicas, four requests with one or two records, pages of two, both databases; 80 560 states | no fork, gap or refused append; no false alarm; every altered chain reported; implements `AuditLog`; every request ends |
| `audit_deadlock` | `MC_AuditDeadlock.cfg` | one process, two requests, one with two records | violation of `RequestsEnd`: the process lock and the advisory lock wait for each other |
| `response_gateway` | `MC_ResponseGateway.cfg` | one action of any effect, two requests at a time, five in all, crashes; 800 more inputs around every threshold up to the decision; 550 613 states | the engine decides as the Rego policy; order of the trail, no overlapping calls, nothing half done, implements `ResponseContract`, every request ends |
| `detection_rules` | `MC_DetectionRules.cfg` | a draft and a rule already distributed, two requests at a time, four in all, symmetric slots; 1 389 579 states | each column a customer runs was published, and the columns together unless deployments overlapped; customers keep their own; creators never approve |
| `sessions` | `MC_Sessions.cfg` | two sessions, two requests at a time, five in all, clock to 3; 464 654 states | retries in time are never theft, revocation is final, a change of password leaves only who knew it |
| `playbook_runs` | `MC_PlaybookRuns.cfg` | two runs, two graphs, two requests at a time, five in all; 842 054 states | gates, pinned versions, completion, crash consistency |
| `accounts` | `MC_Accounts.cfg` | two requests at a time, six in all, two failures lock, clock to 2; 1 813 157 states | the factor is whole, guesses are bounded, codes are used once unless requests overlapped |
| `tenancy` | `MC_Tenancy.cfg` | reseller and customer, two requests at a time, a budget for each kind; 227 902 states | the customer's policy stands, status and activity agree, rights do not grow, by wildcards or names |
| `customer_mfa_stands` | `MC_CustomerMfaStands.cfg` | as above | violation: the provider asks for what the customer requires already, and then lifts it |
| `operations` | `MC_Operations.cfg` | two replicas, two alerts, two incidents, two requests at a time, clock to 4; 246 800 states | clocks agree, breaches told once, alerts filed, lateness recorded |
| `agent_runs` | `MC_AgentRuns.cfg` | two requests: an investigation of two runs, a single run, a test or an edit, each in a process of its own; two real providers and the simulated one, one change, fault or tick; 535 656 states | data within policy, tokens metered, breaker opens, every request ends |
| `live_events` | `MC_LiveEvents.cfg` | two replicas, two publishers, two events, queues of one, one fault or reconnection; 460 253 states | once and in order, and whatever is not dropped arrives |

Bounds. Each hazard is a meeting of two requests, so two slots that are reused
are enough for it, and `MaxStarts` (or `Budget`) leaves room for what has to
precede it: in `Sessions` sign-in, lost refresh, retry, and two more; in
`PlaybookRuns` a start, two overlapping decisions, another decision and a save.
Pages of two records meet chains of up to six. The graphs of `PlaybookRuns` have
consecutive approvals, a condition before one, a task that may fail and one that
halts. `MC_DetectionRules`, `MC_Sessions`, `MC_PlaybookRuns`, `MC_Accounts` and
`MC_Tenancy` declare symmetry of rows, runs, sessions or requests; they check safety only
and no definition tells those values apart (the choice of a row in
`DetectionRules!LoadTarget` is used when there is only one).
In `Accounts` two failures lock, so that two overlapping attempts can miss the
threshold and a third meet it (the three wrong answers of the bound are reached), and
six requests make room for an enrolment, its use, its removal and a second enrolment. `Tenancy` bounds each kind of request by
itself, with two at a time. `Operations` gives a missed acknowledgement and
a missed resolution time to be found by overlapping sweeps, and steps enough for
an ingest, an edit and a switch. In `AgentRuns` two failures open a breaker, and
limits of two are met by two answers. Queues of one in `LiveEvents` are full after one
event; a fault there is a failing notification, a lost listener, a restart or an
event too large. A second notification that fails in succession is
beyond its `MaxChanges`. Deadlock is checked for `audit_chain`, where verification can always go on; the
other instances stop when their requests are used up.

Fairness. `AuditChain!FairSpec` and `ResponseGateway!FairSpec` assume weak
fairness of each request's own steps: threads are scheduled, handlers and
connectors return or time out, the database grants a free lock and breaks its
own deadlocks. No fairness is assumed of clients, crashes or verification. Weak
fairness is enough although locks are not queued, as a bounded number of requests
can overtake. `Operations!FairSpec` has fairness of each replica's election round
and of its sweep, which run on timers; clients, disconnections and restarts have
none. `AgentRuns!FairRuns` has it of each request's own steps: providers answer or
time out, and PostgreSQL breaks deadlocks. `LiveEvents!FairSpec` has it of
publishing threads, of the bridge's sender and listener, and of streams that
are read. `Sessions`, `Accounts`, `Tenancy`, `PlaybookRuns` and `DetectionRules`
have no liveness property: nothing in that code runs without a client asking.

Properties. The comment before each property names the lines it is about. Those
to read first: `ChainIntact`, `NoFalseAlarm`, `WholeTransactions` (`AuditChain`);
`TrailInOrder`, `KeepsContract`, `NoHalfWay` (`ResponseGateway`);
`CopiesWerePublished` (`DetectionRules`); `NeverAccused`, `LiveSinceChange`
(`Sessions`); `GateHolds`, `PinnedGraph`, `NeverStranded` (`PlaybookRuns`);
`GuessesBounded` (`Accounts`); `RightsDoNotGrow` (`Tenancy`); `LateIsRecorded`
(`Operations`); `TokensMetered` (`AgentRuns`); `OnceInOrder` (`LiveEvents`). Each
module has a type invariant `TypeOK` (`RunsTypeOK`, `EventsTypeOK`); it holds in every instance above, and is
listed among the properties only where noted in the configuration.
Some definitions state what a document says and the code does not keep
(`EveryCallAudited`, `LiveWasApproved`, `CopiesAreWhole`, `CompletedOnce`,
`CustomersStayCustomers`, `DelegatesStayOut`, `VerifierWithinClass`,
`SimulatedStaysSimulated`, `CircuitsHonored`): put in place of the properties of the module's
configuration, each is refuted by TLC, the last with the routes `OneProvider` and the start
`StartOneProvider` that `MC_AgentRuns` also defines. So is `RunsEnd` with `OneProcess` for `Process`.

## 5. Proofs

TLAPS proves the following for every value of the constants: any number of
requests, sessions, replicas, records, rows and bodies, any page size, grace
period and lifetime. The bounds of the models (`Budget`, `MaxStarts`, `MaxTime`) are
constants too, so nothing depends on their value. The assumptions are
`AuditAssumption`, `SessionAssumption`, `GatewayAssumption`, `RuleAssumption`,
`PlaybookAssumption`, `AccountAssumption`, `TenancyAssumption`,
`OperationsAssumption`, `AgentRunsAssumption` and `LiveEventsAssumption`. They type the constants and keep `None` apart from the rows it
stands for the absence of. `TenancyAssumption` also says what the seeded catalogue does:
the built-in roles of a customer hold no permission of the provider, the names that
the code mentions are among them, and the roles and staff of the instance are distinct.
`RetryIsNotTheft` also assumes `Grace > 0`, without which there is no retry, and
`SeededPolicyIsRego` that the policy is the seeded one. `GuessesCounted` is about limits
above one and at most two requests at a time, as its property says. `AgentRunsAssumption`
asks for a cooldown that takes time, answers that take tokens and plans that run some agent;
`LiveEventsAssumption` for a history of at least one event (the code keeps 500), as
`deque(maxlen=0)` would be another program.

| Theorem | Property |
|---|---|
| `AuditAndAgentProofs!TypeCorrect` | `TypeOK` |
| `AuditAndAgentProofs!ChainNeverForks` | `ChainIntact` |
| `AuditAndAgentProofs!NoRefusedAppend` | `AppendsSerialised` |
| `AuditAndAgentProofs!WalkNeverAlarms` | `NoFalseAlarm` |
| `AuditAndAgentProofs!EditsAreSeen` | `AlterationDetected` |
| `AuditAndAgentProofs!ImplementsAuditLog` | `WholeTransactions`, the refinement of `AuditLog` |
| `SessionsProofs!TypeCorrect` | `TypeOK` |
| `SessionsProofs!RevocationIsFinal` | `RevokedIsFinal` |
| `SessionsProofs!KnewThePassword` | `LiveSinceChange` |
| `SessionsProofs!RetryIsNotTheft` | `NeverAccused` |
| `SessionsProofs!ClientKeepsSession` | `KeepsSession` |
| `AccountsProofs!TypeCorrect` | `TypeOK` |
| `AccountsProofs!FactorHolds` | `FactorWhole` |
| `AccountsProofs!GuessesCounted` | `GuessesBounded` |
| `AccountsProofs!CodesOnce` | `OneTimeCodes` |
| `ResponseGatewayProofs!TypeCorrect` | `TypeOK` |
| `ResponseGatewayProofs!OneCall` | `OneCallAtATime` |
| `ResponseGatewayProofs!NeverHalfWay` | `NoHalfWay` |
| `ResponseGatewayProofs!TrailExplains` | `TrailInOrder` |
| `ResponseGatewayProofs!SeededPolicyIsRego` | `DecidesAsRego` |
| `ResponseGatewayProofs!ImplementsContract` | `KeepsContract`, the refinement of `ResponseContract` |
| `RulesAndEventsProofs!TypeCorrect` | `TypeOK` |
| `RulesAndEventsProofs!AuthorsNeverApprove` | `CreatorNeverApproves` |
| `RulesAndEventsProofs!OnlyPublishedIsCopied` | `CopiesWerePublished` |
| `RulesAndEventsProofs!DeploymentsKeepOwn` | `CustomerKeepsOwn` |
| `PlaybookRunsProofs!TypeCorrect` | `TypeOK` |
| `PlaybookRunsProofs!GatesHold` | `GateHolds` |
| `PlaybookRunsProofs!GraphIsPinned` | `PinnedGraph` |
| `PlaybookRunsProofs!NoneStranded` | `NeverStranded` |
| `PlaybookRunsProofs!CompletedIsWhole` | `CompletedMeansAll` |
| `TenancyProofs!TypeCorrect` | `TypeOK` |
| `TenancyProofs!StatusKept` | `StatusAgrees` |
| `TenancyProofs!PolicyKept` | `PolicyStands` |
| `TenancyProofs!RightsKept` | `RightsDoNotGrow` |
| `OperationsProofs!TypeCorrect` | `TypeOK` |
| `OperationsProofs!ClocksKept` | `ClocksAgree` |
| `OperationsProofs!AnnouncedOnce` | `ToldOnce` |
| `OperationsProofs!FilingKept` | `AlertsFiled` |
| `RulesAndEventsProofs!EventsTypeCorrect` | `EventsTypeOK` |
| `RulesAndEventsProofs!DeliveredOnceInOrder` | `OnceInOrder` |
| `AuditAndAgentProofs!RunsTypeCorrect` | `RunsTypeOK` |
| `AuditAndAgentProofs!DataIsKept` | `DataStaysWithin` |
| `AuditAndAgentProofs!TokensCounted` | `TokensMetered` |
| `AuditAndAgentProofs!CircuitsHold` | `BreakerHolds` |

*Audit chain.* `ChainIntact` is not inductive: whether an append extends the
chain depends on what the request read as the last row. The invariant adds that
the committed table followed by what a transaction has flushed is dense and
chained (the unique index of `sequence` sees to that even without a lock), and
`RequestInv`: who is past the advisory lock holds it (`Held`), and what it has
read as the last row is a row it still sees at its INSERT (`Seen`), and on
PostgreSQL the number after it is not taken, because others append under the
same lock and release it with their commit. So no INSERT is refused there. A verification holds no lock; its part of the invariant says
that what it has walked is a prefix of the table, which only grows. The
refinement maps the abstract log to the committed rows and needs `BodyInv`: what
a transaction has flushed is exactly the records it was asked for so far, and
every committed row belongs to a finished request. `EditsAreSeen` needs in addition that
no two committed rows record the same thing (`Distinct`): then a record or signature taken
from another row leaves a signature that is not of its row, and a deletion leaves a
gap, or, if the rows behind it are renumbered, a signature of another number.

*Sessions.* `TypeOK` is inductive only with `ServedInv`: what a request read is
still so when it commits, as rows do not go away, a sign-in's row is not there
yet and belongs to one request only, and tokens are only added. `RevokedIsFinal` then
follows from the columns each step writes (`RowsKeptBy`). `LiveSinceChange`
needs `PasswordInv`: a change of password that has looked for the other sessions
has every live one on its list, except the ones marked as signed in meanwhile.
The two theorems about clients share `StepOf`, which says that a step leaves a
session and its client alone or is a sign-in, a refresh sent, a replay or a
rotation. `RetryIsNotTheft` rests on `InTime`: a client whose token is the
previous one began to try before the rotation that made it so, and this holds
already of every rotation under way that will make it so; as it retries only within
the grace period of its first attempt, the rotation is younger than that.
`ClientKeepsSession` rests on `OneAtATime`: one refresh in flight at most, made
with the current token on the first attempt.

*Accounts.* A commit writes the columns that differ from what the request loaded, so
each invariant says what a request changes in terms of what it loaded (`Job`, `Effect`).
`FactorHolds`: a request turns the flag and the secret together or neither (`WholeJob`),
and two such commits leave them together in any order. `GuessesCounted`: a wrong answer
writes one more than it read, the other request stands on the counter as it is
(`CountInv`), and what may have been answered is bounded by the room between the
count that the slower of the two read and the limit (`Within`). The attempt to prove this found
that the bound is reached, where an earlier form said it was not: the instance checked
until then had a limit of three, and its six requests do not suffice for that. The
present one, with a limit of two, reaches it. `CodesOnce` needs `OnceInv`: every spent code is
dead, that is, no factor that is committed, pending or about to be committed can be proved
with it. Secrets and sets of recovery codes are numbered as they are made, so a new
enrolment brings none of them back, and a request whose row has moved on
under it (`stale`) counts as an overlap.

*Gateway.* A handler acts on what it loaded, so no property follows from the
committed rows alone. `Inv` adds `InHand`, what each request still relies on
although others have committed since: an execution's action is cleared, it holds
the row lock from its flush on, a rollback's action has a verified execution in
its trail, and the entries a request has flushed are those of its `Course`; and
`Meaning`, what a committed status says of the trail. Clearances and entries are
never withdrawn, so a commit disturbs none of this for the others. `KeepsContract`
also needs `Credit`: an execution with a success in hand that is not yet in the
trail has a confirmation that no entry counts, because the row lock lets one
execution at a time be there. Creation maps to the contract's decision, the
commit of an approval to its clearance, a connector call to itself, the commit
of a LIVE success to its report, and every other step to a stutter.

*Detection rules.* The three properties are about rows that an UPDATE composes of
what its request loaded and what others have committed since (`Changed`), so `Inv`
adds `InHand`: a PATCH leaves target, author and a managed row's logic alone and
does not bring an approval by the author it loaded; a deployment brings logic that
was published and the exceptions it loaded, over a managed row or none. Of a copy,
`Provided` says that each of its columns is one of published logic, which any merge of
columns keeps, and that all are of the same logic if the copy is not in `mixed`: a
deployment that finds the logic it had loaded writes the whole of its own. This
survives the others' commits because no step changes a row's target, or the author
of a row that is not managed, or removes a row (`Kept`). What is published is
only added to, so it does not matter that the source row has changed since.

*Playbook runs.* A request advances a run over the history and the graph it loaded,
so `Inv` says what each request may rely on until it commits (`Serves`): what it has
done lies behind approvals that are in the log or in hand (`Gated`), its history skips
no step, shows no failure that halts and counts no approval that was not given
(`Sound`), and all of it is of one graph. The last needs `PinnedIn`: the graph of a
version number is that of its first row, which never changes. Overlapping saves may make
a second row of that number, but then no request can read it. A run that waits keeps the same
(`Waits`), so whoever resumes it starts from it, and a request that completes a run has
all of its graph in its history (`Covered`). Logs and versions only grow, so the commits
of others disturb none of this, and a run that is not yet committed belongs to the one
request that started it (`Alone`).

*Tenancy.* `StatusKept` and `PolicyKept` are about rows laid on others (`Merged`): while
no two changes overlapped, a request's row differs from the committed one only in columns
that it does not write, so both columns of the status come from the same request, and
the settings it carries over are those the customer saved. `RightsKept` carries
the origin of each permission: a role, a grant and an assignment in force stay
within `Reach`, what was there at first and what platform administrators
gave, and so does what a request has been allowed to write and not yet committed
(`RightsJob`). A request by someone who has lost the right meanwhile adds nothing new,
because `Reach` only grows and who asked was within it when the check was made. What a set
of permissions amounts to (`Rights`) grows with the set, and a wildcard that may be
handed out is covered by what the granter has (`Violations`), so bounds on permissions
carry over to rights. A role amounts to a right of the provider or the platform
only by what platform administrators gave, because the built-in roles have neither those names
nor those wildcards (`CeilingPlain`).

*Operations.* A handler in flight is the rows it loaded and those it wants. What it makes
of an incident agrees with itself whenever what it loaded did (`Derived`), and when its
columns are laid on a row that others changed meanwhile, the result has the clocks
of the one or of the other, unless both changed them (`Merging`, `clash`). `ClocksKept`
follows: due times fit the severity, the time of resolution fits the status (`Fits`),
and a recorded breach lies behind its due time (`Grounded`), which no later edit
undoes except by new due times. `AnnouncedOnce` needs `ToldInv`: while no sweep has outlived
its maker's lock or failed, only the holder of the lock sweeps, and
every target announced is recorded or about to be by the sweep in hand (`Known`), so that no sweep finds
it again. `FilingKept` needs that what an ingest found at its look is what is
there at its commit, unless another committed in between (`doubled`), that a scope never
changes, and that keys are taken from a count of incidents, which only rises (`Counted`).

*Live events.* That a stream has seen things in order says nothing of what it will see
next, so `InPipeline` follows an event through every place it can be in: a
thread's hand, its replica's outbox or retry, the channel of every other replica, the calls
scheduled on a loop, a stream's queue. In each of these the events of a thread are in order
(`InOrder`), and whatever is further along comes before whatever is not (`Ahead`): what was
notified before what waits for the sender (`BridgeInOrder`), what is scheduled before what
is still to come to that replica (`CallsInOrder`), what a stream has shown or queued
before all of it (`StreamInOrder`). Two facts keep the places apart. Everything in
an outbox was published on its replica (`Waiting`), and a listener leaves out its own
replica's notifications, so that no event reaches a loop by two ways. The one exception
is carried along: an event may follow itself if its notification was retried (`again`). Drops,
lost connections and restarts only take events away.

*Agent runs.* A request spends most of its time waiting for a model, with rows it
read before and rows it has written and not committed. `Governed` says of the rows
it holds (`Kept`) that they are well typed and that no two requests hold the same
uncommitted row (`Locked`: the UPDATE's row lock). `DataIsKept` needs that whom a
run may still turn to is loaded and permitted under the policy and for the class it began with
(`Cleared`); whatever differs when the call is made has been changed in between.
A request in `record()` holds what it wrote and what it has yet to flush, and is
treated as one that flushes at the end of a run: the locks themselves matter to
liveness only. A test and an edit are requests like runs, so everything below is
about them too. `TokensCounted` needs `Paid`: a request that has not written the counter owes what
its run at hand adds; one that has written it holds its row, so that what it wrote
and will add is what was owed before and what it owes itself, exactly, unless two
requests took the same reading (`raced`). `CircuitsHold` is the longest. History
variables count the failures of a provider since its last success (`ill`) and when its
cooldown ends (`due`), whoever saw them; the property compares a call with those, while the code
only sees a row, which may be an older copy. The invariant (`Watched`) says that, unless
requests overlapped on the provider, whoever has changed or is testing it is the
only one; that the row as it will be when that request commits tells of all failures
(`Landed`, `Tells`: the UPDATE writes only columns that differ, so what was loaded
counts as well); and that while no one has changed it, the row itself does. Whom a run may turn to
was not waiting when loaded (`Ready`), and time only goes on. The attempt to
prove this showed that the model did not look at the verifier's call, and that a route may name a
provider twice, in which case the second call is made on a circuit that has just
opened (`CircuitsHonored`); the property now covers the first and excepts the second.

What is only model-checked: liveness (`RequestsEnd`, `RunsEnd`, `LateIsRecorded`,
`ReachesStreams`), which is beyond TLAPS. Every invariant, action property and
refinement of the passing runs is proved.

## 6. What the models found

`PROJECT.json` has the list with lines and quotations. In short:

- two locks of different lifetime in `record()` can stop a process (`audit_deadlock`);
- `execute` locks the row before the audit lock, the other handlers after it, and
  the victim's connector call leaves no trace (`EveryCallAudited`);
- one PATCH with logic and `deployed` bypasses re-approval (`LiveWasApproved`);
- overlapping deployments leave a customer's copy with columns of two versions of
  the rule (`CopiesAreWhole`);
- overlapping decisions re-execute steps (`CompletedOnce`) and may replace the
  history of a completed run by an older one;
- two overlapping saves make two rows of one playbook version, after which its
  runs raise;
- what is assigned before `ResponseError` for an expired approval is rolled back;
- `reject` has no check of the approval's status; LIVE rollback calls no connector;
- guide, Rego file and engine differ on tickets and on who approves irreversible
  actions on critical assets;
- a previous refresh token is accepted by every refresh that overlaps within the
  grace period, not "at most once"; an older one is not recognised as reuse; a
  sign-in under way while the password changes leaves a session that survives;
- overlapping sign-ins are admitted by the same one-time code, and overlapping
  failures count as one;
- the provider takes over and lifts a customer's MFA requirement
  (`customer_mfa_stands`); contract edits overwrite what the customer saved
  meanwhile; a tenant activated during its purge is purged; overlapping changes of
  status leave a tenant suspended and active;
- a platform administrator can give a customer's role `platform:*`, `mssp:*` or `*`,
  and the customer's users (`CustomersStayCustomers`), and by the first two
  delegates (`DelegatesStayOut`), then have those rights;
- contacts saved through the API are never escalated to; DEMO incidents are
  escalated by real messages after a switch to LIVE (`SimulatedStaysSimulated`);
  a target missed and met late between two sweeps is not recorded;
- the verifier is chosen without regard to the class of the data
  (`VerifierWithinClass`); its tokens, and those of runs that end over budget, are
  not metered; overlapping increments are lost; a hanging primary provider uses up the
  time in which the fallback should answer; circuits are looked at when models are
  chosen and not between the calls (`CircuitsHonored`);
- in one process, a single run that waits for the process lock of `record()` with a
  provider's row locked, and a change or test of that provider that waits for the
  row with the process lock, wait for ever (`RunsEnd` with one process);
- a busy stream outlives its revoked session; a notification that is tried
  again may be delivered twice.

## 7. Plan

Done: audit chain, response gateway with policy, detection rules, sessions,
accounts, playbook runs, tenancy, operations, agent runs, live events, and the
proofs of section 5.

What could come next: shift handover and bulk queues of the portfolio; evidence and
tasks of incidents; the purge of a tenant against its activation as a property, once the
code decides it. Liveness stays with TLC.

## 8. Not modelled

Text: prompt-injection patterns, data-loss scrubbing, report layout, query translation.
Cryptography: HMAC, JWT, TOTP and password hashing are taken as functions.
Network: egress checks, webhooks, connector protocols. Start-up: migrations and
seeding, under one advisory lock before requests are served. Rate limiting, whose
counters are best effort by design. The web console, which only calls the API.
