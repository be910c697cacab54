------------------------------ MODULE AgentRuns ------------------------------
(***************************************************************************)
(* One tenant's AI runs: the orchestrator's single runs and                *)
(* investigations, the model gateway with its routing, circuit breaker,    *)
(* fallback and verification, the guardrails that decide what a provider   *)
(* may receive, and the tokens metered, from                               *)
(* services/agents/orchestrator.py, services/model_gateway/gateway.py,     *)
(* guardrails.py, services/metering.py, routers/agents.py,                 *)
(* routers/models.py and routers/system.py.                                *)
(*                                                                         *)
(* A request is one transaction.  The session flushes at the end of each   *)
(* run and so keeps the rows it wrote locked while later runs wait for     *)
(* models.  A deployment stands for its provider; the built-in reasoner is *)
(* the provider Sim.                                                       *)
(***************************************************************************)
EXTENDS Naturals, Sequences, FiniteSets, SequencesExt, Functions

CONSTANTS Requests, Unset,
          Process,       \* the process that serves a request
          Sim, Order,    \* the built-in provider; all providers by primary key
          Private,       \* providers that are private
          Agents,        \* agent |-> cap, cls, patience (hung calls that exceed its time), budget, forced
          Plans,         \* the agents a kind of request runs, in order
          Routes,        \* routes an administrator may set
          Policies,      \* operating mode and tenant settings
          Configs,       \* what an administrator sets of a provider
          Start,         \* the policy, routes and providers set up at first
          Sizes,         \* tokens an answer may take
          DailyLimit, MonthlyBudget,    \* 0 is unlimited
          Threshold, Cooldown,
          MaxRequests, MaxChanges    \* requests; changes by administrators, faults and ticks

Providers == Range(Order)
Reals == Providers \ {Sim}
Usage == "usage"
Rows == Providers \cup {Usage}
Capabilities == {Agents[a].cap : a \in DOMAIN Agents}

Config == [on : BOOLEAN, allow : Nat, serves : BOOLEAN]
Choice == Providers \cup {Unset}

ProviderRow == [on : BOOLEAN, allow : Nat, serves : BOOLEAN, fails : Nat, until : Nat, used : Nat]
UsageRow == [quantity : Nat]

\* Rows by name, as a request has read them, changed them or written them.
Tables == UNION {[names -> ProviderRow \cup UsageRow] : names \in SUBSET Rows}

\* "append" waits for the _APPEND_LOCK of the process and "chain", holding it,
\* for the advisory lock; "record" writes under both and "close" commits.
Phases == {"run", "call", "verify", "flush", "commit", "probe", "append", "chain", "record", "close"}
InFlight == [plan : Seq(DOMAIN Agents), at : Nat, phase : Phases, pol : Policies \cup {Unset},
             to : Routes \cup {Unset}, cand : Seq(Providers),
             seen : Tables, new : Tables, mine : Tables, used : Choice, tokens : Nat, hung : Nat, owed : Nat]

ASSUME AgentRunsAssumption ==
    /\ Order \in Seq(Providers) /\ Sim \in Providers /\ Private \subseteq Reals
    /\ Usage \notin Providers /\ Unset \notin Providers \cup Requests /\ Unset \notin InFlight
    /\ DOMAIN Process = Requests
    /\ \A a \in DOMAIN Agents : Agents[a].cls \in Nat /\ Agents[a].patience \in Nat /\ Agents[a].budget \in Nat
    /\ \A kind \in DOMAIN Plans : Plans[kind] \in Seq(DOMAIN Agents) /\ Plans[kind] # <<>>
    /\ \A to \in Routes : to.primary \in Choice /\ to.fallback \in Choice /\ to.verifier \in Choice
    /\ Configs \subseteq Config /\ Start.config \in [Providers -> Config]
    /\ Start.policy \in Policies /\ Start.route \in [Capabilities -> Routes]
    /\ {DailyLimit, MonthlyBudget, Threshold, MaxRequests, MaxChanges} \subseteq Nat
    /\ Cooldown \in Nat \ {0} /\ Sizes \subseteq Nat \ {0}

VARIABLES policy,     \* operating mode, settings and plan, as committed
          route,      \* model_routes by capability
          off,        \* agents disabled, or whose snapshot takes more tool calls than they may make
          row,        \* model_providers, and the usage counter llm_tokens
          req,        \* requests in flight
          clock, started, changes,
          strays,     \* what a real provider has received although the rules forbade it
          owed,       \* tokens of the answers that committed runs used
          raced,      \* the counter was written from a quantity no longer current
          ill, due,   \* failures in a row of each provider, and when it may be tried again
          mixed,      \* providers whose row overlapping or abandoned requests have used
          battered    \* providers called again before that time

config == <<policy, route, off>>
ghosts == <<strays, owed, raced, ill, due, mixed, battered>>
runVars == <<policy, route, off, row, req, clock, started, changes, strays, owed, raced, ill, due, mixed, battered>>

Fresh(c) == [on |-> c.on, allow |-> c.allow, serves |-> c.serves, fails |-> 0, until |-> 0, used |-> 0]
Busy == {r \in Requests : req[r] # Unset}
Free == IF Busy = Requests THEN Unset ELSE CHOOSE r \in Requests : req[r] = Unset

RunsTypeOK ==
    /\ policy \in Policies /\ off \subseteq DOMAIN Agents /\ DOMAIN row = Rows
    /\ \A c \in Capabilities : route[c] \in Routes
    /\ \A p \in Providers : row[p].fails \in Nat /\ row[p].until \in 0..(clock + Cooldown) /\ row[p].used \in Nat
    /\ \A r \in Busy :
          /\ req[r] \in InFlight /\ req[r].at <= Len(req[r].plan) + 1
          /\ DOMAIN req[r].new \subseteq DOMAIN req[r].seen
    \* An uncommitted row has one writer.
    /\ \A r, s \in Busy : r # s => DOMAIN req[r].mine \cap DOMAIN req[s].mine = {}

RunsInit ==
    /\ policy = Start.policy /\ route = Start.route /\ off = {}
    /\ row = [x \in Rows |-> IF x = Usage THEN [quantity |-> 0] ELSE Fresh(Start.config[x])]
    /\ req = [r \in Requests |-> Unset] /\ clock = 1 /\ started = 0 /\ changes = 0
    /\ strays = {} /\ owed = 0 /\ raced = FALSE /\ mixed = {} /\ battered = {}
    /\ ill = [p \in Providers |-> 0] /\ due = [p \in Providers |-> 0]

-----------------------------------------------------------------------------
(* What a provider may receive.                                            *)

\* What the rules permit, whatever has been spent.
Permitted(p, r, pol, cls) ==
    /\ pol.ai
    /\ p # Sim =>
        /\ pol.strategy # "simulated" /\ pol.external
        /\ pol.strategy = "private" => p \in Private
        /\ (pol.strategy = "hybrid" /\ cls > 1) => p \in Private
        /\ cls <= r.allow /\ r.serves

\* Mutant of Allowed: a provider may receive data one class above its allowance.
AllowedAbove(p, r, pol, cls, metered) ==
    /\ Permitted(p, [r EXCEPT !.allow = @ + 1], pol, cls)
    /\ p # Sim =>
        /\ DailyLimit # 0 => r.used < DailyLimit
        /\ MonthlyBudget # 0 => metered < MonthlyBudget

\* provider_allowed.
Allowed(p, r, pol, cls, metered) ==
    /\ Permitted(p, r, pol, cls)
    /\ p # Sim =>
        /\ DailyLimit # 0 => r.used < DailyLimit
        /\ MonthlyBudget # 0 => metered < MonthlyBudget

\* Mutant of Read: what the request has flushed is not seen.
ReadCommitted(r, x) == row[x]

\* A request sees what is committed and what it has flushed.
Read(r, x) == IF x \in DOMAIN req[r].mine THEN req[r].mine[x] ELSE row[x]

CircuitOpen(prow) == prow.until > clock

Agent(r) == req[r].plan[req[r].at]
Route(r) == route[Agents[Agent(r)].cap]

Candidates(r, pol) ==
    LET usable(p) == /\ p # Unset /\ Read(r, p).on /\ ~CircuitOpen(Read(r, p))
                     /\ Allowed(p, Read(r, p), pol, Agents[Agent(r)].cls, Read(r, Usage).quantity)
        kept(p) == IF usable(p) THEN <<p>> ELSE <<>>
    IN  kept(Route(r).primary) \o kept(Route(r).fallback) \o <<Sim>>

\* Mutant of Failed: the breaker opens one failure late.
FailedLate(prow) ==
    [prow EXCEPT !.fails = @ + 1, !.until = IF prow.fails >= Threshold THEN clock + Cooldown ELSE @]

\* _record_usage.
Failed(prow) ==
    [prow EXCEPT !.fails = @ + 1, !.until = IF prow.fails + 1 >= Threshold THEN clock + Cooldown ELSE @]

Answered(prow, tokens) == [prow EXCEPT !.fails = 0, !.used = @ + tokens]

Set(f, x, v) == [y \in DOMAIN f \cup {x} |-> IF y = x THEN v ELSE f[y]]
NoRows == [x \in {} |-> Unset]

-----------------------------------------------------------------------------
(* What is observed of a call.                                             *)

\* What the others in flight have changed.
Pending(r) == UNION {DOMAIN req[s].new \cup DOMAIN req[s].mine : s \in Busy \ {r}}

Overlap(r, p) == \E s \in Busy \ {r} : p \in DOMAIN req[s].seen \cup DOMAIN req[s].mine

\* Data leaves for p in the run of r that loaded pol and prow.
Observe(r, p, role, pol, prow) ==
    LET cls == Agents[Agent(r)].cls
    IN  strays' = strays \cup
           (IF Permitted(p, row[p], policy, cls) /\ row[p].on THEN {}
            ELSE {[role |-> role, class |-> cls > row[p].allow \/ (policy.strategy = "hybrid" /\ p \notin Private),
                   changed |-> pol # policy \/ [prow EXCEPT !.fails = 0, !.until = 0, !.used = 0]
                                               # [row[p] EXCEPT !.fails = 0, !.until = 0, !.used = 0]]})

\* p, whose failures only r can have changed, is called before its time.
Batter(r, p) ==
    battered' = battered \cup (IF due[p] > clock /\ p \notin mixed /\ ~Overlap(r, p) THEN {p} ELSE {})

\* A route that names p twice has it called twice in a row.
Count(r, p, ok) ==
    /\ mixed' = mixed \cup (IF Overlap(r, p) THEN {p} ELSE {})
    /\ IF p \in DOMAIN req[r].new THEN battered' = battered ELSE Batter(r, p)
    /\ ill' = [ill EXCEPT ![p] = IF ok THEN 0 ELSE @ + 1]
    /\ due' = [due EXCEPT ![p] = IF ok THEN 0 ELSE IF ill[p] + 1 >= Threshold THEN clock + Cooldown ELSE @]

-----------------------------------------------------------------------------
(* The run of an agent.                                                    *)

NewRequest(plan, phase) ==
    [plan |-> plan, at |-> 1, phase |-> phase, pol |-> Unset, to |-> Unset, cand |-> <<>>, seen |-> NoRows,
     new |-> NoRows, mine |-> NoRows, used |-> Unset, tokens |-> 0, hung |-> 0, owed |-> 0]

\* POST agents/{key}/run and incidents/{id}/investigate.
Request(r, kind) ==
    /\ r = Free /\ started < MaxRequests /\ started' = started + 1
    /\ req' = [req EXCEPT ![r] = NewRequest(Plans[kind], "run")]
    /\ UNCHANGED <<config, row, clock, changes, ghosts>>

\* A single run is recorded before its commit, an investigation after.
Onward(q) == IF q.at < Len(q.plan) THEN "run" ELSE IF Len(q.plan) = 1 THEN "append" ELSE "commit"

\* Mutant of NextRun: the run that ended is begun again.
NextRunAgain(q) == [q EXCEPT !.phase = Onward(q), !.seen = NoRows]

\* On to the next run of the plan, or to its end.
NextRun(q) == [q EXCEPT !.at = @ + 1, !.phase = Onward(q), !.seen = NoRows]

\* run_agent up to the gateway's choice of models: a disabled agent fails, one
\* whose snapshot exceeds its tool budget ends there, AI switched off cancels
\* the run; the plan goes on.
Invoke(r) ==
    /\ r \in Busy /\ req[r].phase = "run"
    /\ LET cand == Candidates(r, policy)
           loaded == {Route(r).primary, Route(r).fallback} \cap Reals
       IN  IF Agent(r) \in off \/ ~policy.ai
           THEN req' = [req EXCEPT ![r] = NextRun(@)] /\ mixed' = mixed
           ELSE /\ req' = [req EXCEPT ![r].phase = "call", ![r].pol = policy, ![r].to = Route(r),
                                      ![r].cand = cand, ![r].seen = [p \in loaded |-> Read(r, p)]]
                /\ mixed' = mixed \cup (loaded \cap Pending(r))
    /\ UNCHANGED <<config, row, clock, started, changes, strays, owed, raced, ill, due, battered>>

\* What comes of chat_completion: an answer, or none, with or without the
\* timeout used up; an answer that the schema rejects counts as none.
Completions == [ok : {TRUE}, tokens : Sizes, late : {0}] \cup [ok : {FALSE}, tokens : {0}, late : {0, 1}]

\* The run is within its time and token budget.
Within(q) == q.hung < Agents[q.plan[q.at]].patience /\ q.tokens <= Agents[q.plan[q.at]].budget

\* The end of run_agent: a run over its time or token budget ends there; else
\* its use is metered.  What has changed is flushed.
Ended(r, q) ==
    LET n == IF q.used # Sim THEN q.tokens ELSE 0
        counted == [q EXCEPT !.seen = Set(@, Usage, Read(r, Usage)), !.owed = @ + n,
                             !.new = Set(@, Usage, [quantity |-> Read(r, Usage).quantity + n])]
        end == [(IF Within(q) THEN counted ELSE q)
                   EXCEPT !.pol = Unset, !.to = Unset, !.cand = <<>>, !.used = Unset, !.tokens = 0, !.hung = 0]
    IN  IF end.new = NoRows THEN NextRun(end) ELSE [end EXCEPT !.phase = "flush"]

Current(r, p) == IF p \in DOMAIN req[r].new THEN req[r].new[p] ELSE req[r].seen[p]

NeedsVerify(r) == Agents[Agent(r)].forced \/ req[r].to.verify

\* _call and _record_usage for the next candidate: it answers, answers with
\* what the schema rejects, or does not answer in time.
Call(r) ==
    /\ r \in Busy /\ req[r].phase = "call" /\ req[r].cand # <<>>
    /\ LET q == req[r]
           p == Head(q.cand)
           answered(tokens) == [q EXCEPT !.used = p, !.tokens = tokens,
                                   !.new = IF p = Sim THEN @ ELSE Set(@, p, Answered(Current(r, p), tokens))]
           go(w) == req' = [req EXCEPT ![r] = IF NeedsVerify(r) THEN [w EXCEPT !.phase = "verify"] ELSE Ended(r, w)]
           failed(late) == req' = [req EXCEPT ![r] = [q EXCEPT !.new = Set(@, p, Failed(Current(r, p))),
                                                               !.cand = Tail(@), !.hung = @ + late]]
       IN  IF p = Sim THEN go(answered(1)) /\ UNCHANGED <<strays, ill, due, mixed, battered>>
           ELSE /\ Observe(r, p, "primary", q.pol, q.seen[p])
                /\ \E x \in Completions :
                      /\ Count(r, p, x.ok)
                      /\ IF x.ok THEN go(answered(x.tokens)) ELSE failed(x.late)
    /\ UNCHANGED <<config, row, clock, started, changes, owed, raced>>

\* _verify: by another provider where the route names one that may be asked,
\* with the data classification left at its default; else by rules alone.
Verify(r) ==
    /\ r \in Busy /\ req[r].phase = "verify"
    /\ LET q == req[r]
           v == q.to.verifier
           vrow == IF v \in DOMAIN q.seen THEN Current(r, v) ELSE Read(r, v)
           asked == /\ v \notin {Unset, Sim, q.used} /\ vrow.on /\ ~CircuitOpen(vrow)
                    /\ Allowed(v, vrow, policy, 1, Read(r, Usage).quantity)
       IN  IF asked
           THEN /\ Observe(r, v, "verifier", policy, vrow) /\ Batter(r, v)
                /\ \E x \in Completions : req' = [req EXCEPT ![r] = Ended(r, [q EXCEPT !.hung = @ + x.late])]
           ELSE UNCHANGED <<strays, battered>> /\ req' = [req EXCEPT ![r] = Ended(r, q)]
    /\ UNCHANGED <<config, row, clock, started, changes, owed, raced, ill, due, mixed>>

-----------------------------------------------------------------------------
(* Transactions.                                                           *)

Merged(now, seen, new) == [c \in DOMAIN now |-> IF new[c] # seen[c] THEN new[c] ELSE now[c]]

\* The unit of work updates providers by primary key, then counters.
ToWrite(r) ==
    LET names == Append(Order, Usage)
        dirty == {i \in DOMAIN names : names[i] \in DOMAIN req[r].new}
    IN  names[CHOOSE i \in dirty : \A j \in dirty : i <= j]

HoldsProcess(r) == req[r].phase \in {"chain", "record"}
HoldsChain(r) == req[r].phase \in {"record", "close"}

\* What the database sees: waits for a row, and for the advisory lock.
WaitsFor(r, s) ==
    /\ r \in Busy /\ s \in Busy /\ r # s
    /\ \/ req[r].phase \in {"flush", "record"} /\ ToWrite(r) \in DOMAIN req[s].mine
       \/ req[r].phase = "chain" /\ HoldsChain(s)

\* audit.record waits for its process, then for the chain of audit records;
\* with nothing else to flush its INSERT waits for nobody.
TakeProcess(r) ==
    /\ r \in Busy /\ req[r].phase = "append"
    /\ \A s \in Busy \ {r} : Process[s] = Process[r] => ~HoldsProcess(s)
    /\ req' = [req EXCEPT ![r].phase = "chain"]
    /\ UNCHANGED <<config, row, clock, started, changes, ghosts>>

TakeChain(r) ==
    /\ r \in Busy /\ req[r].phase = "chain" /\ \A s \in Requests : ~WaitsFor(r, s)
    /\ req' = [req EXCEPT ![r].phase = IF req[r].new = NoRows THEN "close" ELSE "record"]
    /\ UNCHANGED <<config, row, clock, started, changes, ghosts>>

\* One UPDATE, at the end of a run or in audit.record: it takes the row's lock
\* and writes the columns that changed.
Flush(r) ==
    /\ r \in Busy /\ req[r].phase \in {"flush", "record"} /\ \A s \in Requests : ~WaitsFor(r, s)
    /\ LET q == req[r]
           x == ToWrite(r)
           left == [y \in DOMAIN q.new \ {x} |-> q.new[y]]
           wrote == [q EXCEPT !.mine = Set(@, x, Merged(Read(r, x), q.seen[x], q.new[x])), !.new = left]
           done == IF q.phase = "flush" THEN NextRun(wrote) ELSE [wrote EXCEPT !.phase = "close", !.seen = NoRows]
       IN  /\ req' = [req EXCEPT ![r] = IF left # NoRows THEN wrote ELSE done]
           /\ raced' = (raced \/ (x = Usage /\ q.new[x] # q.seen[x] /\ q.seen[x] # Read(r, x)))
    /\ UNCHANGED <<config, row, clock, started, changes, strays, owed, ill, due, mixed, battered>>

\* An investigation commits its runs, then records in a transaction of its own.
CommitRun(r) ==
    /\ r \in Busy /\ req[r].phase \in {"commit", "close"}
    /\ row' = [x \in Rows |-> IF x \in DOMAIN req[r].mine THEN req[r].mine[x] ELSE row[x]]
    /\ owed' = owed + req[r].owed
    /\ req' = [req EXCEPT ![r] = IF @.phase = "close" THEN Unset
                                 ELSE [@ EXCEPT !.phase = "append", !.mine = NoRows, !.owed = 0]]
    /\ UNCHANGED <<config, clock, started, changes, strays, raced, ill, due, mixed, battered>>

Deadlocked(r) ==
    \E c \in SUBSET Requests : r \in c /\ \A s \in c : \E t \in c : WaitsFor(s, t)

\* The request is rolled back: by the database that found a deadlock, or
\* because its process stopped.
RollBack(r) ==
    /\ mixed' = mixed \cup ((DOMAIN req[r].mine \cup DOMAIN req[r].new) \cap Reals)
    /\ req' = [req EXCEPT ![r] = Unset]
    /\ UNCHANGED <<config, row, clock, started, strays, owed, raced, ill, due, battered>>

Abort(r) == Deadlocked(r) /\ RollBack(r) /\ UNCHANGED changes

Stop(r) == r \in Busy /\ changes < MaxChanges /\ changes' = changes + 1 /\ RollBack(r)

-----------------------------------------------------------------------------
(* Administration.                                                         *)

\* POST models/providers/{id}/test: a connectivity test between the load and
\* the commit.
Probe(r, p) ==
    /\ r = Free /\ started < MaxRequests /\ started' = started + 1
    /\ req' = [req EXCEPT ![r] = [NewRequest(<<>>, "probe") EXCEPT !.at = 0, !.seen = Set(NoRows, p, row[p])]]
    /\ mixed' = mixed \cup (IF Overlap(r, p) THEN {p} ELSE {})
    /\ UNCHANGED <<config, row, clock, changes, strays, owed, raced, ill, due, battered>>

Probed(r) ==
    /\ r \in Busy /\ req[r].phase = "probe"
    /\ \E ok \in BOOLEAN, p \in DOMAIN req[r].seen :
          /\ req' = [req EXCEPT ![r].phase = "append",
                                ![r].new = Set(@, p, IF ok THEN [req[r].seen[p] EXCEPT !.fails = 0]
                                                     ELSE req[r].seen[p])]
          /\ ill' = [ill EXCEPT ![p] = IF ok THEN 0 ELSE @]
    /\ UNCHANGED <<config, row, clock, started, changes, strays, owed, raced, due, mixed, battered>>

\* PATCH models/providers/{id}.
EditProvider(r, p, c) ==
    /\ r = Free /\ changes < MaxChanges /\ changes' = changes + 1
    /\ LET edited == [row[p] EXCEPT !.on = c.on, !.allow = c.allow, !.serves = c.serves]
       IN  /\ edited # row[p]
           /\ req' = [req EXCEPT ![r] = [NewRequest(<<>>, "append") EXCEPT !.at = 0, !.seen = Set(NoRows, p, row[p]),
                                                                          !.new = Set(NoRows, p, edited)]]
    /\ mixed' = mixed \cup (IF Overlap(r, p) THEN {p} ELSE {})
    /\ UNCHANGED <<config, row, clock, started, strays, owed, raced, ill, due, battered>>

\* The changes below are recorded too: they wait for the advisory lock, here
\* until it is free, each in a process of its own.
ChainFree == \A r \in Busy : ~HoldsChain(r)

\* POST mode/switch.
SetPolicy(pol) ==
    /\ changes < MaxChanges /\ changes' = changes + 1 /\ ChainFree
    /\ pol # policy /\ policy' = pol
    /\ UNCHANGED <<route, off, row, req, clock, started, ghosts>>

\* PATCH agents/{key}: enabled, and the budget of tool calls.
SetAgent(a) ==
    /\ changes < MaxChanges /\ changes' = changes + 1 /\ ChainFree
    /\ off' = IF a \in off THEN off \ {a} ELSE off \cup {a}
    /\ UNCHANGED <<policy, route, row, req, clock, started, ghosts>>

\* PUT models/routes/{capability}.
SetRoute(c, to) ==
    /\ changes < MaxChanges /\ changes' = changes + 1 /\ ChainFree
    /\ to # route[c] /\ route' = [route EXCEPT ![c] = to]
    /\ UNCHANGED <<policy, off, row, req, clock, started, ghosts>>

Tick ==
    /\ changes < MaxChanges /\ changes' = changes + 1
    /\ clock' = clock + 1
    /\ UNCHANGED <<config, row, req, started, ghosts>>

Work(r) ==
    \/ Invoke(r) \/ Call(r) \/ Verify(r) \/ Probed(r) \/ Flush(r)
    \/ TakeProcess(r) \/ TakeChain(r) \/ CommitRun(r) \/ Abort(r)

RunsNext ==
    \/ \E r \in Requests :
          \/ \E kind \in DOMAIN Plans : Request(r, kind)
          \/ \E p \in Reals : Probe(r, p)
          \/ \E p \in Reals, c \in Configs : EditProvider(r, p, c)
          \/ Invoke(r) \/ Call(r) \/ Verify(r) \/ Probed(r) \/ Flush(r)
          \/ TakeProcess(r) \/ TakeChain(r) \/ CommitRun(r) \/ Abort(r)
          \/ Stop(r)
    \/ \E pol \in Policies : SetPolicy(pol)
    \/ \E a \in DOMAIN Agents : SetAgent(a)
    \/ \E c \in Capabilities, to \in Routes : SetRoute(c, to)
    \/ Tick

RunsSpec == RunsInit /\ [][RunsNext]_runVars

\* Calls time out and the database ends deadlocks, so a request goes on.
FairRuns == RunsSpec /\ \A r \in Requests : WF_runVars(Work(r))

-----------------------------------------------------------------------------
(* Properties.                                                             *)

\* What leaves for a provider is within the rules in force, unless they were
\* changed after the run had chosen its models; switching AI off therefore
\* stops an investigation at its next run.  The verifier is chosen without the
\* classification of the data: gateway._verify leaves the default.
DataStaysWithin == \A s \in strays : s.changed \/ (s.role = "verifier" /\ s.class)

\* Not kept by the code, as TLC shows in the instance of MC_AgentRuns.cfg:
\* "A provider may only receive data up to its data_classification_allowance",
\* the verifier included (model_gateway/guardrails.py).
VerifierWithinClass == \A s \in strays : s.role = "verifier" => s.changed

\* The month's tokens are those of the answers that committed runs used, each
\* once, unless two requests added to the same quantity at a time; they are
\* never more.
TokensMetered ==
    /\ row[Usage].quantity <= owed
    /\ ~raced => row[Usage].quantity = owed

\* A run does not turn to a provider, as a model or as the verifier, that failed
\* Threshold times in a row and whose cooldown is not over, however its failures
\* were spread over runs and requests, as long as these did not overlap and none
\* was rolled back; a route that names it twice has it called twice even so.
BreakerHolds == battered = {}

\* Not kept by the code: "The gateway selects by capability, honoring circuit
\* breakers" (docs/MULTI_LLM.md), but looks at them once before its first call,
\* and a route may name two deployments of one provider.
CircuitsHonored ==
    \A r \in Busy :
        req[r].phase = "call" /\ req[r].cand # <<>> /\ Head(req[r].cand) # Sim =>
           ~CircuitOpen(Current(r, Head(req[r].cand)))

\* Every request ends, although requests keep rows locked while they wait for
\* models and may wait for each other.
RunsEnd == \A r \in Requests : []<>(req[r] = Unset)
=============================================================================
