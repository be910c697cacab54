---------------------------- MODULE PlaybookRuns ----------------------------
(***************************************************************************)
(* services/workflow.py with routers/playbooks.py: runs of one playbook,   *)
(* started, stopped at approval steps and resumed by whoever decides,      *)
(* while the playbook itself is saved again.                               *)
(*                                                                         *)
(* The run's row is read without a lock; record() then takes the audit     *)
(* lock, under which _advance goes through the steps, and everything it    *)
(* has done is committed at the end, over whatever the row has become.     *)
(* A step's identifier is its place in the graph.                          *)
(***************************************************************************)
EXTENDS Naturals, Sequences, FiniteSets

CONSTANTS
    Runs,         \* rows that may come to be
    Requests,     \* slots for concurrent requests
    Graphs,       \* graphs that may be saved
    StepsOf,      \* StepsOf[g]: the steps of graph g, see Step
    Roles,        \* roles of those who decide
    Keys,         \* idempotency keys
    MaxStarts,    \* bound on the number of requests in a behaviour
    None

\* All types of step but these two are tasks, which succeed or fail.
Step ==
    [type : {"task", "condition", "approval"},
     halts : BOOLEAN,               \* on_failure is not "continue"
     role : STRING]                 \* required_role

ASSUME PlaybookAssumption ==
    /\ \A g \in Graphs : StepsOf[g] \in Seq(Step)
    /\ Graphs # {} /\ MaxStarts \in Nat
    /\ None \notin Graphs \cup Requests \cup Keys

VARIABLES
    playbook,     \* the playbook's row: current version, enabled
    versions,     \* its version rows, in the order of their commits
    run,          \* run[x]: the committed row, or NoRun
    log,          \* log[x]: what requests have done for x and committed
    auditLock,    \* holder of the audit lock
    req,          \* req[r]: the request r is serving
    started       \* requests so far

vars == <<playbook, versions, run, log, auditLock, req, started>>

NoRun == [status |-> "none"]
Idle == [pc |-> "idle"]

\* APPROVAL_AUTHORITY: who may decide a step that asks for a role.
Authority(role) ==
    CASE role = "incident_commander" -> {"incident_commander", "soc_manager", "tenant_admin"}
      [] role = "soc_manager" -> {"soc_manager", "tenant_admin"}
      [] role = "customer_approver" -> {"customer_approver", "customer_admin"}
      [] OTHER -> {role}

Init ==
    /\ playbook = [version |-> 1, enabled |-> TRUE]
    /\ \E g \in Graphs : versions = <<[number |-> 1, graph |-> g]>>
    /\ run = [x \in Runs |-> NoRun]
    /\ log = [x \in Runs |-> <<>>]
    /\ auditLock = None
    /\ req = [r \in Requests |-> Idle]
    /\ started = 0

Start(r, what) ==
    /\ req[r] = Idle /\ started < MaxStarts
    /\ req' = [req EXCEPT ![r] = what]
    /\ started' = started + 1

End(r) ==
    /\ req' = [req EXCEPT ![r] = Idle]
    /\ auditLock' = IF auditLock = r THEN None ELSE auditLock

-----------------------------------------------------------------------------
(* _graph: the version row the run started on.                             *)

\* Mutant of Found: the active version, which is the one saved last.
FoundActive(number) == {Len(versions)}

Found(number) == {n \in DOMAIN versions : versions[n].number = number}

\* With two rows of that number the query raises.
Readable(number) == Cardinality(Found(number)) = 1
GraphOf(number) == versions[CHOOSE n \in Found(number) : TRUE].graph

-----------------------------------------------------------------------------
(* POST /{key}/run and POST /runs/{id}/resume                              *)

NewRun(key) ==
    [status |-> "pending", version |-> playbook.version, at |-> 0, history |-> <<>>,
     outcome |-> "none", key |-> key]

Serve(x, row, did) ==
    [pc |-> "locking", on |-> x, row |-> row, did |-> did, graph |-> None, done |-> {}, at |-> 0]

\* A key that one run has returns that run; the key of two makes it raise.
LoadStart(r, x, key) ==
    /\ playbook.enabled /\ run[x] = NoRun
    /\ \A q \in Requests : req[q] # Idle /\ req[q].pc # "saving" => req[q].on # x
    /\ key # None => \A y \in Runs : run[y] # NoRun => run[y].key # key
    /\ Start(r, Serve(x, NewRun(key), <<>>))
    /\ UNCHANGED <<playbook, versions, run, log, auditLock>>

\* Mutant of Decided: a rejection is noted and the run goes on.
DecidedRunning(row, decision) ==
    [row EXCEPT !.history = Append(@, [step |-> row.at, status |-> "done"]),
                !.status = "running"]

Decided(row, decision) ==
    [row EXCEPT !.history = Append(@, [step |-> row.at, status |-> "done"]),
                !.status = IF decision = "approve" THEN "running" ELSE "cancelled"]

LoadResume(r, x, role, decision) ==
    /\ run[x].status = "waiting_approval" /\ Readable(run[x].version)
    /\ LET row == run[x]
           g == GraphOf(row.version)
       IN  /\ role \in Authority(StepsOf[g][row.at].role)
           /\ Start(r, Serve(x, Decided(row, decision),
                             <<[step |-> row.at, what |-> decision, graph |-> g, by |-> role]>>))
    /\ UNCHANGED <<playbook, versions, run, log, auditLock>>

\* Steps _advance passes over.
Done(row) ==
    {row.history[n].step : n \in {n \in DOMAIN row.history :
                                    row.history[n].status \in {"done", "skipped"}}}

\* The steps from i on that are not in done.
Ahead(g, done, i) == {j \in DOMAIN StepsOf[g] : j >= i /\ j \notin done}
First(S) == CHOOSE j \in S : \A k \in S : j <= k

\* record() gets the audit lock.  A rejected run is finished; any other goes
\* on, if its graph can still be read.
TakeLock(r) ==
    /\ req[r].pc = "locking" /\ auditLock = None
    /\ LET row == req[r].row
       IN  \/ /\ row.status = "cancelled"
              /\ req' = [req EXCEPT ![r].pc = "committing", ![r].row.at = 0,
                                    ![r].row.outcome = "approval_rejected"]
              /\ auditLock' = r
           \/ /\ row.status # "cancelled" /\ Readable(row.version)
              /\ req' = [req EXCEPT ![r].pc = "advancing", ![r].graph = GraphOf(row.version),
                                    ![r].done = Done(row), ![r].at = 1,
                                    ![r].row.status = "running"]
              /\ auditLock' = r
    /\ UNCHANGED <<playbook, versions, run, log, started>>

-----------------------------------------------------------------------------
(* _advance, one step at a time.                                           *)

Record(row, i, status) ==
    [row EXCEPT !.at = i, !.history = Append(@, [step |-> i, status |-> status])]

Finish(row, status, outcome) ==
    [row EXCEPT !.status = status, !.at = 0, !.outcome = outcome]

\* The next step, of one of these types.
Reached(r, type) ==
    /\ req[r].pc = "advancing"
    /\ Ahead(req[r].graph, req[r].done, req[r].at) # {}
    /\ StepsOf[req[r].graph][First(Ahead(req[r].graph, req[r].done, req[r].at))].type = type

Here(r) == First(Ahead(req[r].graph, req[r].done, req[r].at))

Wait(r) ==
    /\ Reached(r, "approval")
    /\ req' = [req EXCEPT ![r].pc = "committing",
                  ![r].row = [Record(@, Here(r), "waiting") EXCEPT !.status = "waiting_approval"]]
    /\ UNCHANGED <<playbook, versions, run, log, auditLock, started>>

\* A condition that does not hold skips all that comes after it.
Condition(r, holds) ==
    /\ Reached(r, "condition")
    /\ LET i == Here(r)
           row == Record(req[r].row, i, "done")
           last == Len(StepsOf[req[r].graph])
           skipped == [n \in 1..(last - i) |-> [step |-> i + n, status |-> "skipped"]]
       IN  req' = IF holds
                  THEN [req EXCEPT ![r].row = row, ![r].at = i + 1]
                  ELSE [req EXCEPT ![r].pc = "committing",
                          ![r].row = Finish([row EXCEPT !.history = @ \o skipped],
                                            "completed", "condition_not_met")]
    /\ UNCHANGED <<playbook, versions, run, log, auditLock, started>>

\* Mutant of AfterTask: a failure is noted and the run goes on.
AfterTaskContinuing(step, ok) == "advancing"

AfterTask(step, ok) == IF ~ok /\ step.halts THEN "committing" ELSE "advancing"

Task(r, ok) ==
    /\ Reached(r, "task")
    /\ LET i == Here(r)
           g == req[r].graph
           row == Record(req[r].row, i, IF ok THEN "done" ELSE "failed")
           pc == AfterTask(StepsOf[g][i], ok)
       IN  req' = [req EXCEPT ![r].pc = pc, ![r].at = i + 1,
                     ![r].row = IF pc = "advancing" THEN row
                                ELSE Finish(row, "failed", "step_failed"),
                     ![r].did = Append(@, [step |-> i, what |-> IF ok THEN "ok" ELSE "failed",
                                           graph |-> g, by |-> None])]
    /\ UNCHANGED <<playbook, versions, run, log, auditLock, started>>

Complete(r) ==
    /\ req[r].pc = "advancing" /\ Ahead(req[r].graph, req[r].done, req[r].at) = {}
    /\ req' = [req EXCEPT ![r].pc = "committing",
                          ![r].row = Finish(@, "completed", "completed")]
    /\ UNCHANGED <<playbook, versions, run, log, auditLock, started>>

\* The columns that differ from what was read: the outcome of a run that
\* finishes, and the status unless it waits, as before, and has not been
\* running at a flush: that is, a decision is the entry before the last.
Merged(old, q) ==
    LET h == q.row.history
        waits == q.row.status = "waiting_approval"
        straight == /\ waits /\ Len(h) > 1 /\ h[Len(h) - 1].status = "done"
                    /\ StepsOf[q.graph][h[Len(h) - 1].step].type = "approval"
    IN  IF old = NoRun THEN q.row
        ELSE [q.row EXCEPT !.status = IF straight THEN old.status ELSE @,
                           !.outcome = IF waits THEN old.outcome ELSE @]

\* Mutant of Commit: the state is committed after every step.
CommitEachStep(r) ==
    /\ req[r].pc \in {"advancing", "committing"}
    /\ run' = [run EXCEPT ![req[r].on] = req[r].row]
    /\ log' = [log EXCEPT ![req[r].on] = @ \o req[r].did]
    /\ IF req[r].pc = "committing" THEN End(r)
       ELSE req' = [req EXCEPT ![r].did = <<>>] /\ UNCHANGED auditLock
    /\ UNCHANGED <<playbook, versions, started>>

Commit(r) ==
    /\ req[r].pc = "committing"
    /\ run' = [run EXCEPT ![req[r].on] = Merged(@, req[r])]
    /\ log' = [log EXCEPT ![req[r].on] = @ \o req[r].did]
    /\ End(r)
    /\ UNCHANGED <<playbook, versions, started>>

-----------------------------------------------------------------------------
(* PUT /{key}                                                              *)

LoadSave(r, g, enabled) ==
    /\ Start(r, [pc |-> "saving", graph |-> g, enabled |-> enabled, seen |-> playbook])
    /\ UNCHANGED <<playbook, versions, run, log, auditLock>>

\* The columns that differ from what was read; a graph has the next number.
CommitSave(r) ==
    /\ req[r].pc = "saving" /\ auditLock = None
    /\ LET s == req[r]
           next == s.seen.version + 1
       IN  /\ playbook' = [version |-> IF s.graph # None THEN next ELSE playbook.version,
                           enabled |-> IF s.enabled # s.seen.enabled THEN s.enabled
                                       ELSE playbook.enabled]
           /\ versions' = IF s.graph # None
                          THEN Append(versions, [number |-> next, graph |-> s.graph])
                          ELSE versions
    /\ End(r)
    /\ UNCHANGED <<run, log, started>>

\* The handler raises or its process dies: the transaction is rolled back.
Fail(r) ==
    /\ req[r] # Idle
    /\ End(r)
    /\ UNCHANGED <<playbook, versions, run, log, started>>

Next ==
    \E r \in Requests :
        \/ \E x \in Runs, key \in Keys \cup {None} : LoadStart(r, x, key)
        \/ \E x \in Runs, role \in Roles, decision \in {"approve", "reject"} :
              LoadResume(r, x, role, decision)
        \/ TakeLock(r) \/ Wait(r) \/ Complete(r) \/ Commit(r)
        \/ \E holds \in BOOLEAN : Condition(r, holds)
        \/ \E ok \in BOOLEAN : Task(r, ok)
        \/ \E g \in Graphs \cup {None}, enabled \in BOOLEAN : LoadSave(r, g, enabled)
        \/ CommitSave(r) \/ Fail(r)

Spec == Init /\ [][Next]_vars

-----------------------------------------------------------------------------
Finished == {"completed", "failed", "cancelled"}

IsRun(row) ==
    /\ row.status \in Finished \cup {"pending", "running", "waiting_approval"}
    /\ row.version \in Nat /\ row.at \in Nat /\ row.key \in Keys \cup {None}
    /\ row.outcome \in {"none", "completed", "condition_not_met", "step_failed",
                        "approval_rejected"}
    /\ \A n \in DOMAIN row.history :
          row.history[n].status \in {"done", "failed", "skipped", "waiting"}

\* Type invariant of rows, requests and the lock: one request advances.
TypeOK ==
    /\ playbook.version \in Nat /\ playbook.enabled \in BOOLEAN
    /\ \A n \in DOMAIN versions : versions[n].graph \in Graphs /\ versions[n].number \in Nat
    /\ \A x \in Runs : run[x] = NoRun \/ IsRun(run[x])
    /\ auditLock \in Requests \cup {None}
    /\ \A r \in Requests :
          /\ req[r].pc \in {"idle", "locking", "advancing", "committing", "saving"}
          /\ (req[r].pc \in {"advancing", "committing"}) = (auditLock = r)
    /\ started \in 0..MaxStarts

\* workflow.py 17-19: no step after an approval step is executed before
\* someone with authority over its role has approved it, in this run, however
\* decisions, failures and saves of the playbook interleave.
GateHolds ==
    \A x \in Runs : \A n \in DOMAIN log[x] :
        LET e == log[x][n]
            steps == StepsOf[e.graph]
        IN  e.what \in {"ok", "failed"} =>
              \A i \in 1..(e.step - 1) : steps[i].type = "approval" =>
                  \E m \in 1..(n - 1) :
                      /\ log[x][m].step = i /\ log[x][m].what = "approve"
                      /\ log[x][m].by \in Authority(steps[i].role)

\* playbooks.py 80: "runs in flight keep executing the version they started
\* on".  Whatever is saved meanwhile, all a run does is of one graph.
PinnedGraph ==
    \A x \in Runs : \A m, n \in DOMAIN log[x] : log[x][m].graph = log[x][n].graph

\* workflow.py 14-16: "Failures are never reported as a completed run."  When
\* a run becomes completed, its history has every step of its graph, and none
\* of them has halted it.  It need not stay so: a decision that was read
\* before may still replace the history.
Whole(row) ==
    LET steps == StepsOf[GraphOf(row.version)]
        Has(i, statuses) == \E n \in DOMAIN row.history :
            row.history[n].step = i /\ row.history[n].status \in statuses
    IN  \A i \in DOMAIN steps :
          /\ Has(i, {"done", "skipped", "failed"})
          /\ Has(i, {"failed"}) => ~steps[i].halts

CompletedMeansAll ==
    [][\A x \in Runs :
          run'[x].status = "completed" /\ run[x].status # "completed"
             /\ Readable(run'[x].version)
          => Whole(run'[x])]_vars

\* A crash strands no run: only a waiting run can be resumed, so every run
\* that is not finished has to be one.
NeverStranded ==
    \A x \in Runs : run[x] # NoRun => run[x].status \in Finished \cup {"waiting_approval"}

\* Not kept by the code, as TLC shows in the instance of MC_PlaybookRuns.cfg:
\* workflow.py 5-7: a run "resumes later without re-running completed steps".
CompletedOnce ==
    \A x \in Runs : \A m, n \in DOMAIN log[x] :
        /\ log[x][m].what = "ok" /\ log[x][n].what = "ok" /\ log[x][m].step = log[x][n].step
        => m = n
=============================================================================
