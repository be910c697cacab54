----------------------------- MODULE Operations -----------------------------
(***************************************************************************)
(* One tenant's alerts and incidents: ingestion with deduplication and     *)
(* correlation, what analysts do to them, the SLA clocks, and the sweep    *)
(* for breaches that the elected leader of several replicas makes, from    *)
(* services/pipeline.py, services/sla.py, services/notify.py,              *)
(* services/cluster.py, main.py, routers/alerts.py, routers/incidents.py   *)
(* and services/mode.py.                                                   *)
(*                                                                         *)
(* A handler loads, decides, and later commits its new rows and the        *)
(* columns it changed.  Notifications leave when they are made: in-app     *)
(* ones go to the event bus and messages to the connector before the       *)
(* transaction ends.  Times are minutes; 0 is NULL.                        *)
(***************************************************************************)
EXTENDS Naturals, FiniteSets

CONSTANTS Replicas, None,
          MaxIncidents, MaxAlerts,
          Sla,          \* effective_sla: minutes to acknowledge and resolve, by severity
          Events,       \* what may be ingested: the hosts and users, and the severity of the rule
          AtOnce,       \* handlers in flight
          MaxTime, MaxSteps       \* requests and faults

Kinds == {"ack", "resolve"}
Severities == DOMAIN Sla
Rank(s) == CASE s = "medium" -> 2 [] s = "high" -> 3 [] s = "critical" -> 4
Incidents == 1..MaxIncidents
Alerts == 1..MaxAlerts
Modes == {"DEMO", "LIVE"}

\* The columns of an incident and of an alert that are followed here.
IncidentRow ==
    [key : Nat, about : SUBSET UNION {e.about : e \in Events}, sev : Severities,
     status : {"new", "working", "closed"}, created : Nat, due : [Kinds -> Nat], done : [Kinds -> Nat],
     breach : [Kinds -> Nat], level : Nat, scope : Modes]
AlertRow ==
    [key : Events, sev : Severities, status : {"open", "done"}, incident : Incidents \cup {None},
     scope : Modes, raised : Severities]

ASSUME OperationsAssumption ==
    /\ {MaxIncidents, MaxAlerts, AtOnce, MaxTime, MaxSteps} \subseteq Nat
    /\ Sla \in [Severities -> [Kinds -> Nat]] /\ Severities \subseteq {"medium", "high", "critical"}
    /\ \A e \in Events : e.about # {} /\ e.rule \in Severities
    /\ None \notin Incidents /\ None \notin Replicas /\ None \notin IncidentRow /\ None \notin AlertRow
    /\ \A s \in SUBSET Incidents : None \notin [s -> [seen : IncidentRow, new : IncidentRow]]

VARIABLES inc, alert,
          links,      \* incident_alerts
          handlers,   \* what handlers in flight have decided
          mode,       \* the tenant's operating mode
          clock,
          holder,     \* whose connection holds the advisory lock
          conn,       \* the election's connection; "dead" until the replica notices
          leader,     \* LeaderElection._leader
          sweep,      \* the sweep a replica is making
          started,
          told,       \* how often a breach has been announced
          leaked,     \* a message has left for an incident of the DEMO scope
          clash,      \* incidents whose clocks two transactions changed at a time
          restamped,  \* incidents given new due times after a breach
          doubled,    \* kinds of rows that overlapping handlers inserted twice
          reopened,   \* a closed alert was opened again
          lapsed      \* a sweep was made without the lock, or failed

rows == <<inc, alert, links>>
election == <<holder, conn, leader>>
history == <<clash, restamped, doubled, reopened>>
vars == <<inc, alert, links, handlers, mode, clock, holder, conn, leader, sweep,
          started, told, leaked, clash, restamped, doubled, reopened, lapsed>>

Closed(i) == i.status = "closed"
Born == {i \in Incidents : inc[i] # None}
Raised == {a \in Alerts : alert[a] # None}

TypeOK ==
    /\ \A i \in Born :
          /\ inc[i].status \in {"new", "working", "closed"} /\ inc[i].scope \in Modes
          /\ inc[i].sev \in Severities /\ inc[i].created \in 1..clock
          /\ inc[i].done \in [Kinds -> 0..clock] /\ inc[i].breach \in [Kinds -> 0..clock]
          /\ inc[i].level \in 0..Cardinality(Kinds)
    /\ \A a \in Raised : alert[a].status \in {"open", "done"} /\ alert[a].incident \in Born \cup {None}
    /\ links \subseteq Born \X Raised
    /\ holder \in Replicas \cup {None} /\ leader \in [Replicas -> BOOLEAN]
    /\ \A p \in Replicas : holder = p => conn[p] = "open"

Init ==
    /\ inc = [i \in Incidents |-> None] /\ alert = [a \in Alerts |-> None] /\ links = {}
    /\ handlers = {} /\ mode = "DEMO" /\ clock = 1
    /\ holder = None /\ conn = [p \in Replicas |-> "none"] /\ leader = [p \in Replicas |-> FALSE]
    /\ sweep = [p \in Replicas |-> None] /\ started = 0
    /\ told = [t \in Incidents \X Kinds |-> 0] /\ leaked = FALSE
    /\ clash = {} /\ restamped = {} /\ doubled = {} /\ reopened = FALSE /\ lapsed = FALSE

-----------------------------------------------------------------------------
(* The rules.                                                              *)

\* apply_sla: due times from creation.
WithSla(row) == [row EXCEPT !.due = [k \in Kinds |-> row.created + Sla[row.sev][k]]]

Acked(row) == [row EXCEPT !.done["ack"] = IF @ = 0 THEN clock ELSE @]

\* Mutant of OnStatus: reopening leaves resolved_at.
OnStatusKept(row, s) ==
    IF s = "closed" THEN Acked([row EXCEPT !.status = s, !.done["resolve"] = IF @ = 0 THEN clock ELSE @])
    ELSE IF s = "working" THEN Acked([row EXCEPT !.status = s]) ELSE [row EXCEPT !.status = s]

\* on_status_change; "working" stands for triaged, investigating, contained.
OnStatus(row, s) ==
    LET to == [row EXCEPT !.status = s]
    IN  CASE s = "closed" -> Acked([to EXCEPT !.done["resolve"] = IF @ = 0 THEN clock ELSE @])
          [] s = "working" -> Acked([to EXCEPT !.done["resolve"] = 0])
          [] s = "new" -> [to EXCEPT !.done["resolve"] = 0]

\* Mutant of Overdue: an incident is escalated for its first breach only.
OverdueFirst(row, k) ==
    /\ ~Closed(row) /\ row.due[k] < clock /\ row.breach[k] = 0 /\ row.level = 0
    /\ k = "ack" => row.done["ack"] = 0

\* What sweep_breaches looks for.
Overdue(row, k) ==
    /\ ~Closed(row) /\ row.due[k] < clock /\ row.breach[k] = 0
    /\ k = "ack" => row.done["ack"] = 0

\* Mutant of Swept: the escalation rises, the breach is not recorded.
SweptUnrecorded(row) == [row EXCEPT !.level = 1]

Swept(row) ==
    [row EXCEPT !.breach = [k \in Kinds |-> IF Overdue(row, k) THEN clock ELSE row.breach[k]],
                !.level = @ + 1]

\* _target_state: the target was or is missed.
Missed(row, k) ==
    IF row.done[k] # 0 THEN row.done[k] > row.due[k] ELSE clock > row.due[k]

NewIncident(about, sev) ==
    WithSla([key |-> Cardinality(Born) + 1, about |-> about, sev |-> sev, status |-> "new",
             created |-> clock, due |-> [k \in Kinds |-> 0], done |-> [k \in Kinds |-> 0],
             breach |-> [k \in Kinds |-> 0], level |-> 0, scope |-> mode])

\* deliver_to_contact: the tenant's present mode decides whether a message to
\* an escalation contact is sent or only recorded as simulated.
Leaks(scopes) == mode = "LIVE" /\ "DEMO" \in scopes

-----------------------------------------------------------------------------
(* Handlers up to their commit.  Each row comes with what was loaded; None *)
(* is a row to insert.                                                     *)

Row(id, seen, new) == [x \in {id} |-> [seen |-> seen, new |-> new]]
Nothing == [x \in {} |-> None]

\* The ids of the next rows.
FreshIncident == {i \in Incidents \ Born : \A h \in handlers : i \notin DOMAIN h.incs}
FreshAlert == {a \in Alerts \ Raised : \A h \in handlers : a \notin DOMAIN h.alerts}
NextId(ids) == {x \in ids : \A y \in ids : x <= y}

Decide(incs, alerts, link) ==
    /\ Cardinality(handlers) < AtOnce /\ started < MaxSteps
    /\ handlers' = handlers \cup {[incs |-> incs, alerts |-> alerts, link |-> link]}
    /\ started' = started + 1
    /\ UNCHANGED <<rows, mode, clock, election, sweep, told, history, lapsed>>

\* Mutant of Same: only alerts without an incident take an event.
SameNew(e, scope) == {a \in Raised : alert[a].scope = scope /\ alert[a].key = e /\ alert[a].incident = None}

\* The open alerts with the event's deduplication key.
Same(e, scope) ==
    {a \in Raised : alert[a].scope = scope /\ alert[a].key = e /\ alert[a].status = "open"}

\* The incidents correlate looks at; those not touched for a day it does not
\* see, so that it may also find none.
Candidates(e) ==
    {i \in Born : inc[i].scope = mode /\ ~Closed(inc[i]) /\ inc[i].about \cap e.about # {}}

\* correlate: the incident a new alert joins, with its severity raised.
Joined(row, e) ==
    LET wider == [row EXCEPT !.about = @ \cup e.about]
    IN  IF Rank(e.rule) > Rank(row.sev) THEN WithSla([wider EXCEPT !.sev = e.rule]) ELSE wider

\* ingest_event, with one event that matches a rule: _raise_alert, correlate.
\* An event that an open alert takes changes nothing that is followed here.
Ingest ==
    \E e \in {x \in Events : Same(x, mode) = {}}, a \in NextId(FreshAlert) :
        LET new == [key |-> e, sev |-> e.rule, status |-> "open", incident |-> None, scope |-> mode,
                    raised |-> e.rule]
        IN  \/ \E i \in Candidates(e) :
                  /\ Decide(Row(i, inc[i], Joined(inc[i], e)),
                            Row(a, None, [new EXCEPT !.incident = i]), {<<i, a>>})
                  /\ UNCHANGED leaked
            \/ \E i \in NextId(FreshIncident) :
                  /\ Rank(e.rule) >= 3
                  /\ Decide(Row(i, None, NewIncident(e.about, e.rule)),
                            Row(a, None, [new EXCEPT !.incident = i]), {<<i, a>>})
                  /\ UNCHANGED leaked
            \/ /\ Rank(e.rule) < 3 /\ Decide(Nothing, Row(a, None, new), {})
               /\ UNCHANGED leaked

\* promote_to_incident.
Promote ==
    \E a \in {x \in Raised : alert[x].scope = mode /\ alert[x].incident = None} :
        \E i \in NextId(FreshIncident) :
            /\ Decide(Row(i, None, Acked(NewIncident(alert[a].key.about, alert[a].sev))),
                      Row(a, alert[a], [alert[a] EXCEPT !.incident = i, !.status = "open"]), {<<i, a>>})
            /\ UNCHANGED leaked

\* acknowledge and update_alert of an alert.
EditAlert ==
    \E a \in {x \in Raised : alert[x].scope = mode}, s \in {"open", "done"}, sev \in Severities :
        LET new == [alert[a] EXCEPT !.status = s, !.sev = sev]
        IN  /\ new # alert[a]
            /\ Decide(Nothing, Row(a, alert[a], new), {})
            /\ UNCHANGED leaked

EditIncident(i, new) ==
    /\ inc[i].scope = mode /\ new # inc[i]
    /\ Decide(Row(i, inc[i], new), Nothing, {})
    /\ UNCHANGED leaked

\* update_incident.
Patch ==
    \E i \in Born, sev \in Severities, s \in {"new", "working", "closed"} :
        LET now == inc[i]
            rated == IF sev # now.sev THEN WithSla([now EXCEPT !.sev = sev]) ELSE now
        IN  EditIncident(i, IF s # now.status THEN OnStatus(rated, s) ELSE rated)

\* acknowledge_incident.
Acknowledge ==
    \E i \in Born :
        EditIncident(i, [Acked(inc[i]) EXCEPT !.status = IF @ = "new" THEN "working" ELSE @])

-----------------------------------------------------------------------------
(* Commits.                                                                *)

\* The columns that differ from what was loaded.
Merged(now, seen, new) ==
    [c \in DOMAIN now |->
        IF c \in {"due", "done", "breach"}
        THEN [k \in Kinds |-> IF new[c][k] # seen[c][k] THEN new[c][k] ELSE now[c][k]]
        ELSE IF new[c] # seen[c] THEN new[c] ELSE now[c]]

After(table, edits) ==
    [x \in DOMAIN table |->
        IF x \notin DOMAIN edits THEN table[x]
        ELSE IF edits[x].seen = None THEN edits[x].new
        ELSE Merged(table[x], edits[x].seen, edits[x].new)]

Inserted(edits) == {x \in DOMAIN edits : edits[x].seen = None}

\* The columns the clocks are made of.
Clocks(row) == <<row.status, row.sev, row.due, row.done, row.breach>>

Clashing(edits) ==
    {i \in DOMAIN edits \ Inserted(edits) :
        /\ Clocks(edits[i].new) # Clocks(edits[i].seen)
        /\ Clocks(inc[i]) # Clocks(edits[i].seen)}

Restamped(edits) ==
    {i \in DOMAIN edits \ Inserted(edits) :
        edits[i].new.due # edits[i].seen.due /\ \E k \in Kinds : inc[i].breach[k] # 0}

\* What somebody else has inserted since the handler looked.
Doubles(h) ==
    (IF \E i \in Inserted(h.incs) : h.incs[i].new.key # Cardinality(Born) + 1 THEN {"incident"} ELSE {})
    \cup (IF \E a \in Inserted(h.alerts) : Same(h.alerts[a].new.key, h.alerts[a].new.scope) # {} THEN {"alert"} ELSE {})
    \cup (IF \E a \in DOMAIN h.alerts \ Inserted(h.alerts), l \in h.link : alert[a].incident # None
          THEN {"link"} ELSE {})

Commit ==
    \E h \in handlers :
        /\ inc' = After(inc, h.incs) /\ alert' = After(alert, h.alerts) /\ links' = links \cup h.link
        /\ handlers' = handlers \ {h}
        /\ clash' = clash \cup Clashing(h.incs) /\ restamped' = restamped \cup Restamped(h.incs)
        /\ doubled' = doubled \cup Doubles(h)
        /\ reopened' = (reopened \/ \E a \in DOMAIN h.alerts \ Inserted(h.alerts) :
                                       alert[a].status = "done" /\ alert'[a].status = "open")
        /\ UNCHANGED <<mode, clock, election, sweep, started, told, leaked, lapsed>>

\* An exception or a crash: rolled back.
Fail ==
    \E h \in handlers :
        /\ handlers' = handlers \ {h}
        /\ UNCHANGED <<rows, mode, clock, election, sweep, started, told, leaked,
                       history, lapsed>>

\* switch_mode.
SwitchMode ==
    /\ started < MaxSteps /\ started' = started + 1
    /\ mode' = IF mode = "DEMO" THEN "LIVE" ELSE "DEMO"
    /\ UNCHANGED <<rows, handlers, clock, election, sweep, told, leaked, history, lapsed>>

Tick ==
    /\ clock < MaxTime /\ clock' = clock + 1
    /\ UNCHANGED <<rows, handlers, mode, election, sweep, started, told, leaked,
                   history, lapsed>>

-----------------------------------------------------------------------------
(* Leadership.                                                             *)

\* LeaderElection.try_acquire: one round.
Round(p) ==
    /\ ~(leader[p] /\ conn[p] = "open")
    /\ \/ /\ conn[p] = "dead"
          /\ conn' = [conn EXCEPT ![p] = "none"] /\ leader' = [leader EXCEPT ![p] = FALSE]
          /\ UNCHANGED holder
       \/ /\ conn[p] # "dead" /\ (conn[p] = "open" => holder = None)
          /\ conn' = [conn EXCEPT ![p] = "open"]
          /\ holder' = IF holder = None THEN p ELSE holder
          /\ leader' = [leader EXCEPT ![p] = holder = None]
    /\ UNCHANGED <<rows, handlers, mode, clock, sweep, started, told, leaked,
                   history, lapsed>>

\* The database ends the connection, and with it the lock.
Disconnect(p) ==
    /\ conn[p] = "open" /\ started < MaxSteps /\ started' = started + 1
    /\ conn' = [conn EXCEPT ![p] = "dead"]
    /\ holder' = IF holder = p THEN None ELSE holder
    /\ lapsed' = (lapsed \/ sweep[p] # None)
    /\ UNCHANGED <<rows, handlers, mode, clock, leader, sweep, told, leaked, history>>

\* The process dies, or is stopped, and starts again.
Restart(p) ==
    /\ conn[p] # "none"
    /\ started < MaxSteps /\ started' = started + 1
    /\ conn' = [conn EXCEPT ![p] = "none"] /\ leader' = [leader EXCEPT ![p] = FALSE]
    /\ holder' = IF holder = p THEN None ELSE holder
    /\ sweep' = [sweep EXCEPT ![p] = None]
    /\ lapsed' = (lapsed \/ sweep[p] # None)
    /\ UNCHANGED <<rows, handlers, mode, clock, told, leaked, history>>

\* escalate_incident: the tenant and its providers are notified of each target.
Announced(ts) == [t \in DOMAIN told |-> IF t \in ts /\ told[t] < 2 THEN told[t] + 1 ELSE told[t]]

Targets == {t \in Born \X Kinds : Overdue(inc[t[1]], t[2])}

\* run_sla_sweeper and sweep_breaches with escalate_incident, up to the commit.
BeginSweep(p) ==
    /\ leader[p] /\ sweep[p] = None /\ Targets # {}
    /\ sweep' = [sweep EXCEPT ![p] =
           [i \in {t[1] : t \in Targets} |-> [seen |-> inc[i], new |-> Swept(inc[i])]]]
    /\ told' = Announced(Targets)
    /\ leaked' = (leaked \/ Leaks({inc[t[1]].scope : t \in Targets}))
    /\ lapsed' = (lapsed \/ holder # p)
    /\ UNCHANGED <<rows, handlers, mode, clock, election, started, history>>

EndSweep(p) ==
    /\ sweep[p] # None
    /\ inc' = After(inc, sweep[p])
    /\ clash' = clash \cup Clashing(sweep[p])
    /\ sweep' = [sweep EXCEPT ![p] = None]
    /\ UNCHANGED <<alert, links, handlers, mode, clock, election, started, told,
                   leaked, restamped, doubled, reopened, lapsed>>

\* The database refuses; the worker logs it and goes on.
FailSweep(p) ==
    /\ sweep[p] # None /\ started < MaxSteps /\ started' = started + 1
    /\ sweep' = [sweep EXCEPT ![p] = None] /\ lapsed' = TRUE
    /\ UNCHANGED <<rows, handlers, mode, clock, election, told, leaked, history>>

Next ==
    \/ Ingest \/ Promote \/ EditAlert \/ Patch \/ Acknowledge
    \/ Commit \/ Fail \/ SwitchMode \/ Tick
    \/ \E p \in Replicas :
          Round(p) \/ Disconnect(p) \/ Restart(p) \/ BeginSweep(p) \/ EndSweep(p) \/ FailSweep(p)

\* Every replica's election thread and sweeper are loops with timers.
Fairness == \A p \in Replicas : WF_vars(Round(p)) /\ WF_vars(BeginSweep(p)) /\ WF_vars(EndSweep(p))

Spec == Init /\ [][Next]_vars
FairSpec == Spec /\ Fairness

-----------------------------------------------------------------------------
(* What must hold.                                                         *)

\* The SLA columns are stamped by ingestion, promotion, edits, acknowledgements
\* and the sweep, each from the row it loaded.  Unless two of them overlapped
\* on one incident: its due times are those of its present severity, it has a
\* time of resolution exactly while it is closed, and whatever the sweep has
\* recorded and announced as a breach is one by sla_state's own reckoning,
\* unless a new severity has since moved the due time.
ClocksAgree ==
    \A i \in Born \ clash :
        /\ \A k \in Kinds : inc[i].due[k] = inc[i].created + Sla[inc[i].sev][k]
        /\ Closed(inc[i]) <=> inc[i].done["resolve"] # 0
        /\ Closed(inc[i]) => inc[i].done["ack"] # 0
        /\ \A k \in Kinds : inc[i].breach[k] # 0 /\ i \notin restamped => Missed(inc[i], k)

\* sla.py: "each newly breached target is recorded once", and cluster.py has
\* the sweep run "exactly once", by the replica that holds the lock: a breach
\* is announced a second time only after a sweep outlived its maker's lock or
\* failed, never because of reopening, edits or a change of leader.
ToldOnce == ~lapsed => \A t \in DOMAIN told : told[t] <= 1

\* However ingests, promotions and edits of alerts follow each other, there
\* are no two open alerts of one deduplication key, an alert belongs to one
\* incident, of its own scope, a high one always to some, and incidents have
\* different keys; only handlers that overlapped insert such rows twice, and
\* an alert that is opened again may meet another.
AlertsFiled ==
    /\ \A a, b \in Raised :
          /\ a # b /\ alert[a].key = alert[b].key /\ alert[a].scope = alert[b].scope
          /\ alert[a].status = "open" /\ alert[b].status = "open"
          => "alert" \in doubled \/ reopened
    /\ \A a \in Raised :
          /\ alert[a].incident # None => inc[alert[a].incident].scope = alert[a].scope
          /\ Rank(alert[a].raised) >= 3 => alert[a].incident # None
          /\ \A l \in links : l[2] = a /\ "link" \notin doubled => alert[a].incident = l[1]
    /\ \A i, j \in Born : i # j /\ inc[i].key = inc[j].key => "incident" \in doubled

Late(i) ==
    /\ i \in Born /\ ~Closed(inc[i])
    /\ \E k \in Kinds : inc[i].done[k] = 0 /\ inc[i].breach[k] = 0 /\ Missed(inc[i], k)

\* Whichever replicas lose the lock or restart, a target that is missed is
\* recorded by some sweep, unless the incident is acknowledged or closed first.
LateIsRecorded == \A i \in Incidents : Late(i) ~> ~Late(i)

\* Not kept by the code, as TLC shows in the instance of MC_Operations.cfg:
\* PLATFORM_GUIDE.md:704: the notifications of DEMO are "Recorded as
\* `simulated`", those of LIVE "Really sent".
SimulatedStaysSimulated == ~leaked
=============================================================================
