-------------------------- MODULE OperationsProofs --------------------------
(***************************************************************************)
(* Proofs about Operations: the SLA columns of an incident agree with each *)
(* other (ClocksKept), a breach is announced once (AnnouncedOnce), and     *)
(* alerts are filed under the incidents they belong to (FilingKept).       *)
(*                                                                         *)
(* A handler in flight is a pair of rows, the one it loaded and the one it *)
(* wants: Derived says what the second owes to the first, and Merging what *)
(* becomes of a row on which both are laid.                                *)
(***************************************************************************)
EXTENDS Operations, FiniteSetTheorems, TLAPS

-----------------------------------------------------------------------------
(* Rows and edits of incidents.                                            *)

\* No time of a row is later than t.
Timed(row, t) ==
    /\ 1 <= row.created /\ row.created <= t
    /\ \A k \in Kinds : row.done[k] <= t /\ row.breach[k] <= t

\* An incident is escalated at most once for each breach.
Levelled(row) ==
    row.level <= (IF row.breach["ack"] # 0 THEN 1 ELSE 0) + (IF row.breach["resolve"] # 0 THEN 1 ELSE 0)

\* Due times are those of the severity, and resolution that of the status.
Fits(row) ==
    /\ \A k \in Kinds : row.due[k] = row.created + Sla[row.sev][k]
    /\ Closed(row) <=> row.done["resolve"] # 0
    /\ Closed(row) => row.done["ack"] # 0

\* A recorded breach is one.
Grounded(row) ==
    \A k \in Kinds : row.breach[k] # 0 =>
        row.due[k] < row.breach[k] /\ (row.done[k] # 0 => row.due[k] < row.done[k])

\* What a handler or a sweep makes of the row it loaded.
Derived(seen, new) ==
    /\ new.key = seen.key /\ new.created = seen.created /\ new.scope = seen.scope
    /\ \A k \in Kinds : seen.breach[k] # 0 => new.breach[k] = seen.breach[k]
    /\ Fits(seen) => Fits(new)
    /\ Fits(seen) /\ Grounded(seen) /\ new.due = seen.due => Grounded(new)

Edit(x, t) ==
    /\ x.seen \in IncidentRow /\ x.new \in IncidentRow
    /\ Timed(x.new, t) /\ Levelled(x.new) /\ Derived(x.seen, x.new)

Insertion(x, t) ==
    /\ x.seen = None /\ x.new \in IncidentRow
    /\ Timed(x.new, t) /\ Levelled(x.new) /\ Fits(x.new)
    /\ \A k \in Kinds : x.new.breach[k] = 0

\* The row has since moved on, but not back.
Based(x, row) ==
    /\ row \in IncidentRow /\ row.created = x.seen.created
    /\ \A k \in Kinds : x.seen.breach[k] # 0 => row.breach[k] # 0

LEMMA Nones ==
    /\ \A row \in IncidentRow : row # None
    /\ \A row \in AlertRow : row # None
    /\ \A i \in Incidents : i # None
    /\ \A p \in Replicas : p # None
BY OperationsAssumption DEF OperationsAssumption

LEMMA SlaTyped == \A s \in Severities, k \in Kinds : Sla[s][k] \in Nat
BY OperationsAssumption DEF OperationsAssumption

LEMMA RowParts ==
    ASSUME NEW row \in IncidentRow
    PROVE  /\ row.key \in Nat /\ row.sev \in Severities /\ row.status \in {"new", "working", "closed"}
           /\ row.created \in Nat /\ row.due \in [Kinds -> Nat] /\ row.done \in [Kinds -> Nat]
           /\ row.breach \in [Kinds -> Nat] /\ row.level \in Nat /\ row.scope \in Modes
BY DEF IncidentRow

\* Clocks are what Fits and Grounded look at, with the time of creation.
LEMMA SameClocks ==
    ASSUME NEW a, NEW b, Clocks(a) = Clocks(b), a.created = b.created
    PROVE  (Fits(a) <=> Fits(b)) /\ (Grounded(a) <=> Grounded(b))
<1>1. a.status = b.status /\ a.sev = b.sev /\ a.due = b.due /\ a.done = b.done /\ a.breach = b.breach
      BY DEF Clocks
<1> QED  BY <1>1 DEF Fits, Grounded, Closed

\* The row that an update leaves.
LEMMA Merging ==
    ASSUME NEW now \in IncidentRow, NEW seen \in IncidentRow, NEW new \in IncidentRow, NEW t \in Nat,
           Derived(seen, new), Timed(now, t), Timed(new, t), Levelled(now), Levelled(new),
           \A k \in Kinds : seen.breach[k] # 0 => now.breach[k] # 0
    PROVE  LET m == Merged(now, seen, new) IN
           /\ m \in IncidentRow /\ Timed(m, t) /\ Levelled(m)
           /\ m.key = now.key /\ m.created = now.created /\ m.scope = now.scope
           /\ \A k \in Kinds : now.breach[k] # 0 => m.breach[k] # 0
           /\ \A k \in Kinds : new.breach[k] # 0 => m.breach[k] # 0
           /\ Clocks(new) = Clocks(seen) => Clocks(m) = Clocks(now)
           /\ Clocks(now) = Clocks(seen) => Clocks(m) = Clocks(new)
<1> DEFINE m == Merged(now, seen, new)
           Mix(n, s, w) == [k \in Kinds |-> IF w[k] # s[k] THEN w[k] ELSE n[k]]
<1>1. /\ m.due = Mix(now.due, seen.due, new.due) /\ m.done = Mix(now.done, seen.done, new.done)
      /\ m.breach = Mix(now.breach, seen.breach, new.breach)
      /\ m.key = IF new.key # seen.key THEN new.key ELSE now.key
      /\ m.about = IF new.about # seen.about THEN new.about ELSE now.about
      /\ m.sev = IF new.sev # seen.sev THEN new.sev ELSE now.sev
      /\ m.status = IF new.status # seen.status THEN new.status ELSE now.status
      /\ m.created = IF new.created # seen.created THEN new.created ELSE now.created
      /\ m.level = IF new.level # seen.level THEN new.level ELSE now.level
      /\ m.scope = IF new.scope # seen.scope THEN new.scope ELSE now.scope
      BY DEF Merged, IncidentRow
<1>2. m \in IncidentRow
      BY DEF Merged, IncidentRow
<1>3. /\ new.key = seen.key /\ new.created = seen.created /\ new.scope = seen.scope
      /\ \A k \in Kinds : seen.breach[k] # 0 => new.breach[k] = seen.breach[k]
      BY DEF Derived
<1> HIDE DEF m
<1>4. /\ \A k \in Kinds : now.breach[k] # 0 => m.breach[k] # 0
      /\ \A k \in Kinds : new.breach[k] # 0 => m.breach[k] # 0
      BY <1>1, <1>3
<1>5. Timed(m, t)
      BY <1>1, <1>3 DEF Timed
<1>6. Levelled(m)
      <2>1. m.level \in {new.level, now.level} /\ "ack" \in Kinds /\ "resolve" \in Kinds  BY <1>1 DEF Kinds
      <2>2. new.level \in Nat /\ now.level \in Nat  BY RowParts
      <2> QED  BY <2>1, <2>2, <1>4 DEF Levelled
<1>7. ASSUME NEW n \in [Kinds -> Nat], NEW s \in [Kinds -> Nat], NEW w \in [Kinds -> Nat]
      PROVE  (w = s => Mix(n, s, w) = n) /\ (n = s => Mix(n, s, w) = w)
      OBVIOUS
<1>8. /\ \A row \in {now, seen, new} : /\ row.due \in [Kinds -> Nat] /\ row.done \in [Kinds -> Nat]
                                       /\ row.breach \in [Kinds -> Nat]
      BY RowParts
<1> HIDE DEF Mix
<1>9. Clocks(new) = Clocks(seen) => Clocks(m) = Clocks(now)
      BY <1>1, <1>7, <1>8 DEF Clocks
<1>10. Clocks(now) = Clocks(seen) => Clocks(m) = Clocks(new)
      BY <1>1, <1>7, <1>8 DEF Clocks
<1> QED  BY <1>1, <1>2, <1>3, <1>4, <1>5, <1>6, <1>9, <1>10 DEF m

-----------------------------------------------------------------------------
(* What handlers make of an incident.                                      *)

LEMMA WithSlaRow ==
    ASSUME NEW row \in IncidentRow
    PROVE  LET new == WithSla(row) IN
           /\ new \in IncidentRow
           /\ new.key = row.key /\ new.sev = row.sev /\ new.status = row.status /\ new.created = row.created
           /\ new.done = row.done /\ new.breach = row.breach /\ new.level = row.level /\ new.scope = row.scope
           /\ \A k \in Kinds : new.due[k] = new.created + Sla[new.sev][k]
<1> DEFINE d == [k \in Kinds |-> row.created + Sla[row.sev][k]]
<1>1. d \in [Kinds -> Nat]  BY SlaTyped, RowParts
<1>2. WithSla(row) = [row EXCEPT !.due = d]  BY DEF WithSla
<1>3. \A k \in Kinds : d[k] = row.created + Sla[row.sev][k]  OBVIOUS
<1> HIDE DEF d
<1>4. LET new == [row EXCEPT !.due = d] IN
      /\ new \in IncidentRow
      /\ new.key = row.key /\ new.sev = row.sev /\ new.status = row.status /\ new.created = row.created
      /\ new.done = row.done /\ new.breach = row.breach /\ new.level = row.level /\ new.scope = row.scope
      /\ new.due = d
      BY <1>1 DEF IncidentRow
<1> QED  BY <1>2, <1>3, <1>4

LEMMA SevRow ==
    ASSUME NEW row \in IncidentRow, NEW s \in Severities
    PROVE  LET new == [row EXCEPT !.sev = s] IN
           /\ new \in IncidentRow
           /\ new.key = row.key /\ new.sev = s /\ new.status = row.status /\ new.created = row.created
           /\ new.done = row.done /\ new.breach = row.breach /\ new.level = row.level /\ new.scope = row.scope
BY DEF IncidentRow

LEMMA AboutRow ==
    ASSUME NEW row \in IncidentRow, NEW e \in Events
    PROVE  LET new == [row EXCEPT !.about = @ \cup e.about] IN
           /\ new \in IncidentRow
           /\ new.key = row.key /\ new.sev = row.sev /\ new.status = row.status /\ new.created = row.created
           /\ new.done = row.done /\ new.breach = row.breach /\ new.level = row.level /\ new.scope = row.scope
           /\ new.due = row.due
<1> DEFINE b == row.about \cup e.about
<1>1. b \in SUBSET UNION {x.about : x \in Events}  BY DEF IncidentRow
<1> HIDE DEF b
<1>2. LET new == [row EXCEPT !.about = b] IN
      /\ new \in IncidentRow
      /\ new.key = row.key /\ new.sev = row.sev /\ new.status = row.status /\ new.created = row.created
      /\ new.done = row.done /\ new.breach = row.breach /\ new.level = row.level /\ new.scope = row.scope
      /\ new.due = row.due
      BY <1>1 DEF IncidentRow
<1> QED  BY <1>2 DEF b

LEMMA StatusRow ==
    ASSUME NEW row \in IncidentRow, NEW s \in {"new", "working", "closed"}
    PROVE  LET new == [row EXCEPT !.status = s] IN
           /\ new \in IncidentRow
           /\ new.key = row.key /\ new.sev = row.sev /\ new.status = s /\ new.created = row.created
           /\ new.done = row.done /\ new.breach = row.breach /\ new.level = row.level /\ new.scope = row.scope
           /\ new.due = row.due
BY DEF IncidentRow

LEMMA DoneRow ==
    ASSUME NEW row \in IncidentRow, NEW k \in Kinds, NEW n \in Nat
    PROVE  LET new == [row EXCEPT !.done[k] = n] IN
           /\ new \in IncidentRow
           /\ new.key = row.key /\ new.sev = row.sev /\ new.status = row.status /\ new.created = row.created
           /\ new.breach = row.breach /\ new.level = row.level /\ new.scope = row.scope
           /\ new.due = row.due /\ new.done[k] = n /\ \A j \in Kinds \ {k} : new.done[j] = row.done[j]
<1> DEFINE d == [row.done EXCEPT ![k] = n]
<1>1. d \in [Kinds -> Nat] /\ d[k] = n /\ \A j \in Kinds \ {k} : d[j] = row.done[j]  BY RowParts
<1>2. [row EXCEPT !.done[k] = n] = [row EXCEPT !.done = d]  OBVIOUS
<1> HIDE DEF d
<1>3. LET new == [row EXCEPT !.done = d] IN
      /\ new \in IncidentRow
      /\ new.key = row.key /\ new.sev = row.sev /\ new.status = row.status /\ new.created = row.created
      /\ new.breach = row.breach /\ new.level = row.level /\ new.scope = row.scope
      /\ new.due = row.due /\ new.done = d
      BY <1>1 DEF IncidentRow
<1> QED  BY <1>1, <1>2, <1>3

LEMMA AckedRow ==
    ASSUME NEW row \in IncidentRow, clock \in Nat
    PROVE  LET new == Acked(row) IN
           /\ new \in IncidentRow
           /\ new.key = row.key /\ new.sev = row.sev /\ new.status = row.status /\ new.created = row.created
           /\ new.breach = row.breach /\ new.level = row.level /\ new.scope = row.scope
           /\ new.due = row.due /\ new.done["resolve"] = row.done["resolve"]
           /\ new.done["ack"] = IF row.done["ack"] = 0 THEN clock ELSE row.done["ack"]
<1> DEFINE n == IF row.done["ack"] = 0 THEN clock ELSE row.done["ack"]
<1>1. n \in Nat /\ "ack" \in Kinds /\ "resolve" \in Kinds \ {"ack"}  BY RowParts DEF Kinds
<1>2. Acked(row) = [row EXCEPT !.done["ack"] = n]  BY DEF Acked
<1> HIDE DEF n
<1>3. LET new == [row EXCEPT !.done["ack"] = n] IN
      /\ new \in IncidentRow
      /\ new.key = row.key /\ new.sev = row.sev /\ new.status = row.status /\ new.created = row.created
      /\ new.breach = row.breach /\ new.level = row.level /\ new.scope = row.scope
      /\ new.due = row.due /\ new.done["resolve"] = row.done["resolve"] /\ new.done["ack"] = n
      BY <1>1, DoneRow
<1> QED  BY <1>2, <1>3 DEF n

\* What a change of status leaves.
LEMMA OnStatusRow ==
    ASSUME NEW row \in IncidentRow, NEW s \in {"new", "working", "closed"}, clock \in Nat \ {0}
    PROVE  LET new == OnStatus(row, s) IN
           /\ new \in IncidentRow
           /\ new.key = row.key /\ new.sev = row.sev /\ new.created = row.created
           /\ new.breach = row.breach /\ new.level = row.level /\ new.scope = row.scope /\ new.due = row.due
           /\ Closed(new) <=> new.done["resolve"] # 0
           /\ Closed(new) => new.done["ack"] # 0
           /\ \A k \in Kinds : new.done[k] \in {0, clock, row.done[k]}
<1> DEFINE to == [row EXCEPT !.status = s]
           m == IF to.done["resolve"] = 0 THEN clock ELSE to.done["resolve"]
<1>1. /\ to \in IncidentRow
      /\ to.key = row.key /\ to.sev = row.sev /\ to.created = row.created /\ to.status = s
      /\ to.breach = row.breach /\ to.level = row.level /\ to.scope = row.scope /\ to.due = row.due
      /\ to.done = row.done
      BY StatusRow
<1>2. OnStatus(row, s) = CASE s = "closed" -> Acked([to EXCEPT !.done["resolve"] = m])
                           [] s = "working" -> Acked([to EXCEPT !.done["resolve"] = 0])
                           [] s = "new" -> [to EXCEPT !.done["resolve"] = 0]
      BY DEF OnStatus
<1> HIDE DEF to
<1>3. "resolve" \in Kinds /\ "ack" \in Kinds \ {"resolve"} /\ Kinds = {"ack", "resolve"}  BY DEF Kinds
<1>4. to.done \in [Kinds -> Nat]  BY <1>1, RowParts
<1>5. CASE s = "closed"
      <2> DEFINE w == [to EXCEPT !.done["resolve"] = m]
      <2>1. m \in Nat /\ m # 0 /\ m \in {clock, row.done["resolve"]}  BY <1>1, <1>3, <1>4
      <2> HIDE DEF m
      <2>2. /\ w \in IncidentRow
            /\ w.key = to.key /\ w.sev = to.sev /\ w.status = to.status /\ w.created = to.created
            /\ w.breach = to.breach /\ w.level = to.level /\ w.scope = to.scope
            /\ w.due = to.due /\ w.done["resolve"] = m /\ w.done["ack"] = to.done["ack"]
            BY <1>1, <1>3, <2>1, DoneRow
      <2> HIDE DEF w
      <2>3. OnStatus(row, s) = Acked(w)  BY <1>2, <1>5 DEF w
      <2>4. LET new == Acked(w) IN
            /\ new \in IncidentRow
            /\ new.key = w.key /\ new.sev = w.sev /\ new.status = w.status /\ new.created = w.created
            /\ new.breach = w.breach /\ new.level = w.level /\ new.scope = w.scope
            /\ new.due = w.due /\ new.done["resolve"] = w.done["resolve"]
            /\ new.done["ack"] = IF w.done["ack"] = 0 THEN clock ELSE w.done["ack"]
            BY <2>2, AckedRow
      <2> QED  BY <1>1, <1>3, <1>5, <2>1, <2>2, <2>3, <2>4 DEF Closed
<1>6. CASE s # "closed"
      <2> DEFINE w == [to EXCEPT !.done["resolve"] = 0]
      <2>2. /\ w \in IncidentRow
            /\ w.key = to.key /\ w.sev = to.sev /\ w.status = to.status /\ w.created = to.created
            /\ w.breach = to.breach /\ w.level = to.level /\ w.scope = to.scope
            /\ w.due = to.due /\ w.done["resolve"] = 0 /\ w.done["ack"] = to.done["ack"]
        <3> DEFINE n == 0
        <3>1. n \in Nat  OBVIOUS
        <3> HIDE DEF n
        <3>2. LET v == [to EXCEPT !.done["resolve"] = n] IN
              /\ v \in IncidentRow
              /\ v.key = to.key /\ v.sev = to.sev /\ v.status = to.status /\ v.created = to.created
              /\ v.breach = to.breach /\ v.level = to.level /\ v.scope = to.scope
              /\ v.due = to.due /\ v.done["resolve"] = n /\ v.done["ack"] = to.done["ack"]
              BY <1>1, <1>3, <3>1, DoneRow
        <3> QED  BY <3>2 DEF n
      <2> HIDE DEF w
      <2>3. OnStatus(row, s) \in {Acked(w), w}  BY <1>2, <1>6 DEF w
      <2>4. LET new == Acked(w) IN
            /\ new \in IncidentRow
            /\ new.key = w.key /\ new.sev = w.sev /\ new.status = w.status /\ new.created = w.created
            /\ new.breach = w.breach /\ new.level = w.level /\ new.scope = w.scope
            /\ new.due = w.due /\ new.done["resolve"] = w.done["resolve"]
            /\ new.done["ack"] = IF w.done["ack"] = 0 THEN clock ELSE w.done["ack"]
            BY <2>2, AckedRow
      <2> QED  BY <1>1, <1>3, <1>6, <2>2, <2>3, <2>4 DEF Closed
<1> QED  BY <1>5, <1>6

\* An edit of one loaded row, by what it does to the clocks.
LEMMA Deriving ==
    ASSUME NEW seen \in IncidentRow, NEW new \in IncidentRow, NEW t \in Nat,
           Timed(seen, t), Levelled(seen),
           new.key = seen.key, new.created = seen.created, new.scope = seen.scope,
           new.breach = seen.breach, new.level = seen.level,
           \/ new.due = seen.due /\ new.sev = seen.sev
           \/ \A k \in Kinds : new.due[k] = new.created + Sla[new.sev][k],
           \A k \in Kinds : new.done[k] \in {0, t, seen.done[k]},
           \/ /\ Closed(new) <=> new.done["resolve"] # 0
              /\ Closed(new) => new.done["ack"] # 0
           \/ /\ Closed(new) <=> Closed(seen)
              /\ new.done["resolve"] = seen.done["resolve"]
              /\ seen.done["ack"] # 0 => new.done["ack"] # 0
    PROVE  Edit([seen |-> seen, new |-> new], t)
<1>1. Timed(new, t)  BY RowParts DEF Timed
<1>2. Levelled(new)  BY DEF Levelled
<1>3. ASSUME Fits(seen) PROVE Fits(new)
      BY <1>3 DEF Fits
<1>4. ASSUME Grounded(seen), new.due = seen.due PROVE Grounded(new)
      <2> SUFFICES ASSUME NEW k \in Kinds, new.breach[k] # 0
                   PROVE  new.due[k] < new.breach[k] /\ (new.done[k] # 0 => new.due[k] < new.done[k])
          BY DEF Grounded
      <2>1. seen.due[k] < seen.breach[k] /\ (seen.done[k] # 0 => seen.due[k] < seen.done[k])
            /\ seen.breach[k] <= t
            BY <1>4 DEF Grounded, Timed
      <2>2. seen.due[k] \in Nat /\ seen.breach[k] \in Nat  BY RowParts
      <2> QED  BY <1>4, <2>1, <2>2
<1> QED  BY <1>1, <1>2, <1>3, <1>4 DEF Edit, Derived

-----------------------------------------------------------------------------
(* Handlers in flight, against the tables I of incidents and A of alerts.  *)

\* A handler writes at most one incident.
IncidentPart(f, I, t) ==
    /\ DOMAIN f \subseteq Incidents /\ \A i, j \in DOMAIN f : i = j
    /\ \A i \in DOMAIN f :
          \/ Insertion(f[i], t) /\ I[i] = None
          \/ Edit(f[i], t) /\ Based(f[i], I[i]) /\ f[i].new.breach = f[i].seen.breach

\* The alert is linked to an incident of its scope, or to one made with it.
Filed(h, a, I) ==
    LET i == h.alerts[a].new.incident
    IN  /\ i \in Incidents /\ h.link = {<<i, a>>}
        /\ \/ I[i] # None /\ I[i].scope = h.alerts[a].new.scope
           \/ i \in Inserted(h.incs) /\ h.incs[i].new.scope = h.alerts[a].new.scope

InsertedAlert(h, a, I, A) ==
    LET x == h.alerts[a]
    IN  /\ x.seen = None /\ x.new \in AlertRow /\ A[a] = None
        /\ \/ Filed(h, a, I)
           \/ x.new.incident = None /\ h.link = {} /\ Rank(x.new.raised) < 3

EditedAlert(h, a, I, A) ==
    LET x == h.alerts[a]
    IN  /\ x.seen \in AlertRow /\ x.new \in AlertRow /\ A[a] # None
        /\ x.new.key = x.seen.key /\ x.new.scope = x.seen.scope /\ x.new.raised = x.seen.raised
        /\ x.seen.scope = A[a].scope
        /\ \/ x.new.incident = x.seen.incident /\ h.link = {}
           \/ x.seen.incident = None /\ Filed(h, a, I)

AlertPart(h, I, A) ==
    /\ DOMAIN h.alerts \subseteq Alerts /\ \A a, b \in DOMAIN h.alerts : a = b
    /\ DOMAIN h.alerts = {} => h.link = {}
    /\ \A a \in DOMAIN h.alerts : InsertedAlert(h, a, I, A) \/ EditedAlert(h, a, I, A)

Handler(h, I, A, t) == IncidentPart(h.incs, I, t) /\ AlertPart(h, I, A)

\* Rows stay, and keep what they were made with.
Grown(I, J) ==
    \A i \in Incidents : I[i] # None =>
        /\ J[i] \in IncidentRow /\ J[i].created = I[i].created
        /\ J[i].key = I[i].key /\ J[i].scope = I[i].scope
        /\ \A k \in Kinds : I[i].breach[k] # 0 => J[i].breach[k] # 0

GrownAlerts(A, B) ==
    \A a \in Alerts : A[a] # None => B[a] # None /\ B[a].scope = A[a].scope

LEMMA TimedLater ==
    ASSUME NEW row \in IncidentRow, NEW t \in Nat, NEW u \in Nat, t <= u, Timed(row, t)
    PROVE  Timed(row, u)
BY RowParts DEF Timed

\* What others commit leaves a handler as sound as it was, if they insert
\* other rows.
LEMMA HandlerKept ==
    ASSUME NEW h, NEW I, NEW J, NEW A, NEW B, NEW t \in Nat, NEW u \in Nat, t <= u,
           Handler(h, I, A, t), Grown(I, J), GrownAlerts(A, B),
           \A i \in Inserted(h.incs) : J[i] = None, \A a \in Inserted(h.alerts) : B[a] = None
    PROVE  Handler(h, J, B, u)
<1>1. IncidentPart(h.incs, J, u)
      <2>1. IncidentPart(h.incs, I, t)  BY DEF Handler
      <2>2. ASSUME NEW i \in DOMAIN h.incs, Insertion(h.incs[i], t)
            PROVE  Insertion(h.incs[i], u) /\ J[i] = None
            BY <2>2, TimedLater DEF Insertion, Inserted
      <2>3. ASSUME NEW i \in DOMAIN h.incs, Edit(h.incs[i], t), Based(h.incs[i], I[i])
            PROVE  Edit(h.incs[i], u) /\ Based(h.incs[i], J[i])
            <3>1. i \in Incidents /\ I[i] # None  BY <2>1, <2>3, Nones DEF IncidentPart, Based
            <3>2. Edit(h.incs[i], u)  BY <2>3, TimedLater DEF Edit
            <3> QED  BY <2>3, <3>1, <3>2 DEF Based, Grown
      <2> QED  BY <2>1, <2>2, <2>3 DEF IncidentPart
<1>2. AlertPart(h, J, B)
      <2>1. AlertPart(h, I, A)  BY DEF Handler
      <2>2. ASSUME NEW a \in DOMAIN h.alerts, Filed(h, a, I) PROVE Filed(h, a, J)
            BY <2>2, Nones DEF Filed, Grown
      <2>3. ASSUME NEW a \in DOMAIN h.alerts, InsertedAlert(h, a, I, A) PROVE InsertedAlert(h, a, J, B)
            BY <2>2, <2>3 DEF InsertedAlert, Inserted
      <2>4. ASSUME NEW a \in DOMAIN h.alerts, EditedAlert(h, a, I, A) PROVE EditedAlert(h, a, J, B)
            <3>1. a \in Alerts  BY <2>1 DEF AlertPart
            <3> QED  BY <2>2, <2>4, <3>1 DEF EditedAlert, GrownAlerts
      <2> QED  BY <2>1, <2>3, <2>4 DEF AlertPart
<1> QED  BY <1>1, <1>2 DEF Handler

-----------------------------------------------------------------------------
(* Types.                                                                  *)

Apart(h, g) ==
    Inserted(h.incs) \cap Inserted(g.incs) = {} /\ Inserted(h.alerts) \cap Inserted(g.alerts) = {}

\* A sweep records breaches and moves no due time.
SweepPart(f, I, t) ==
    /\ DOMAIN f \subseteq Incidents
    /\ \A i \in DOMAIN f : Edit(f[i], t) /\ Based(f[i], I[i]) /\ f[i].new.due = f[i].seen.due

RowsInv ==
    /\ inc \in [Incidents -> IncidentRow \cup {None}] /\ alert \in [Alerts -> AlertRow \cup {None}]
    /\ \A i \in Born : Timed(inc[i], clock) /\ Levelled(inc[i])
    /\ \A a \in Raised : alert[a].incident \in Born \cup {None}
    /\ links \subseteq Born \X Raised

HandlersInv ==
    /\ \A h \in handlers : Handler(h, inc, alert, clock)
    /\ \A h, g \in handlers : h # g => Apart(h, g)

SweepsInv ==
    /\ DOMAIN sweep = Replicas
    /\ \A p \in Replicas : sweep[p] = None \/ SweepPart(sweep[p], inc, clock)

ElectionInv ==
    /\ holder \in Replicas \cup {None} /\ leader \in [Replicas -> BOOLEAN] /\ DOMAIN conn = Replicas
    /\ \A p \in Replicas : holder = p => conn[p] = "open"

TypeInv ==
    /\ RowsInv /\ HandlersInv /\ SweepsInv /\ ElectionInv
    /\ clock \in Nat \ {0} /\ mode \in Modes
    /\ DOMAIN told = Incidents \X Kinds

LEMMA BornRow ==
    ASSUME RowsInv, NEW i \in Born
    PROVE  i \in Incidents /\ inc[i] \in IncidentRow /\ inc[i] # None
BY DEF RowsInv, Born

LEMMA RaisedRow ==
    ASSUME RowsInv, NEW a \in Raised
    PROVE  a \in Alerts /\ alert[a] \in AlertRow /\ alert[a] # None
BY DEF RowsInv, Raised

LEMMA BornFinite == IsFiniteSet(Born) /\ Cardinality(Born) \in Nat
<1>1. IsFiniteSet(Incidents)  BY FS_Interval, OperationsAssumption DEF OperationsAssumption, Incidents
<1>2. Born \subseteq Incidents  BY DEF Born
<1> QED  BY <1>1, <1>2, FS_Subset, FS_CardinalityType

LEMMA NewIncidentRow ==
    ASSUME mode \in Modes, clock \in Nat, NEW b \in SUBSET UNION {e.about : e \in Events}, NEW s \in Severities
    PROVE  LET new == NewIncident(b, s) IN
           /\ new \in IncidentRow
           /\ new.key = Cardinality(Born) + 1 /\ new.sev = s /\ new.status = "new" /\ new.created = clock
           /\ new.level = 0 /\ new.scope = mode
           /\ \A k \in Kinds : /\ new.due[k] = new.created + Sla[new.sev][k]
                               /\ new.done[k] = 0 /\ new.breach[k] = 0
<1> DEFINE z == [k \in Kinds |-> 0]
           raw == [key |-> Cardinality(Born) + 1, about |-> b, sev |-> s, status |-> "new",
                   created |-> clock, due |-> z, done |-> z, breach |-> z, level |-> 0, scope |-> mode]
<1>1. z \in [Kinds -> Nat] /\ \A k \in Kinds : z[k] = 0  OBVIOUS
<1> HIDE DEF z
<1>2. raw \in IncidentRow  BY <1>1, BornFinite DEF IncidentRow
<1>3. /\ raw.key = Cardinality(Born) + 1 /\ raw.sev = s /\ raw.status = "new" /\ raw.created = clock
      /\ raw.level = 0 /\ raw.scope = mode /\ raw.done = z /\ raw.breach = z
      OBVIOUS
<1>4. NewIncident(b, s) = WithSla(raw)  BY DEF NewIncident, z
<1> HIDE DEF raw
<1> QED  BY <1>1, <1>2, <1>3, <1>4, WithSlaRow

\* A new incident, acknowledged or not.
LEMMA Inserting ==
    ASSUME NEW row \in IncidentRow, NEW t \in Nat \ {0},
           row.created = t, row.level = 0, row.status # "closed", row.done["resolve"] = 0,
           \A k \in Kinds : /\ row.due[k] = row.created + Sla[row.sev][k]
                            /\ row.done[k] \in {0, t} /\ row.breach[k] = 0
    PROVE  Insertion([seen |-> None, new |-> row], t)
<1>1. Timed(row, t)  BY RowParts DEF Timed
<1>2. Levelled(row)  BY DEF Levelled, Kinds
<1>3. Fits(row)  BY DEF Fits, Closed
<1> QED  BY <1>1, <1>2, <1>3 DEF Insertion

-----------------------------------------------------------------------------
(* Handlers up to their commit.                                            *)

Begins(h) ==
    /\ Handler(h, inc, alert, clock) /\ \A g \in handlers : Apart(h, g)
    /\ handlers' = handlers \cup {h}
    /\ UNCHANGED <<rows, mode, clock, election, sweep, told, history, lapsed>>

LEMMA Deciding ==
    ASSUME NEW f, NEW d, NEW l, Decide(f, d, l),
           IncidentPart(f, inc, clock),
           AlertPart([incs |-> f, alerts |-> d, link |-> l], inc, alert),
           \A g \in handlers : Inserted(f) \cap Inserted(g.incs) = {} /\ Inserted(d) \cap Inserted(g.alerts) = {}
    PROVE  \E h : Begins(h)
<1> DEFINE h == [incs |-> f, alerts |-> d, link |-> l]
<1>1. h.incs = f /\ h.alerts = d  OBVIOUS
<1>2. handlers' = handlers \cup {h} /\ UNCHANGED <<rows, mode, clock, election, sweep, told, history, lapsed>>
      BY DEF Decide
<1> HIDE DEF h
<1>3. AlertPart(h, inc, alert)  BY DEF h
<1> QED  BY <1>1, <1>2, <1>3 DEF Begins, Handler, Apart

LEMMA OneRow ==
    ASSUME NEW x, NEW s, NEW n
    PROVE  Row(x, s, n)[x] = [seen |-> s, new |-> n]
BY DEF Row

LEMMA OneDomain ==
    ASSUME NEW x, NEW s, NEW n
    PROVE  DOMAIN Row(x, s, n) = {x}
BY DEF Row

LEMMA OneInsert ==
    ASSUME NEW x, NEW n
    PROVE  Inserted(Row(x, None, n)) = {x}
<1>1. DOMAIN Row(x, None, n) = {x} /\ Row(x, None, n)[x].seen = None  BY DEF Row
<1> QED  BY <1>1 DEF Inserted

LEMMA OneUpdate ==
    ASSUME NEW x, NEW s, NEW n, s # None
    PROVE  Inserted(Row(x, s, n)) = {}
<1>1. DOMAIN Row(x, s, n) = {x} /\ Row(x, s, n)[x].seen = s  BY DEF Row
<1> QED  BY <1>1 DEF Inserted

LEMMA NoRow == DOMAIN Nothing = {} /\ Inserted(Nothing) = {}
BY DEF Nothing, Inserted

\* An edit of a row as it stands.
LEMMA EditPart ==
    ASSUME TypeInv, NEW i \in Born, NEW new \in IncidentRow,
           new.key = inc[i].key, new.created = inc[i].created, new.scope = inc[i].scope,
           new.breach = inc[i].breach, new.level = inc[i].level,
           \/ new.due = inc[i].due /\ new.sev = inc[i].sev
           \/ \A k \in Kinds : new.due[k] = new.created + Sla[new.sev][k],
           \A k \in Kinds : new.done[k] \in {0, clock, inc[i].done[k]},
           \/ /\ Closed(new) <=> new.done["resolve"] # 0
              /\ Closed(new) => new.done["ack"] # 0
           \/ /\ Closed(new) <=> Closed(inc[i])
              /\ new.done["resolve"] = inc[i].done["resolve"]
              /\ inc[i].done["ack"] # 0 => new.done["ack"] # 0
    PROVE  IncidentPart(Row(i, inc[i], new), inc, clock) /\ Inserted(Row(i, inc[i], new)) = {}
<1>1. /\ inc[i] \in IncidentRow /\ inc[i] # None /\ i \in Incidents /\ clock \in Nat
      /\ Timed(inc[i], clock) /\ Levelled(inc[i])
      BY BornRow DEF TypeInv, RowsInv
<1>2. Edit([seen |-> inc[i], new |-> new], clock)
      BY <1>1, Deriving
<1>3. Based([seen |-> inc[i], new |-> new], inc[i])
      BY <1>1 DEF Based
<1> DEFINE f == Row(i, inc[i], new)
<1>4. DOMAIN f = {i} /\ f[i] = [seen |-> inc[i], new |-> new] /\ Inserted(f) = {}
      <2>1. inc[i] # None  BY <1>1
      <2>2. Inserted(f) = {}  BY <2>1, OneUpdate
      <2>3. DOMAIN f = {i}  BY OneDomain
      <2>4. f[i] = [seen |-> inc[i], new |-> new]  BY OneRow
      <2> QED  BY <2>2, <2>3, <2>4
<1> HIDE DEF f
<1>5. Edit(f[i], clock) /\ Based(f[i], inc[i]) /\ f[i].new.breach = f[i].seen.breach
      BY <1>2, <1>3, <1>4
<1>6. IncidentPart(f, inc, clock)  BY <1>1, <1>4, <1>5 DEF IncidentPart
<1> QED  BY <1>4, <1>6 DEF f

LEMMA EditBegins ==
    ASSUME TypeInv, NEW i \in Born, NEW new \in IncidentRow, EditIncident(i, new),
           new.key = inc[i].key, new.created = inc[i].created, new.scope = inc[i].scope,
           new.breach = inc[i].breach, new.level = inc[i].level,
           \/ new.due = inc[i].due /\ new.sev = inc[i].sev
           \/ \A k \in Kinds : new.due[k] = new.created + Sla[new.sev][k],
           \A k \in Kinds : new.done[k] \in {0, clock, inc[i].done[k]},
           \/ /\ Closed(new) <=> new.done["resolve"] # 0
              /\ Closed(new) => new.done["ack"] # 0
           \/ /\ Closed(new) <=> Closed(inc[i])
              /\ new.done["resolve"] = inc[i].done["resolve"]
              /\ inc[i].done["ack"] # 0 => new.done["ack"] # 0
    PROVE  \E h : Begins(h)
<1> DEFINE f == Row(i, inc[i], new)
<1>1. Decide(f, Nothing, {})  BY DEF EditIncident
<1>2. IncidentPart(f, inc, clock) /\ Inserted(f) = {}  BY EditPart
<1>3. AlertPart([incs |-> f, alerts |-> Nothing, link |-> {}], inc, alert)  BY NoRow DEF AlertPart
<1> HIDE DEF f
<1> QED  BY <1>1, <1>2, <1>3, NoRow, Deciding

LEMMA PatchBegins ==
    ASSUME TypeInv, Patch
    PROVE  \E h : Begins(h)
<1>1. PICK i \in Born, sev \in Severities, s \in {"new", "working", "closed"} :
         LET rated == IF sev # inc[i].sev THEN WithSla([inc[i] EXCEPT !.sev = sev]) ELSE inc[i]
         IN  EditIncident(i, IF s # inc[i].status THEN OnStatus(rated, s) ELSE rated)
      BY DEF Patch
<1> DEFINE row == inc[i]
           up == [row EXCEPT !.sev = sev]
           rated == IF sev # row.sev THEN WithSla(up) ELSE row
           new == IF s # row.status THEN OnStatus(rated, s) ELSE rated
<1>2. row \in IncidentRow /\ clock \in Nat \ {0}  BY BornRow DEF TypeInv
<1>3. EditIncident(i, new)  BY <1>1
<1>4. /\ up \in IncidentRow
      /\ up.key = row.key /\ up.sev = sev /\ up.status = row.status /\ up.created = row.created
      /\ up.done = row.done /\ up.breach = row.breach /\ up.level = row.level /\ up.scope = row.scope
      BY <1>2, SevRow
<1> HIDE DEF up
<1>5. LET w == WithSla(up) IN
           /\ w \in IncidentRow
           /\ w.key = up.key /\ w.sev = up.sev /\ w.status = up.status /\ w.created = up.created
           /\ w.done = up.done /\ w.breach = up.breach /\ w.level = up.level /\ w.scope = up.scope
           /\ \A k \in Kinds : w.due[k] = w.created + Sla[w.sev][k]
      BY <1>4, WithSlaRow
<1>6. /\ rated \in IncidentRow
      /\ rated.key = row.key /\ rated.status = row.status /\ rated.created = row.created
      /\ rated.done = row.done /\ rated.breach = row.breach /\ rated.level = row.level /\ rated.scope = row.scope
      /\ \/ rated.due = row.due /\ rated.sev = row.sev
         \/ \A k \in Kinds : rated.due[k] = rated.created + Sla[rated.sev][k]
      BY <1>2, <1>4, <1>5
<1> HIDE DEF rated
<1>7. LET w == OnStatus(rated, s) IN
           /\ w \in IncidentRow
           /\ w.key = rated.key /\ w.sev = rated.sev /\ w.created = rated.created
           /\ w.breach = rated.breach /\ w.level = rated.level /\ w.scope = rated.scope /\ w.due = rated.due
           /\ Closed(w) <=> w.done["resolve"] # 0
           /\ Closed(w) => w.done["ack"] # 0
           /\ \A k \in Kinds : w.done[k] \in {0, clock, rated.done[k]}
      BY <1>2, <1>6, OnStatusRow
<1>8. /\ new \in IncidentRow
      /\ new.key = row.key /\ new.created = row.created /\ new.scope = row.scope
      /\ new.breach = row.breach /\ new.level = row.level
      /\ \/ new.due = row.due /\ new.sev = row.sev
         \/ \A k \in Kinds : new.due[k] = new.created + Sla[new.sev][k]
      /\ \A k \in Kinds : new.done[k] \in {0, clock, row.done[k]}
      BY <1>6, <1>7
<1>9. \/ /\ Closed(new) <=> new.done["resolve"] # 0
         /\ Closed(new) => new.done["ack"] # 0
      \/ /\ Closed(new) <=> Closed(row)
         /\ new.done["resolve"] = row.done["resolve"]
         /\ row.done["ack"] # 0 => new.done["ack"] # 0
      <2>1. CASE s # row.status  BY <2>1, <1>7
      <2>2. CASE s = row.status  BY <2>2, <1>6 DEF Closed
      <2> QED  BY <2>1, <2>2
<1> HIDE DEF new
<1> QED  BY <1>3, <1>8, <1>9, EditBegins

LEMMA AcknowledgeBegins ==
    ASSUME TypeInv, Acknowledge
    PROVE  \E h : Begins(h)
<1>1. PICK i \in Born : EditIncident(i, [Acked(inc[i]) EXCEPT !.status = IF @ = "new" THEN "working" ELSE @])
      BY DEF Acknowledge
<1> DEFINE row == inc[i]
           acked == Acked(row)
           s == IF acked.status = "new" THEN "working" ELSE acked.status
           new == [acked EXCEPT !.status = s]
<1>2. row \in IncidentRow /\ clock \in Nat \ {0}  BY BornRow DEF TypeInv
<1>3. EditIncident(i, new)  BY <1>1
<1>4. /\ acked \in IncidentRow
      /\ acked.key = row.key /\ acked.sev = row.sev /\ acked.status = row.status /\ acked.created = row.created
      /\ acked.breach = row.breach /\ acked.level = row.level /\ acked.scope = row.scope
      /\ acked.due = row.due /\ acked.done["resolve"] = row.done["resolve"]
      /\ acked.done["ack"] = IF row.done["ack"] = 0 THEN clock ELSE row.done["ack"]
      BY <1>2, AckedRow
<1>5. s \in {"new", "working", "closed"} /\ (s = "closed" <=> row.status = "closed")
      BY <1>2, <1>4, RowParts
<1> HIDE DEF s, acked
<1>6. /\ new \in IncidentRow
      /\ new.key = acked.key /\ new.sev = acked.sev /\ new.status = s /\ new.created = acked.created
      /\ new.done = acked.done /\ new.breach = acked.breach /\ new.level = acked.level /\ new.scope = acked.scope
      /\ new.due = acked.due
      BY <1>4, <1>5, StatusRow
<1> HIDE DEF new
<1>7. Closed(new) <=> Closed(row)  BY <1>5, <1>6 DEF Closed
<1>8. \A k \in Kinds : new.done[k] \in {0, clock, row.done[k]}  BY <1>4, <1>6 DEF Kinds
<1>9. row.done["ack"] # 0 => new.done["ack"] # 0  BY <1>4, <1>6
<1>10. new.done["resolve"] = row.done["resolve"]  BY <1>4, <1>6
<1> QED  BY <1>3, <1>4, <1>6, <1>7, <1>8, <1>9, <1>10, EditBegins

LEMMA EditAlertBegins ==
    ASSUME TypeInv, EditAlert
    PROVE  \E h : Begins(h)
<1>1. PICK a \in Raised, s \in {"open", "done"}, sev \in Severities :
         Decide(Nothing, Row(a, alert[a], [alert[a] EXCEPT !.status = s, !.sev = sev]), {})
      BY DEF EditAlert
<1> DEFINE new == [alert[a] EXCEPT !.status = s, !.sev = sev]
           d == Row(a, alert[a], new)
           h == [incs |-> Nothing, alerts |-> d, link |-> {}]
<1>2. a \in Alerts /\ alert[a] \in AlertRow /\ alert[a] # None  BY RaisedRow DEF TypeInv
<1>3. /\ new \in AlertRow
      /\ new.key = alert[a].key /\ new.scope = alert[a].scope /\ new.raised = alert[a].raised
      /\ new.incident = alert[a].incident
      BY <1>2 DEF AlertRow
<1>4. Decide(Nothing, d, {})  BY <1>1
<1> HIDE DEF new
<1>5. DOMAIN d = {a} /\ d[a] = [seen |-> alert[a], new |-> new] /\ Inserted(d) = {}
      <2>1. alert[a] # None  BY <1>2
      <2>2. Inserted(d) = {}  BY <2>1, OneUpdate
      <2>3. DOMAIN d = {a}  BY OneDomain
      <2>4. d[a] = [seen |-> alert[a], new |-> new]  BY OneRow
      <2> QED  BY <2>2, <2>3, <2>4
<1> HIDE DEF d
<1>6. h.alerts = d /\ h.link = {}  OBVIOUS
<1> HIDE DEF h
<1>7. EditedAlert(h, a, inc, alert)  BY <1>2, <1>3, <1>5, <1>6 DEF EditedAlert
<1>8. AlertPart(h, inc, alert)  BY <1>2, <1>5, <1>6, <1>7 DEF AlertPart
<1>9. IncidentPart(Nothing, inc, clock)  BY NoRow DEF IncidentPart
<1> QED  BY <1>4, <1>5, <1>8, <1>9, NoRow, Deciding DEF h

\* An alert and the incident made for it.
LEMMA WithIncident ==
    ASSUME TypeInv, NEW i \in NextId(FreshIncident), NEW row,
           Insertion([seen |-> None, new |-> row], clock), row.scope = mode,
           NEW a \in Alerts, NEW seen, NEW new \in AlertRow, new.incident = i, new.scope = mode,
           \/ seen = None /\ a \in FreshAlert
           \/ /\ seen \in AlertRow /\ a \in Raised /\ seen = alert[a] /\ seen.incident = None
              /\ new.key = seen.key /\ new.scope = seen.scope /\ new.raised = seen.raised,
           Decide(Row(i, None, row), Row(a, seen, new), {<<i, a>>})
    PROVE  \E h : Begins(h)
<1> DEFINE f == Row(i, None, row)
           d == Row(a, seen, new)
           h == [incs |-> f, alerts |-> d, link |-> {<<i, a>>}]
<1>1. /\ i \in Incidents /\ inc[i] = None /\ \A g \in handlers : i \notin DOMAIN g.incs
      BY DEF NextId, FreshIncident, Born
<1>2. DOMAIN f = {i} /\ f[i] = [seen |-> None, new |-> row] /\ Inserted(f) = {i}
      BY ONLY OneDomain, OneRow, OneInsert, OneUpdate
<1>3. DOMAIN d = {a} /\ d[a] = [seen |-> seen, new |-> new] /\ (seen # None => Inserted(d) = {})
      /\ (seen = None => Inserted(d) = {a})
      BY ONLY OneDomain, OneRow, OneInsert, OneUpdate
<1>4. Decide(f, d, {<<i, a>>})  OBVIOUS
<1> HIDE DEF f, d
<1>5. h.incs = f /\ h.alerts = d /\ h.link = {<<i, a>>}  OBVIOUS
<1> HIDE DEF h
<1>6. IncidentPart(f, inc, clock)
      <2>1. Insertion(f[i], clock)  BY <1>2
      <2> QED  BY <1>1, <1>2, <2>1 DEF IncidentPart
<1>7. Filed(h, a, inc)
      <2>1. i \in Inserted(h.incs) /\ h.incs[i].new.scope = h.alerts[a].new.scope /\ h.alerts[a].new.incident = i
            BY <1>2, <1>3, <1>5
      <2> QED  BY <1>1, <1>5, <2>1 DEF Filed
<1>8. InsertedAlert(h, a, inc, alert) \/ EditedAlert(h, a, inc, alert)
      <2>1. CASE seen = None /\ a \in FreshAlert
            <3>1. alert[a] = None  BY <2>1 DEF FreshAlert, Raised
            <3> QED  BY <1>3, <1>5, <1>7, <2>1, <3>1 DEF InsertedAlert
      <2>2. CASE /\ seen \in AlertRow /\ a \in Raised /\ seen = alert[a] /\ seen.incident = None
                 /\ new.key = seen.key /\ new.scope = seen.scope /\ new.raised = seen.raised
            <3>1. alert[a] # None  BY <2>2 DEF Raised
            <3> QED  BY <1>3, <1>5, <1>7, <2>2, <3>1 DEF EditedAlert
      <2> QED  BY <2>1, <2>2
<1>9. AlertPart(h, inc, alert)  BY <1>3, <1>5, <1>8 DEF AlertPart
<1>10. \A g \in handlers : Inserted(f) \cap Inserted(g.incs) = {} /\ Inserted(d) \cap Inserted(g.alerts) = {}
      <2>1. \A g \in handlers : Inserted(f) \cap Inserted(g.incs) = {}  BY <1>1, <1>2 DEF Inserted
      <2>2. \A g \in handlers : Inserted(d) \cap Inserted(g.alerts) = {}
            <3>1. CASE seen = None /\ a \in FreshAlert  BY <1>3, <3>1 DEF Inserted, FreshAlert
            <3>2. CASE seen # None  BY <1>3, <3>2
            <3> QED  BY <3>1, <3>2, Nones
      <2> QED  BY <2>1, <2>2
<1>11. AlertPart([incs |-> f, alerts |-> d, link |-> {<<i, a>>}], inc, alert)  BY <1>9 DEF h
<1> QED  BY ONLY <1>4, <1>6, <1>10, <1>11, Deciding

LEMMA PromoteBegins ==
    ASSUME TypeInv, Promote
    PROVE  \E h : Begins(h)
<1>1. PICK a \in Raised, i \in NextId(FreshIncident) :
         /\ alert[a].scope = mode /\ alert[a].incident = None
         /\ Decide(Row(i, None, Acked(NewIncident(alert[a].key.about, alert[a].sev))),
                   Row(a, alert[a], [alert[a] EXCEPT !.incident = i, !.status = "open"]), {<<i, a>>})
      BY DEF Promote
<1> DEFINE row == NewIncident(alert[a].key.about, alert[a].sev)
           acked == Acked(row)
           new == [alert[a] EXCEPT !.incident = i, !.status = "open"]
<1>2. a \in Alerts /\ alert[a] \in AlertRow /\ alert[a] # None  BY RaisedRow DEF TypeInv
<1>3. alert[a].key \in Events /\ alert[a].sev \in Severities  BY <1>2 DEF AlertRow
<1>4. alert[a].key.about \in SUBSET UNION {e.about : e \in Events}  BY <1>3
<1>5. clock \in Nat \ {0} /\ mode \in Modes  BY DEF TypeInv
<1>6. /\ row \in IncidentRow
      /\ row.status = "new" /\ row.created = clock /\ row.level = 0 /\ row.scope = mode
      /\ \A k \in Kinds : /\ row.due[k] = row.created + Sla[row.sev][k]
                          /\ row.done[k] = 0 /\ row.breach[k] = 0
      BY <1>3, <1>4, <1>5, NewIncidentRow
<1> HIDE DEF row
<1>7. /\ acked \in IncidentRow
      /\ acked.key = row.key /\ acked.sev = row.sev /\ acked.status = row.status /\ acked.created = row.created
      /\ acked.breach = row.breach /\ acked.level = row.level /\ acked.scope = row.scope
      /\ acked.due = row.due /\ acked.done["resolve"] = row.done["resolve"]
      /\ acked.done["ack"] = IF row.done["ack"] = 0 THEN clock ELSE row.done["ack"]
      BY <1>5, <1>6, AckedRow
<1> HIDE DEF acked
<1>8. Insertion([seen |-> None, new |-> acked], clock)
      <2>1. acked.status # "closed" /\ acked.done["resolve"] = 0 /\ acked.created = clock /\ acked.level = 0
            BY <1>6, <1>7 DEF Kinds
      <2>2. \A k \in Kinds : /\ acked.due[k] = acked.created + Sla[acked.sev][k]
                             /\ acked.done[k] \in {0, clock} /\ acked.breach[k] = 0
            BY <1>6, <1>7 DEF Kinds
      <2> QED  BY <1>5, <1>7, <2>1, <2>2, Inserting
<1>9. i \in Incidents  BY DEF NextId, FreshIncident
<1>10. /\ new \in AlertRow /\ new.incident = i /\ new.key = alert[a].key /\ new.scope = alert[a].scope
       /\ new.raised = alert[a].raised
      BY <1>2, <1>9 DEF AlertRow
<1>11. Decide(Row(i, None, acked), Row(a, alert[a], new), {<<i, a>>})  BY <1>1 DEF acked, row
<1> HIDE DEF new
<1>12. acked.scope = mode /\ new.scope = mode  BY <1>1, <1>6, <1>7, <1>10
<1> QED  BY <1>1, <1>2, <1>8, <1>10, <1>11, <1>12, WithIncident

LEMMA IngestBegins ==
    ASSUME TypeInv, Ingest
    PROVE  \E h : Begins(h)
<1>1. PICK e \in Events, a \in NextId(FreshAlert) :
         LET new == [key |-> e, sev |-> e.rule, status |-> "open", incident |-> None, scope |-> mode,
                     raised |-> e.rule]
         IN  \/ \E i \in Candidates(e) :
                   Decide(Row(i, inc[i], Joined(inc[i], e)),
                          Row(a, None, [new EXCEPT !.incident = i]), {<<i, a>>})
             \/ \E i \in NextId(FreshIncident) :
                   Decide(Row(i, None, NewIncident(e.about, e.rule)),
                          Row(a, None, [new EXCEPT !.incident = i]), {<<i, a>>})
             \/ Rank(e.rule) < 3 /\ Decide(Nothing, Row(a, None, new), {})
      BY DEF Ingest
<1> DEFINE new == [key |-> e, sev |-> e.rule, status |-> "open", incident |-> None, scope |-> mode,
                   raised |-> e.rule]
           in(i) == [new EXCEPT !.incident = i]
<1>2. clock \in Nat \ {0} /\ mode \in Modes /\ e.rule \in Severities
      BY OperationsAssumption DEF TypeInv, OperationsAssumption
<1>3. /\ a \in Alerts /\ a \in FreshAlert /\ alert[a] = None /\ \A g \in handlers : a \notin DOMAIN g.alerts
      BY DEF NextId, FreshAlert, Raised
<1>4. new \in AlertRow /\ new.incident = None /\ new.scope = mode /\ new.raised = e.rule
      BY <1>2 DEF AlertRow
<1>5. \A i \in Incidents : in(i) \in AlertRow /\ in(i).incident = i /\ in(i).scope = mode
      BY <1>2 DEF AlertRow
<1>6. e.about \in SUBSET UNION {x.about : x \in Events}  OBVIOUS
<1>7. \/ \E i \in Candidates(e) : Decide(Row(i, inc[i], Joined(inc[i], e)), Row(a, None, in(i)), {<<i, a>>})
      \/ \E i \in NextId(FreshIncident) :
            Decide(Row(i, None, NewIncident(e.about, e.rule)), Row(a, None, in(i)), {<<i, a>>})
      \/ Rank(e.rule) < 3 /\ Decide(Nothing, Row(a, None, new), {})
      BY <1>1
<1> HIDE DEF new, in
<1>8. CASE Rank(e.rule) < 3 /\ Decide(Nothing, Row(a, None, new), {})
      <2> DEFINE d == Row(a, None, new)
                 h == [incs |-> Nothing, alerts |-> d, link |-> {}]
      <2>1. DOMAIN d = {a} /\ d[a] = [seen |-> None, new |-> new] /\ Inserted(d) = {a}  BY OneDomain, OneRow, OneInsert
      <2>2. Decide(Nothing, d, {})  BY <1>8
      <2> HIDE DEF d
      <2>3. h.alerts = d /\ h.link = {}  OBVIOUS
      <2> HIDE DEF h
      <2>4. InsertedAlert(h, a, inc, alert)  BY <1>3, <1>4, <1>8, <2>1, <2>3 DEF InsertedAlert
      <2>5. AlertPart(h, inc, alert)  BY <1>3, <2>1, <2>3, <2>4 DEF AlertPart
      <2>6. IncidentPart(Nothing, inc, clock)  BY NoRow DEF IncidentPart
      <2>7. \A g \in handlers : Inserted(Nothing) \cap Inserted(g.incs) = {} /\ Inserted(d) \cap Inserted(g.alerts) = {}
            BY <1>3, <2>1, NoRow DEF Inserted
      <2> QED  BY <2>2, <2>5, <2>6, <2>7, Deciding DEF h
<1>9. ASSUME NEW i \in NextId(FreshIncident),
             Decide(Row(i, None, NewIncident(e.about, e.rule)), Row(a, None, in(i)), {<<i, a>>})
      PROVE  \E h : Begins(h)
      <2> DEFINE row == NewIncident(e.about, e.rule)
      <2>1. /\ row \in IncidentRow
            /\ row.status = "new" /\ row.created = clock /\ row.level = 0 /\ row.scope = mode
            /\ \A k \in Kinds : /\ row.due[k] = row.created + Sla[row.sev][k]
                                /\ row.done[k] = 0 /\ row.breach[k] = 0
            BY <1>2, <1>6, NewIncidentRow
      <2> HIDE DEF row
      <2>2. Insertion([seen |-> None, new |-> row], clock)
            BY <1>2, <2>1, Inserting DEF Kinds
      <2>3. i \in Incidents  BY DEF NextId, FreshIncident
      <2>4. in(i) \in AlertRow /\ in(i).incident = i /\ in(i).scope = mode  BY <1>5, <2>3
      <2>5. Decide(Row(i, None, row), Row(a, None, in(i)), {<<i, a>>})  BY <1>9 DEF row
      <2> QED  BY <1>3, <2>1, <2>2, <2>4, <2>5, WithIncident
<1>10. ASSUME NEW i \in Candidates(e),
              Decide(Row(i, inc[i], Joined(inc[i], e)), Row(a, None, in(i)), {<<i, a>>})
       PROVE  \E h : Begins(h)
      <2> DEFINE row == inc[i]
                 wider == [row EXCEPT !.about = @ \cup e.about]
                 up == [wider EXCEPT !.sev = e.rule]
                 joined == Joined(row, e)
                 f == Row(i, inc[i], joined)
                 d == Row(a, None, in(i))
                 h == [incs |-> f, alerts |-> d, link |-> {<<i, a>>}]
      <2>1. i \in Born /\ i \in Incidents /\ row \in IncidentRow /\ row # None /\ row.scope = mode
            BY BornRow DEF Candidates, TypeInv
      <2>2. /\ wider \in IncidentRow
            /\ wider.key = row.key /\ wider.sev = row.sev /\ wider.status = row.status /\ wider.created = row.created
            /\ wider.done = row.done /\ wider.breach = row.breach /\ wider.level = row.level
            /\ wider.scope = row.scope /\ wider.due = row.due
            BY <2>1, AboutRow
      <2>3. joined = IF Rank(e.rule) > Rank(row.sev) THEN WithSla(up) ELSE wider  BY DEF Joined
      <2> HIDE DEF wider
      <2>4. /\ up \in IncidentRow
            /\ up.key = wider.key /\ up.sev = e.rule /\ up.status = wider.status /\ up.created = wider.created
            /\ up.done = wider.done /\ up.breach = wider.breach /\ up.level = wider.level /\ up.scope = wider.scope
            BY <1>2, <2>2, SevRow
      <2> HIDE DEF up
      <2>5. LET w == WithSla(up) IN
            /\ w \in IncidentRow
            /\ w.key = up.key /\ w.sev = up.sev /\ w.status = up.status /\ w.created = up.created
            /\ w.done = up.done /\ w.breach = up.breach /\ w.level = up.level /\ w.scope = up.scope
            /\ \A k \in Kinds : w.due[k] = w.created + Sla[w.sev][k]
            BY <2>4, WithSlaRow
      <2> HIDE DEF joined
      <2>6. /\ joined \in IncidentRow
            /\ joined.key = row.key /\ joined.created = row.created /\ joined.scope = row.scope
            /\ joined.breach = row.breach /\ joined.level = row.level
            /\ joined.status = row.status /\ joined.done = row.done
            /\ \/ joined.due = row.due /\ joined.sev = row.sev
               \/ \A k \in Kinds : joined.due[k] = joined.created + Sla[joined.sev][k]
            BY <2>2, <2>3, <2>4, <2>5
      <2>7. Closed(joined) <=> Closed(row)  BY <2>6 DEF Closed
      <2>8. IncidentPart(f, inc, clock) /\ Inserted(f) = {}
            BY <2>1, <2>6, <2>7, EditPart
      <2>9. DOMAIN d = {a} /\ d[a] = [seen |-> None, new |-> in(i)] /\ Inserted(d) = {a}  BY OneDomain, OneRow, OneInsert
      <2>10. Decide(f, d, {<<i, a>>})  BY <1>10 DEF joined
      <2> HIDE DEF f, d
      <2>11. h.incs = f /\ h.alerts = d /\ h.link = {<<i, a>>}  OBVIOUS
      <2> HIDE DEF h
      <2>12. in(i) \in AlertRow /\ in(i).incident = i /\ in(i).scope = mode  BY <1>5, <2>1
      <2>13. Filed(h, a, inc)  BY <2>1, <2>9, <2>11, <2>12 DEF Filed
      <2>14. InsertedAlert(h, a, inc, alert)  BY <1>3, <2>9, <2>11, <2>12, <2>13 DEF InsertedAlert
      <2>15. AlertPart(h, inc, alert)  BY <1>3, <2>9, <2>11, <2>14 DEF AlertPart
      <2>16. \A g \in handlers : Inserted(f) \cap Inserted(g.incs) = {} /\ Inserted(d) \cap Inserted(g.alerts) = {}
            BY <1>3, <2>8, <2>9 DEF Inserted
      <2> QED  BY <2>8, <2>10, <2>15, <2>16, Deciding DEF h
<1> QED  BY <1>7, <1>8, <1>9, <1>10

-----------------------------------------------------------------------------
(* Commits.                                                                *)

EditsPart(f, I, t) ==
    /\ DOMAIN f \subseteq Incidents
    /\ \A i \in DOMAIN f :
          \/ Insertion(f[i], t) /\ I[i] = None
          \/ Edit(f[i], t) /\ Based(f[i], I[i])

\* A table after some edits, row by row.
LEMMA AfterRow ==
    ASSUME NEW I \in [Incidents -> IncidentRow \cup {None}], NEW t \in Nat, NEW f, EditsPart(f, I, t),
           \A j \in Incidents : I[j] # None => Timed(I[j], t) /\ Levelled(I[j]),
           NEW i \in Incidents
    PROVE  LET m == After(I, f)[i] IN
           /\ i \notin DOMAIN f => m = I[i]
           /\ i \in Inserted(f) => m = f[i].new /\ I[i] = None /\ Insertion(f[i], t) /\ m \in IncidentRow
           /\ I[i] = None /\ i \notin Inserted(f) => m = None
           /\ m # None => m \in IncidentRow /\ Timed(m, t) /\ Levelled(m)
           /\ I[i] # None =>
                 /\ i \notin Inserted(f) /\ m \in IncidentRow
                 /\ m.key = I[i].key /\ m.created = I[i].created /\ m.scope = I[i].scope
                 /\ \A k \in Kinds : I[i].breach[k] # 0 => m.breach[k] # 0
                 /\ i \in DOMAIN f =>
                       /\ Edit(f[i], t) /\ Based(f[i], I[i])
                       /\ \A k \in Kinds : f[i].new.breach[k] # 0 => m.breach[k] # 0
                       /\ Clocks(f[i].new) = Clocks(f[i].seen) => Clocks(m) = Clocks(I[i])
                       /\ Clocks(I[i]) = Clocks(f[i].seen) => Clocks(m) = Clocks(f[i].new)
<1> DEFINE m == After(I, f)[i]
<1>1. m = IF i \notin DOMAIN f THEN I[i]
          ELSE IF f[i].seen = None THEN f[i].new
          ELSE Merged(I[i], f[i].seen, f[i].new)
      BY DEF After
<1> HIDE DEF m
<1>2. CASE i \notin DOMAIN f
      BY <1>1, <1>2, RowParts DEF Inserted, m
<1>3. CASE i \in DOMAIN f /\ Insertion(f[i], t) /\ I[i] = None
      <2>1. f[i].seen = None /\ i \in Inserted(f)  BY <1>3 DEF Insertion, Inserted
      <2> QED  BY <1>1, <1>3, <2>1 DEF Insertion, m
<1>4. CASE i \in DOMAIN f /\ Edit(f[i], t) /\ Based(f[i], I[i])
      <2>1. /\ f[i].seen \in IncidentRow /\ f[i].new \in IncidentRow /\ I[i] \in IncidentRow
            /\ Timed(f[i].new, t) /\ Levelled(f[i].new) /\ Derived(f[i].seen, f[i].new)
            BY <1>4 DEF Edit, Based
      <2>2. f[i].seen # None /\ I[i] # None  BY <2>1, Nones
      <2>3. Timed(I[i], t) /\ Levelled(I[i])  BY <2>2
      <2>4. \A k \in Kinds : f[i].seen.breach[k] # 0 => I[i].breach[k] # 0  BY <1>4 DEF Based
      <2>5. m = Merged(I[i], f[i].seen, f[i].new)  BY <1>1, <1>4, <2>2
      <2>6. /\ m \in IncidentRow /\ Timed(m, t) /\ Levelled(m)
            /\ m.key = I[i].key /\ m.created = I[i].created /\ m.scope = I[i].scope
            /\ \A k \in Kinds : I[i].breach[k] # 0 => m.breach[k] # 0
            /\ \A k \in Kinds : f[i].new.breach[k] # 0 => m.breach[k] # 0
            /\ Clocks(f[i].new) = Clocks(f[i].seen) => Clocks(m) = Clocks(I[i])
            /\ Clocks(I[i]) = Clocks(f[i].seen) => Clocks(m) = Clocks(f[i].new)
            BY <2>1, <2>3, <2>4, <2>5, Merging
      <2>7. i \notin Inserted(f)  BY <2>2 DEF Inserted
      <2> QED  BY <1>4, <2>2, <2>6, <2>7 DEF m
<1> QED  BY <1>2, <1>3, <1>4 DEF EditsPart

LEMMA AfterIsTable == ASSUME NEW I, NEW f PROVE DOMAIN After(I, f) = DOMAIN I /\ After(I, f) = [x \in DOMAIN I |-> After(I, f)[x]]
BY DEF After

\* What edits make of the incidents.
LEMMA AfterIncidents ==
    ASSUME NEW I \in [Incidents -> IncidentRow \cup {None}], NEW t \in Nat, NEW f, EditsPart(f, I, t),
           \A j \in Incidents : I[j] # None => Timed(I[j], t) /\ Levelled(I[j])
    PROVE  LET J == After(I, f) IN
           /\ J \in [Incidents -> IncidentRow \cup {None}]
           /\ \A j \in Incidents : J[j] # None => Timed(J[j], t) /\ Levelled(J[j])
           /\ Grown(I, J)
           /\ \A j \in Incidents : J[j] # None <=> I[j] # None \/ j \in Inserted(f)
<1> DEFINE J == After(I, f)
<1>1. DOMAIN J = Incidents /\ J = [x \in Incidents |-> J[x]]  BY AfterIsTable
<1>2. \A i \in Incidents :
           /\ i \in Inserted(f) => J[i] \in IncidentRow
           /\ I[i] = None /\ i \notin Inserted(f) => J[i] = None
           /\ J[i] # None => J[i] \in IncidentRow /\ Timed(J[i], t) /\ Levelled(J[i])
           /\ I[i] # None =>
                 /\ i \notin Inserted(f) /\ J[i] \in IncidentRow
                 /\ J[i].key = I[i].key /\ J[i].created = I[i].created /\ J[i].scope = I[i].scope
                 /\ \A k \in Kinds : I[i].breach[k] # 0 => J[i].breach[k] # 0
      BY AfterRow
<1> HIDE DEF J
<1>3. J \in [Incidents -> IncidentRow \cup {None}]  BY <1>1, <1>2
<1>4. Grown(I, J)  BY <1>2 DEF Grown
<1>5. \A j \in Incidents : J[j] # None <=> I[j] # None \/ j \in Inserted(f)  BY <1>2, Nones
<1> QED  BY <1>2, <1>3, <1>4, <1>5 DEF J

LEMMA MergedAlert ==
    ASSUME NEW now \in AlertRow, NEW seen \in AlertRow, NEW new \in AlertRow,
           new.key = seen.key, new.scope = seen.scope, new.raised = seen.raised
    PROVE  LET m == Merged(now, seen, new) IN
           /\ m \in AlertRow /\ m.key = now.key /\ m.scope = now.scope /\ m.raised = now.raised
           /\ m.incident = IF new.incident # seen.incident THEN new.incident ELSE now.incident
<1> DEFINE m == Merged(now, seen, new)
<1>1. m \in AlertRow  BY DEF Merged, AlertRow
<1>2. /\ m.key = IF new.key # seen.key THEN new.key ELSE now.key
      /\ m.scope = IF new.scope # seen.scope THEN new.scope ELSE now.scope
      /\ m.raised = IF new.raised # seen.raised THEN new.raised ELSE now.raised
      /\ m.incident = IF new.incident # seen.incident THEN new.incident ELSE now.incident
      BY DEF Merged, AlertRow
<1> QED  BY <1>1, <1>2

LEMMA AfterAlert ==
    ASSUME NEW A \in [Alerts -> AlertRow \cup {None}], NEW I, NEW h, AlertPart(h, I, A), NEW a \in Alerts
    PROVE  LET m == After(A, h.alerts)[a]
               x == h.alerts[a] IN
           /\ a \notin DOMAIN h.alerts => m = A[a]
           /\ a \in Inserted(h.alerts) => m = x.new /\ A[a] = None /\ InsertedAlert(h, a, I, A) /\ m \in AlertRow
           /\ A[a] = None /\ a \notin Inserted(h.alerts) => m = None
           /\ m # None => m \in AlertRow
           /\ A[a] # None =>
                 /\ a \notin Inserted(h.alerts) /\ m \in AlertRow
                 /\ m.key = A[a].key /\ m.scope = A[a].scope /\ m.raised = A[a].raised
                 /\ a \in DOMAIN h.alerts =>
                       /\ EditedAlert(h, a, I, A)
                       /\ m.incident = IF x.new.incident # x.seen.incident THEN x.new.incident ELSE A[a].incident
<1> DEFINE m == After(A, h.alerts)[a]
           x == h.alerts[a]
<1>1. m = IF a \notin DOMAIN h.alerts THEN A[a]
          ELSE IF x.seen = None THEN x.new
          ELSE Merged(A[a], x.seen, x.new)
      BY DEF After
<1> HIDE DEF m
<1>2. CASE a \notin DOMAIN h.alerts
      BY <1>1, <1>2 DEF Inserted, m
<1>3. CASE a \in DOMAIN h.alerts /\ InsertedAlert(h, a, I, A)
      <2>1. x.seen = None /\ x.new \in AlertRow /\ A[a] = None /\ a \in Inserted(h.alerts)
            BY <1>3 DEF InsertedAlert, Inserted
      <2> QED  BY <1>1, <1>3, <2>1 DEF m
<1>4. CASE a \in DOMAIN h.alerts /\ EditedAlert(h, a, I, A)
      <2>1. /\ x.seen \in AlertRow /\ x.new \in AlertRow /\ A[a] # None
            /\ x.new.key = x.seen.key /\ x.new.scope = x.seen.scope /\ x.new.raised = x.seen.raised
            BY <1>4 DEF EditedAlert
      <2>2. A[a] \in AlertRow /\ x.seen # None  BY <2>1, Nones
      <2>3. m = Merged(A[a], x.seen, x.new)  BY <1>1, <1>4, <2>2
      <2> HIDE DEF x
      <2>4. /\ m \in AlertRow /\ m.key = A[a].key /\ m.scope = A[a].scope /\ m.raised = A[a].raised
            /\ m.incident = IF x.new.incident # x.seen.incident THEN x.new.incident ELSE A[a].incident
            BY <2>1, <2>2, <2>3, MergedAlert
      <2>5. a \notin Inserted(h.alerts)  BY <2>2 DEF Inserted, x
      <2> QED  BY <1>4, <2>1, <2>4, <2>5 DEF m, x
<1> QED  BY <1>2, <1>3, <1>4 DEF AlertPart

LEMMA AfterAlerts ==
    ASSUME NEW A \in [Alerts -> AlertRow \cup {None}], NEW I, NEW h, AlertPart(h, I, A)
    PROVE  LET B == After(A, h.alerts) IN
           /\ B \in [Alerts -> AlertRow \cup {None}] /\ GrownAlerts(A, B)
           /\ \A a \in Alerts : B[a] # None <=> A[a] # None \/ a \in Inserted(h.alerts)
<1> DEFINE B == After(A, h.alerts)
<1>1. DOMAIN B = Alerts /\ B = [x \in Alerts |-> B[x]]  BY AfterIsTable
<1>2. \A a \in Alerts :
           /\ a \in Inserted(h.alerts) => B[a] \in AlertRow
           /\ A[a] = None /\ a \notin Inserted(h.alerts) => B[a] = None
           /\ B[a] # None => B[a] \in AlertRow
           /\ A[a] # None => B[a] \in AlertRow /\ B[a].scope = A[a].scope
      BY AfterAlert
<1> HIDE DEF B
<1>3. B \in [Alerts -> AlertRow \cup {None}]  BY <1>1, <1>2
<1>4. GrownAlerts(A, B)  BY <1>2, Nones DEF GrownAlerts
<1>5. \A a \in Alerts : B[a] # None <=> A[a] # None \/ a \in Inserted(h.alerts)  BY <1>2, Nones
<1> QED  BY <1>3, <1>4, <1>5 DEF B

-----------------------------------------------------------------------------
(* The type invariant.                                                     *)

Commits(h) ==
    /\ h \in handlers
    /\ inc' = After(inc, h.incs) /\ alert' = After(alert, h.alerts) /\ links' = links \cup h.link
    /\ handlers' = handlers \ {h}
    /\ clash' = clash \cup Clashing(h.incs) /\ restamped' = restamped \cup Restamped(h.incs)
    /\ doubled' = doubled \cup Doubles(h)
    /\ reopened' = (reopened \/ \E a \in DOMAIN h.alerts \ Inserted(h.alerts) :
                                   alert[a].status = "done" /\ alert'[a].status = "open")
    /\ UNCHANGED <<mode, clock, election, sweep, started, told, leaked, lapsed>>

LEMMA Committing == Commit => \E h : Commits(h)
BY DEF Commit, Commits

LEMMA SweepKept ==
    ASSUME NEW f, NEW I, NEW J, NEW t \in Nat, NEW u \in Nat, t <= u, SweepPart(f, I, t), Grown(I, J)
    PROVE  SweepPart(f, J, u)
<1> SUFFICES ASSUME NEW i \in DOMAIN f
             PROVE  Edit(f[i], u) /\ Based(f[i], J[i])
    BY DEF SweepPart
<1>1. i \in Incidents /\ Edit(f[i], t) /\ Based(f[i], I[i])  BY DEF SweepPart
<1>2. I[i] # None  BY <1>1, Nones DEF Based
<1>3. Edit(f[i], u)  BY <1>1, TimedLater DEF Edit
<1> QED  BY <1>1, <1>2, <1>3 DEF Based, Grown

LEMMA SweepsKept ==
    ASSUME SweepsInv, sweep' = sweep, clock \in Nat, clock' \in Nat, clock <= clock', Grown(inc, inc')
    PROVE  SweepsInv'
BY SweepKept DEF SweepsInv

LEMMA GrownSelf ==
    ASSUME NEW I \in [Incidents -> IncidentRow \cup {None}], NEW A \in [Alerts -> AlertRow \cup {None}]
    PROVE  Grown(I, I) /\ GrownAlerts(A, A)
BY DEF Grown, GrownAlerts

\* A link a handler adds is that of its alert.
LEMMA LinkOf ==
    ASSUME NEW h, NEW I, NEW A, AlertPart(h, I, A), NEW l \in h.link
    PROVE  \E a \in DOMAIN h.alerts : a \in Alerts /\ l = <<h.alerts[a].new.incident, a>> /\ Filed(h, a, I)
<1>1. PICK a \in DOMAIN h.alerts : InsertedAlert(h, a, I, A) \/ EditedAlert(h, a, I, A)
      BY DEF AlertPart
<1>2. Filed(h, a, I)  BY <1>1 DEF InsertedAlert, EditedAlert
<1>3. l = <<h.alerts[a].new.incident, a>>  BY <1>2 DEF Filed
<1> QED  BY <1>2, <1>3 DEF AlertPart

LEMMA CommitGrows ==
    ASSUME TypeInv, NEW h, Commits(h)
    PROVE  /\ Grown(inc, inc') /\ GrownAlerts(alert, alert')
           /\ inc' \in [Incidents -> IncidentRow \cup {None}]
           /\ alert' \in [Alerts -> AlertRow \cup {None}]
           /\ \A i \in Incidents : inc'[i] # None <=> inc[i] # None \/ i \in Inserted(h.incs)
           /\ \A a \in Alerts : alert'[a] # None <=> alert[a] # None \/ a \in Inserted(h.alerts)
           /\ \A i \in Incidents : inc'[i] # None => Timed(inc'[i], clock) /\ Levelled(inc'[i])
           /\ EditsPart(h.incs, inc, clock) /\ AlertPart(h, inc, alert) /\ IncidentPart(h.incs, inc, clock)
<1>1. Handler(h, inc, alert, clock)  BY DEF TypeInv, HandlersInv, Commits
<1>2. EditsPart(h.incs, inc, clock) /\ AlertPart(h, inc, alert) /\ IncidentPart(h.incs, inc, clock)
      BY <1>1 DEF Handler, IncidentPart, EditsPart
<1>3. /\ inc \in [Incidents -> IncidentRow \cup {None}] /\ alert \in [Alerts -> AlertRow \cup {None}]
      /\ \A j \in Incidents : inc[j] # None => Timed(inc[j], clock) /\ Levelled(inc[j])
      /\ clock \in Nat
      BY DEF TypeInv, RowsInv, Born
<1>4. inc' = After(inc, h.incs) /\ alert' = After(alert, h.alerts)  BY DEF Commits
<1>5. LET J == After(inc, h.incs) IN
           /\ J \in [Incidents -> IncidentRow \cup {None}]
           /\ \A j \in Incidents : J[j] # None => Timed(J[j], clock) /\ Levelled(J[j])
           /\ Grown(inc, J)
           /\ \A j \in Incidents : J[j] # None <=> inc[j] # None \/ j \in Inserted(h.incs)
      BY <1>2, <1>3, AfterIncidents
<1>6. LET B == After(alert, h.alerts) IN
           /\ B \in [Alerts -> AlertRow \cup {None}] /\ GrownAlerts(alert, B)
           /\ \A a \in Alerts : B[a] # None <=> alert[a] # None \/ a \in Inserted(h.alerts)
      BY <1>2, <1>3, AfterAlerts
<1> QED  BY <1>2, <1>4, <1>5, <1>6

LEMMA FiledAfter ==
    ASSUME TypeInv, NEW h, Commits(h), NEW a \in DOMAIN h.alerts, Filed(h, a, inc)
    PROVE  LET i == h.alerts[a].new.incident IN
           i \in Incidents /\ inc'[i] # None /\ inc'[i].scope = h.alerts[a].new.scope
<1> DEFINE i == h.alerts[a].new.incident
<1>1. i \in Incidents /\ \/ inc[i] # None /\ inc[i].scope = h.alerts[a].new.scope
                         \/ i \in Inserted(h.incs) /\ h.incs[i].new.scope = h.alerts[a].new.scope
      BY DEF Filed
<1> HIDE DEF i
<1>2. /\ Grown(inc, inc') /\ EditsPart(h.incs, inc, clock)
      /\ \A j \in Incidents : inc'[j] # None <=> inc[j] # None \/ j \in Inserted(h.incs)
      BY CommitGrows
<1>3. CASE inc[i] # None /\ inc[i].scope = h.alerts[a].new.scope
      BY <1>1, <1>2, <1>3 DEF Grown, i
<1>4. CASE i \in Inserted(h.incs) /\ h.incs[i].new.scope = h.alerts[a].new.scope
      <2>1. inc' = After(inc, h.incs)  BY DEF Commits
      <2>2. /\ inc \in [Incidents -> IncidentRow \cup {None}] /\ clock \in Nat
            /\ \A j \in Incidents : inc[j] # None => Timed(inc[j], clock) /\ Levelled(inc[j])
            BY DEF TypeInv, RowsInv, Born
      <2>3. After(inc, h.incs)[i] = h.incs[i].new  BY <1>1, <1>2, <1>4, <2>2, AfterRow
      <2> QED  BY <1>1, <1>2, <1>4, <2>1, <2>3 DEF i
<1> QED  BY <1>1, <1>3, <1>4

LEMMA CommitTypes ==
    ASSUME TypeInv, NEW h, Commits(h)
    PROVE  TypeInv'
<1> USE DEF TypeInv
<1>1. /\ Grown(inc, inc') /\ GrownAlerts(alert, alert')
      /\ inc' \in [Incidents -> IncidentRow \cup {None}]
      /\ alert' \in [Alerts -> AlertRow \cup {None}]
      /\ \A i \in Incidents : inc'[i] # None <=> inc[i] # None \/ i \in Inserted(h.incs)
      /\ \A a \in Alerts : alert'[a] # None <=> alert[a] # None \/ a \in Inserted(h.alerts)
      /\ \A i \in Incidents : inc'[i] # None => Timed(inc'[i], clock) /\ Levelled(inc'[i])
      /\ EditsPart(h.incs, inc, clock) /\ AlertPart(h, inc, alert) /\ IncidentPart(h.incs, inc, clock)
      BY CommitGrows
<1>2. clock' = clock /\ clock \in Nat  BY DEF Commits
<1>3. RowsInv'
      <2>1. \A i \in Born' : Timed(inc'[i], clock') /\ Levelled(inc'[i])  BY <1>1, <1>2 DEF Born
      <2>2. ASSUME NEW a \in Raised' PROVE alert'[a].incident \in Born' \cup {None}
            <3>1. a \in Alerts /\ alert'[a] # None  BY <2>2 DEF Raised
            <3>2. alert' = After(alert, h.alerts) /\ alert \in [Alerts -> AlertRow \cup {None}]
                  BY DEF Commits, RowsInv
            <3>3. LET m == After(alert, h.alerts)[a]
                      x == h.alerts[a] IN
                  /\ a \notin DOMAIN h.alerts => m = alert[a]
                  /\ a \in Inserted(h.alerts) => m = x.new /\ InsertedAlert(h, a, inc, alert)
                  /\ alert[a] = None /\ a \notin Inserted(h.alerts) => m = None
                  /\ alert[a] # None /\ a \in DOMAIN h.alerts =>
                        /\ EditedAlert(h, a, inc, alert)
                        /\ m.incident = IF x.new.incident # x.seen.incident THEN x.new.incident ELSE alert[a].incident
                  BY <1>1, <3>1, <3>2, AfterAlert
            <3>4. ASSUME alert[a] # None PROVE alert[a].incident \in Born' \cup {None}
                  <4>1. alert[a].incident \in Born \cup {None}  BY <3>1, <3>4 DEF RowsInv, Raised
                  <4> QED  BY <1>1, <4>1 DEF Born
            <3>5. ASSUME a \in DOMAIN h.alerts, Filed(h, a, inc) PROVE h.alerts[a].new.incident \in Born'
                  BY <3>5, FiledAfter DEF Born
            <3>6. CASE a \in Inserted(h.alerts)
                  <4>1. a \in DOMAIN h.alerts  BY <3>6 DEF Inserted
                  <4> QED  BY <3>2, <3>3, <3>5, <3>6, <4>1 DEF InsertedAlert
            <3>7. CASE a \notin DOMAIN h.alerts
                  <4>1. alert'[a] = alert[a]  BY <3>2, <3>3, <3>7
                  <4> QED  BY <3>1, <3>4, <4>1
            <3>8. CASE a \in DOMAIN h.alerts /\ alert[a] # None
                  <4> DEFINE x == h.alerts[a]
                  <4>1. EditedAlert(h, a, inc, alert)  BY <3>3, <3>8
                  <4>2. alert'[a].incident = IF x.new.incident # x.seen.incident THEN x.new.incident ELSE alert[a].incident
                        BY <3>2, <3>3, <3>8
                  <4>3. x.new.incident = x.seen.incident \/ Filed(h, a, inc)  BY <4>1 DEF EditedAlert
                  <4> QED  BY <3>4, <3>5, <3>8, <4>2, <4>3
            <3> QED  BY <1>1, <3>1, <3>6, <3>7, <3>8
      <2>3. ASSUME NEW l \in links' PROVE l \in Born' \X Raised'
            <3>1. CASE l \in links
                  <4>1. l \in Born \X Raised  BY <3>1 DEF RowsInv
                  <4>2. Born \subseteq Born' /\ Raised \subseteq Raised'  BY <1>1 DEF Born, Raised
                  <4> QED  BY <4>1, <4>2
            <3>2. CASE l \in h.link
                  <4>1. PICK a \in DOMAIN h.alerts : a \in Alerts /\ l = <<h.alerts[a].new.incident, a>> /\ Filed(h, a, inc)
                        BY <1>1, <3>2, LinkOf
                  <4>2. h.alerts[a].new.incident \in Born'  BY <4>1, FiledAfter DEF Born
                  <4>3. InsertedAlert(h, a, inc, alert) \/ EditedAlert(h, a, inc, alert)  BY <1>1 DEF AlertPart
                  <4>4. a \in Inserted(h.alerts) \/ alert[a] # None
                        BY <4>3 DEF InsertedAlert, EditedAlert, Inserted
                  <4>5. a \in Raised'  BY <1>1, <4>1, <4>4 DEF Raised
                  <4> QED  BY <4>1, <4>2, <4>5
            <3> QED  BY <3>1, <3>2 DEF Commits
      <2> QED  BY <1>1, <2>1, <2>2, <2>3 DEF RowsInv
<1>4. HandlersInv'
      <2>1. handlers' = handlers \ {h} /\ h \in handlers  BY DEF Commits
      <2>2. ASSUME NEW g \in handlers' PROVE Handler(g, inc', alert', clock')
            <3>1. g \in handlers /\ g # h /\ Handler(g, inc, alert, clock) /\ Apart(g, h)
                  BY <2>1 DEF HandlersInv
            <3>2. ASSUME NEW i \in Inserted(g.incs) PROVE inc'[i] = None
                  <4>1. i \in DOMAIN g.incs /\ g.incs[i].seen = None  BY DEF Inserted
                  <4>2. i \in Incidents /\ inc[i] = None
                        BY <3>1, <4>1, Nones DEF Handler, IncidentPart, Edit
                  <4>3. i \notin Inserted(h.incs)  BY <3>1, <3>2 DEF Apart
                  <4> QED  BY <1>1, <4>2, <4>3
            <3>3. ASSUME NEW a \in Inserted(g.alerts) PROVE alert'[a] = None
                  <4>1. a \in DOMAIN g.alerts /\ g.alerts[a].seen = None  BY DEF Inserted
                  <4>2. a \in Alerts /\ alert[a] = None
                        BY <3>1, <4>1, Nones DEF Handler, AlertPart, InsertedAlert, EditedAlert
                  <4>3. a \notin Inserted(h.alerts)  BY <3>1, <3>3 DEF Apart
                  <4> QED  BY <1>1, <4>2, <4>3
            <3> QED  BY <1>1, <1>2, <3>1, <3>2, <3>3, HandlerKept
      <2> QED  BY <2>1, <2>2 DEF HandlersInv
<1>5. SweepsInv'
      <2>1. sweep' = sweep  BY DEF Commits
      <2> QED  BY <1>1, <1>2, <2>1, SweepsKept
<1>6. ElectionInv' /\ mode' \in Modes /\ DOMAIN told' = Incidents \X Kinds /\ clock' \in Nat \ {0}
      BY DEF Commits, ElectionInv, election
<1> QED  BY <1>3, <1>4, <1>5, <1>6

LEMMA BeginTypes ==
    ASSUME TypeInv, NEW h, Begins(h)
    PROVE  TypeInv'
<1>1. /\ inc' = inc /\ alert' = alert /\ links' = links /\ clock' = clock /\ mode' = mode /\ sweep' = sweep
      /\ holder' = holder /\ conn' = conn /\ leader' = leader /\ told' = told /\ handlers' = handlers \cup {h}
      BY DEF Begins, rows, election
<1>2. HandlersInv'
      <2>1. \A g \in handlers : Apart(h, g) /\ Apart(g, h)  BY DEF Begins, Apart
      <2>2. Handler(h, inc, alert, clock)  BY DEF Begins
      <2> QED  BY <1>1, <2>1, <2>2 DEF TypeInv, HandlersInv
<1>3. RowsInv'  BY <1>1 DEF TypeInv, RowsInv, Born, Raised
<1>4. SweepsInv' /\ ElectionInv'  BY <1>1 DEF TypeInv, SweepsInv, ElectionInv
<1> QED  BY <1>1, <1>2, <1>3, <1>4 DEF TypeInv

\* Steps that change neither rows nor what hangs on them.
LEMMA QuietTypes ==
    ASSUME TypeInv, UNCHANGED rows, handlers' \subseteq handlers,
           clock' \in Nat, clock <= clock', mode' \in Modes, DOMAIN told' = DOMAIN told,
           SweepsInv', ElectionInv'
    PROVE  TypeInv'
<1>1. inc' = inc /\ alert' = alert /\ links' = links  BY DEF rows
<1>2. /\ inc \in [Incidents -> IncidentRow \cup {None}] /\ alert \in [Alerts -> AlertRow \cup {None}]
      /\ clock \in Nat \ {0}
      BY DEF TypeInv, RowsInv
<1>3. RowsInv'
      <2>1. ASSUME NEW i \in Born PROVE Timed(inc[i], clock') /\ Levelled(inc[i])
            <3>1. inc[i] \in IncidentRow /\ Timed(inc[i], clock) /\ Levelled(inc[i])  BY BornRow DEF TypeInv, RowsInv
            <3> QED  BY <1>2, <3>1, TimedLater
      <2>2. Born' = Born /\ Raised' = Raised  BY <1>1 DEF Born, Raised
      <2> QED  BY <1>1, <2>1, <2>2 DEF TypeInv, RowsInv
<1>4. HandlersInv'
      <2>1. ASSUME NEW g \in handlers' PROVE Handler(g, inc', alert', clock')
            <3>1. g \in handlers /\ Handler(g, inc, alert, clock)  BY DEF TypeInv, HandlersInv
            <3>2. Grown(inc, inc) /\ GrownAlerts(alert, alert)  BY <1>2, GrownSelf
            <3>3. \A i \in Inserted(g.incs) : inc[i] = None
                  BY <3>1, Nones DEF Handler, IncidentPart, Edit, Inserted
            <3>4. \A a \in Inserted(g.alerts) : alert[a] = None
                  BY <3>1, Nones DEF Handler, AlertPart, InsertedAlert, EditedAlert, Inserted
            <3> QED  BY <1>1, <1>2, <3>1, <3>2, <3>3, <3>4, HandlerKept
      <2> QED  BY <2>1 DEF TypeInv, HandlersInv
<1>5. clock' \in Nat \ {0}  BY <1>2
<1> QED  BY <1>3, <1>4, <1>5 DEF TypeInv

\* The row a sweep leaves.
LEMMA SweptRow ==
    ASSUME NEW row \in IncidentRow, clock \in Nat, Timed(row, clock), Levelled(row),
           \E k \in Kinds : Overdue(row, k)
    PROVE  /\ Edit([seen |-> row, new |-> Swept(row)], clock)
           /\ Swept(row).due = row.due
           /\ \A k \in Kinds : Overdue(row, k) => Swept(row).breach[k] = clock
<1> DEFINE b == [k \in Kinds |-> IF Overdue(row, k) THEN clock ELSE row.breach[k]]
           n == row.level + 1
           new == [row EXCEPT !.breach = b, !.level = n]
<1>1. row.breach \in [Kinds -> Nat] /\ row.due \in [Kinds -> Nat] /\ row.level \in Nat  BY RowParts
<1>2. b \in [Kinds -> Nat] /\ n \in Nat  BY <1>1
<1>3. \A k \in Kinds : b[k] = IF Overdue(row, k) THEN clock ELSE row.breach[k]  OBVIOUS
<1>4. Swept(row) = new  BY DEF Swept
<1> HIDE DEF b
<1>5. /\ new \in IncidentRow
      /\ new.key = row.key /\ new.sev = row.sev /\ new.status = row.status /\ new.created = row.created
      /\ new.done = row.done /\ new.due = row.due /\ new.scope = row.scope
      /\ new.breach = b /\ new.level = n
      BY <1>2 DEF IncidentRow
<1> HIDE DEF new
<1>6. \A k \in Kinds : Overdue(row, k) => row.breach[k] = 0 /\ row.due[k] < clock /\ clock # 0
      BY <1>1 DEF Overdue
<1>7. Timed(new, clock)  BY <1>3, <1>5 DEF Timed
<1>8. Levelled(new)
      <2>1. PICK k \in Kinds : Overdue(row, k)  OBVIOUS
      <2>2. row.breach[k] = 0 /\ b[k] # 0 /\ \A j \in Kinds : row.breach[j] # 0 => b[j] # 0
            BY <1>3, <1>6, <2>1
      <2>3. k \in {"ack", "resolve"}  BY DEF Kinds
      <2>4. "ack" \in Kinds /\ "resolve" \in Kinds  BY DEF Kinds
      <2> QED  BY <1>1, <1>5, <2>2, <2>3, <2>4 DEF Levelled
<1>9. \A k \in Kinds : row.breach[k] # 0 => new.breach[k] = row.breach[k]  BY <1>3, <1>5, <1>6
<1>10. Fits(row) => Fits(new)  BY <1>5 DEF Fits, Closed
<1>11. ASSUME Fits(row), Grounded(row) PROVE Grounded(new)
      <2> SUFFICES ASSUME NEW k \in Kinds, b[k] # 0
                   PROVE  row.due[k] < b[k] /\ (row.done[k] # 0 => row.due[k] < row.done[k])
          BY <1>5 DEF Grounded
      <2>1. CASE Overdue(row, k)
            <3>1. row.done[k] = 0  BY <1>11, <2>1 DEF Overdue, Fits, Kinds
            <3> QED  BY <1>3, <1>6, <2>1, <3>1
      <2>2. CASE ~Overdue(row, k)
            BY <1>3, <1>11, <2>2 DEF Grounded
      <2> QED  BY <2>1, <2>2
<1>12. Derived(row, new)  BY <1>5, <1>9, <1>10, <1>11 DEF Derived
<1>13. Edit([seen |-> row, new |-> new], clock)  BY <1>5, <1>7, <1>8, <1>12 DEF Edit
<1> QED  BY <1>3, <1>4, <1>5, <1>13

\* What a sweep has in hand when it starts.
LEMMA SweepBegun ==
    ASSUME TypeInv, NEW p \in Replicas, BeginSweep(p)
    PROVE  /\ SweepPart(sweep'[p], inc, clock) /\ sweep'[p] # None
           /\ DOMAIN sweep' = Replicas /\ \A q \in Replicas \ {p} : sweep'[q] = sweep[q]
           /\ \A i \in Born, k \in Kinds : Overdue(inc[i], k) =>
                 /\ i \in DOMAIN sweep'[p] /\ sweep'[p][i].seen.breach[k] = 0 /\ sweep'[p][i].new.breach[k] # 0
<1> DEFINE S == {t[1] : t \in Targets}
           f == [i \in S |-> [seen |-> inc[i], new |-> Swept(inc[i])]]
<1>1. sweep' = [sweep EXCEPT ![p] = f] /\ DOMAIN sweep = Replicas  BY DEF BeginSweep, TypeInv, SweepsInv
<1>2. ASSUME NEW i \in S
      PROVE  /\ i \in Born /\ i \in Incidents /\ inc[i] \in IncidentRow /\ inc[i] # None
             /\ Timed(inc[i], clock) /\ Levelled(inc[i]) /\ \E k \in Kinds : Overdue(inc[i], k)
      <2>1. PICK t \in Targets : i = t[1]  OBVIOUS
      <2>2. i \in Born /\ \E k \in Kinds : Overdue(inc[i], k)  BY <2>1 DEF Targets
      <2> QED  BY <2>2, BornRow DEF TypeInv, RowsInv
<1>3. ASSUME NEW i \in Born, NEW k \in Kinds, Overdue(inc[i], k) PROVE i \in S
      <2>1. <<i, k>> \in Targets  BY <1>3 DEF Targets
      <2> QED  BY <2>1
<1> HIDE DEF S
<1>4. DOMAIN f = S /\ \A i \in S : f[i] = [seen |-> inc[i], new |-> Swept(inc[i])]  OBVIOUS
<1>5. clock \in Nat \ {0}  BY DEF TypeInv
<1>6. ASSUME NEW i \in S
      PROVE  /\ Edit(f[i], clock) /\ Based(f[i], inc[i]) /\ f[i].new.due = f[i].seen.due /\ f[i].seen = inc[i]
             /\ \A k \in Kinds : Overdue(inc[i], k) => f[i].new.breach[k] = clock
      <2>1. /\ Edit([seen |-> inc[i], new |-> Swept(inc[i])], clock)
            /\ Swept(inc[i]).due = inc[i].due
            /\ \A k \in Kinds : Overdue(inc[i], k) => Swept(inc[i]).breach[k] = clock
            BY <1>2, <1>5, SweptRow
      <2>2. f[i].seen = inc[i] /\ f[i].new = Swept(inc[i]) /\ Edit(f[i], clock)  BY <1>4, <2>1
      <2>3. Based(f[i], inc[i])  BY <1>2, <2>2 DEF Based
      <2> QED  BY <2>1, <2>2, <2>3
<1>7. f \in [S -> [seen : IncidentRow, new : IncidentRow]]
      <2>1. \A i \in S : inc[i] \in IncidentRow /\ Swept(inc[i]) \in IncidentRow
            BY <1>2, <1>4, <1>6 DEF Edit
      <2> QED  BY <2>1
<1>8. S \subseteq Incidents  BY <1>2
<1> HIDE DEF f
<1>9. f # None  BY <1>7, <1>8, OperationsAssumption DEF OperationsAssumption
<1>10. SweepPart(f, inc, clock)  BY <1>4, <1>6, <1>8 DEF SweepPart
<1>11. sweep'[p] = f /\ DOMAIN sweep' = Replicas /\ \A q \in Replicas \ {p} : sweep'[q] = sweep[q]  BY <1>1
<1>12. ASSUME NEW i \in Born, NEW k \in Kinds, Overdue(inc[i], k)
       PROVE  i \in DOMAIN f /\ f[i].seen.breach[k] = 0 /\ f[i].new.breach[k] # 0
      <2>1. i \in S  BY <1>3, <1>12
      <2>2. inc[i].breach[k] = 0  BY <1>12 DEF Overdue
      <2> QED  BY <1>4, <1>5, <1>6, <1>12, <2>1, <2>2
<1> QED  BY <1>9, <1>10, <1>11, <1>12

LEMMA SweepRows ==
    ASSUME TypeInv, NEW p \in Replicas, EndSweep(p)
    PROVE  /\ EditsPart(sweep[p], inc, clock) /\ SweepPart(sweep[p], inc, clock) /\ Grown(inc, inc')
           /\ inc' = After(inc, sweep[p]) /\ Inserted(sweep[p]) = {}
           /\ inc' \in [Incidents -> IncidentRow \cup {None}]
           /\ \A i \in Incidents : inc'[i] # None <=> inc[i] # None
           /\ \A i \in Incidents : inc'[i] # None => Timed(inc'[i], clock) /\ Levelled(inc'[i])
<1>1. SweepPart(sweep[p], inc, clock)  BY DEF TypeInv, SweepsInv, EndSweep
<1>2. EditsPart(sweep[p], inc, clock)  BY <1>1 DEF SweepPart, EditsPart
<1>3. Inserted(sweep[p]) = {}  BY <1>1, Nones DEF Inserted, SweepPart, Edit
<1>4. /\ inc \in [Incidents -> IncidentRow \cup {None}]
      /\ \A j \in Incidents : inc[j] # None => Timed(inc[j], clock) /\ Levelled(inc[j])
      /\ clock \in Nat
      BY DEF TypeInv, RowsInv, Born
<1>5. inc' = After(inc, sweep[p])  BY DEF EndSweep
<1>6. LET J == After(inc, sweep[p]) IN
           /\ J \in [Incidents -> IncidentRow \cup {None}]
           /\ \A j \in Incidents : J[j] # None => Timed(J[j], clock) /\ Levelled(J[j])
           /\ Grown(inc, J)
           /\ \A j \in Incidents : J[j] # None <=> inc[j] # None \/ j \in Inserted(sweep[p])
      BY <1>2, <1>4, AfterIncidents
<1> QED  BY <1>1, <1>2, <1>3, <1>5, <1>6

LEMMA SweepTypes ==
    ASSUME TypeInv, NEW p \in Replicas, EndSweep(p)
    PROVE  TypeInv'
<1>1. /\ Grown(inc, inc') /\ inc' \in [Incidents -> IncidentRow \cup {None}]
      /\ \A i \in Incidents : inc'[i] # None <=> inc[i] # None
      /\ \A i \in Incidents : inc'[i] # None => Timed(inc'[i], clock) /\ Levelled(inc'[i])
      BY SweepRows
<1>2. /\ alert' = alert /\ links' = links /\ handlers' = handlers /\ mode' = mode /\ clock' = clock
      /\ holder' = holder /\ conn' = conn /\ leader' = leader /\ told' = told
      /\ sweep' = [sweep EXCEPT ![p] = None]
      BY DEF EndSweep, election
<1>3. Born' = Born /\ Raised' = Raised  BY <1>1, <1>2 DEF Born, Raised
<1>4. RowsInv'
      <2>1. \A i \in Born : Timed(inc'[i], clock) /\ Levelled(inc'[i])  BY <1>1 DEF Born
      <2> QED  BY <1>1, <1>2, <1>3, <2>1 DEF TypeInv, RowsInv
<1>5. HandlersInv'
      <2>1. ASSUME NEW g \in handlers PROVE Handler(g, inc', alert', clock)
            <3>1. Handler(g, inc, alert, clock)  BY DEF TypeInv, HandlersInv
            <3>2. GrownAlerts(alert, alert)  BY GrownSelf DEF TypeInv, RowsInv
            <3>3. \A i \in Inserted(g.incs) : i \in Incidents /\ inc[i] = None
                  BY <3>1, Nones DEF Handler, IncidentPart, Edit, Inserted
            <3>4. \A a \in Inserted(g.alerts) : alert[a] = None
                  BY <3>1, Nones DEF Handler, AlertPart, InsertedAlert, EditedAlert, Inserted
            <3>5. \A i \in Inserted(g.incs) : inc'[i] = None  BY <1>1, <3>3
            <3>6. clock \in Nat /\ clock <= clock  BY DEF TypeInv
            <3> QED  BY <1>1, <1>2, <3>1, <3>2, <3>4, <3>5, <3>6, HandlerKept
      <2> QED  BY <1>2, <2>1 DEF TypeInv, HandlersInv
<1>6. SweepsInv'
      <2>1. DOMAIN sweep' = Replicas /\ \A q \in Replicas : sweep'[q] = IF q = p THEN None ELSE sweep[q]
            BY <1>2 DEF TypeInv, SweepsInv
      <2>2. ASSUME NEW q \in Replicas, sweep[q] # None PROVE SweepPart(sweep[q], inc', clock)
            <3>1. SweepPart(sweep[q], inc, clock)  BY <2>2 DEF TypeInv, SweepsInv
            <3>2. clock \in Nat /\ clock <= clock  BY DEF TypeInv
            <3> QED  BY <1>1, <3>1, <3>2, SweepKept
      <2> QED  BY <1>2, <2>1, <2>2 DEF SweepsInv
<1>7. ElectionInv'  BY <1>2 DEF TypeInv, ElectionInv
<1> QED  BY <1>2, <1>4, <1>5, <1>6, <1>7 DEF TypeInv

\* Steps by what they do: the rest leave every row and handler alone, but for
\* a handler that fails.
Elects(p) == Round(p) \/ Disconnect(p) \/ Restart(p)

LEMMA ElectionTypes ==
    ASSUME TypeInv, NEW p \in Replicas, Elects(p)
    PROVE  TypeInv'
<1> USE DEF TypeInv
<1>1. UNCHANGED rows /\ handlers' = handlers /\ mode' = mode /\ clock' = clock /\ told' = told /\ clock \in Nat
      BY DEF Elects, Round, Disconnect, Restart
<1>2. sweep' = sweep \/ sweep' = [sweep EXCEPT ![p] = None]
      BY DEF Elects, Round, Disconnect, Restart
<1>3. SweepsInv'
      <2>1. inc' = inc  BY <1>1 DEF rows
      <2> QED  BY <1>1, <1>2, <2>1 DEF SweepsInv
<1>4. ElectionInv'
      <2>1. CASE Round(p)
            <3>1. holder' \in Replicas \cup {None} /\ DOMAIN conn' = Replicas  BY <2>1 DEF Round, ElectionInv
            <3>2. leader' \in [Replicas -> BOOLEAN]  BY <2>1 DEF Round, ElectionInv
            <3>3. ASSUME NEW q \in Replicas, holder' = q PROVE conn'[q] = "open"
                  BY <2>1, <3>3, Nones DEF Round, ElectionInv
            <3> QED  BY <3>1, <3>2, <3>3 DEF ElectionInv
      <2>2. CASE Disconnect(p)  BY <2>2, Nones DEF Disconnect, ElectionInv
      <2>3. CASE Restart(p)  BY <2>3, Nones DEF Restart, ElectionInv
      <2> QED  BY <2>1, <2>2, <2>3 DEF Elects
<1> QED  BY <1>1, <1>3, <1>4, QuietTypes

LEMMA SweepingTypes ==
    ASSUME TypeInv, NEW p \in Replicas, BeginSweep(p) \/ FailSweep(p)
    PROVE  TypeInv'
<1>1. UNCHANGED rows /\ handlers' = handlers /\ mode' = mode /\ clock' = clock
      /\ holder' = holder /\ conn' = conn /\ leader' = leader
      BY DEF BeginSweep, FailSweep, election
<1>2. inc' = inc /\ clock \in Nat /\ mode \in Modes  BY <1>1 DEF rows, TypeInv
<1>3. DOMAIN told' = DOMAIN told  BY DEF BeginSweep, FailSweep, Announced
<1>4. SweepsInv'
      <2>1. CASE BeginSweep(p)
            <3>1. /\ SweepPart(sweep'[p], inc, clock)
                  /\ DOMAIN sweep' = Replicas /\ \A q \in Replicas \ {p} : sweep'[q] = sweep[q]
                  BY <2>1, SweepBegun
            <3> QED  BY <1>1, <1>2, <3>1 DEF TypeInv, SweepsInv
      <2>2. CASE FailSweep(p)
            <3>1. sweep' = [sweep EXCEPT ![p] = None]  BY <2>2 DEF FailSweep
            <3> QED  BY <1>1, <1>2, <3>1 DEF TypeInv, SweepsInv
      <2> QED  BY <2>1, <2>2
<1>5. ElectionInv'  BY <1>1 DEF TypeInv, ElectionInv
<1> QED  BY <1>1, <1>2, <1>3, <1>4, <1>5, QuietTypes

Settles == Fail \/ SwitchMode \/ Tick

LEMMA SettleTypes ==
    ASSUME TypeInv, Settles
    PROVE  TypeInv'
<1>1. /\ UNCHANGED rows /\ handlers' \subseteq handlers /\ told' = told /\ sweep' = sweep
      /\ holder' = holder /\ conn' = conn /\ leader' = leader
      BY DEF Settles, Fail, SwitchMode, Tick, election
<1>2. clock \in Nat  BY DEF TypeInv
<1>3. clock' \in Nat /\ clock <= clock' /\ mode' \in Modes
      BY <1>2 DEF Settles, Fail, SwitchMode, Tick, TypeInv, Modes
<1>4. inc' = inc /\ inc \in [Incidents -> IncidentRow \cup {None}] /\ alert \in [Alerts -> AlertRow \cup {None}]
      BY <1>1 DEF rows, TypeInv, RowsInv
<1>5. SweepsInv'
      <2>1. Grown(inc, inc')  BY <1>4, GrownSelf
      <2> QED  BY <1>1, <1>2, <1>3, <2>1, SweepsKept DEF TypeInv
<1>6. ElectionInv'  BY <1>1 DEF TypeInv, ElectionInv
<1> QED  BY <1>1, <1>3, <1>5, <1>6, QuietTypes

\* Every step is of one of these kinds.
LEMMA Steps ==
    ASSUME TypeInv, Next
    PROVE  \/ \E h : Begins(h)
           \/ \E h : Commits(h)
           \/ Settles
           \/ \E p \in Replicas : Elects(p) \/ BeginSweep(p) \/ EndSweep(p) \/ FailSweep(p)
<1>1. CASE Ingest \/ Promote \/ EditAlert \/ Patch \/ Acknowledge
      BY <1>1, IngestBegins, PromoteBegins, EditAlertBegins, PatchBegins, AcknowledgeBegins
<1>2. CASE Commit  BY <1>2, Committing
<1>3. CASE Fail \/ SwitchMode \/ Tick  BY <1>3 DEF Settles
<1>4. CASE \E p \in Replicas :
              Round(p) \/ Disconnect(p) \/ Restart(p) \/ BeginSweep(p) \/ EndSweep(p) \/ FailSweep(p)
      BY <1>4 DEF Elects
<1> QED  BY <1>1, <1>2, <1>3, <1>4 DEF Next

LEMMA StutterTypes ==
    ASSUME TypeInv, UNCHANGED vars
    PROVE  TypeInv'
BY DEF TypeInv, RowsInv, HandlersInv, SweepsInv, ElectionInv, Born, Raised, vars

LEMMA InitTypes == Init => TypeInv
<1> SUFFICES ASSUME Init PROVE TypeInv  OBVIOUS
<1>1. Born = {} /\ Raised = {}  BY DEF Init, Born, Raised
<1>2. RowsInv  BY <1>1 DEF Init, RowsInv
<1>3. HandlersInv  BY DEF Init, HandlersInv
<1>4. SweepsInv  BY DEF Init, SweepsInv
<1>5. ElectionInv  BY Nones DEF Init, ElectionInv
<1> QED  BY <1>2, <1>3, <1>4, <1>5 DEF Init, TypeInv, Modes

LEMMA TypeStep == TypeInv /\ [Next]_vars => TypeInv'
<1> SUFFICES ASSUME TypeInv, [Next]_vars PROVE TypeInv'  OBVIOUS
<1>1. CASE UNCHANGED vars  BY <1>1, StutterTypes
<1>2. CASE Next
      BY <1>2, Steps, BeginTypes, CommitTypes, SettleTypes, ElectionTypes, SweepingTypes, SweepTypes
<1> QED  BY <1>1, <1>2

LEMMA Typed == Spec => []TypeInv
BY InitTypes, TypeStep, PTL DEF Spec

LEMMA TypesHold == TypeInv => TypeOK
<1> SUFFICES ASSUME TypeInv PROVE TypeOK  OBVIOUS
<1>1. Cardinality(Kinds) = 2
      <2>1. IsFiniteSet({"ack"}) /\ Cardinality({"ack"}) = 1  BY FS_Singleton
      <2>2. "resolve" \notin {"ack"}  OBVIOUS
      <2>3. Cardinality({"ack"} \cup {"resolve"}) = Cardinality({"ack"}) + 1  BY <2>1, <2>2, FS_AddElement
      <2>4. Kinds = {"ack"} \cup {"resolve"}  BY DEF Kinds
      <2> QED  BY <2>1, <2>3, <2>4
<1>2. ASSUME NEW i \in Born
      PROVE  /\ inc[i].status \in {"new", "working", "closed"} /\ inc[i].scope \in Modes
             /\ inc[i].sev \in Severities /\ inc[i].created \in 1..clock
             /\ inc[i].done \in [Kinds -> 0..clock] /\ inc[i].breach \in [Kinds -> 0..clock]
             /\ inc[i].level \in 0..Cardinality(Kinds)
      <2> DEFINE row == inc[i]
      <2>1. row \in IncidentRow /\ Timed(row, clock) /\ Levelled(row)  BY BornRow DEF TypeInv, RowsInv
      <2>2. /\ row.sev \in Severities /\ row.status \in {"new", "working", "closed"}
            /\ row.created \in Nat /\ row.done \in [Kinds -> Nat] /\ row.breach \in [Kinds -> Nat]
            /\ row.level \in Nat /\ row.scope \in Modes
            BY <2>1, RowParts
      <2>3. clock \in Nat  BY DEF TypeInv
      <2> HIDE DEF row
      <2>4. row.created \in 1..clock  BY <2>1, <2>2, <2>3 DEF Timed
      <2>5. \A k \in Kinds : row.done[k] \in 0..clock /\ row.breach[k] \in 0..clock
            BY <2>1, <2>2, <2>3 DEF Timed
      <2>6. row.done \in [Kinds -> 0..clock] /\ row.breach \in [Kinds -> 0..clock]  BY <2>2, <2>5
      <2>7. row.level \in 0..2
            <3>1. "ack" \in Kinds /\ "resolve" \in Kinds  BY DEF Kinds
            <3> QED  BY <2>1, <2>2, <3>1 DEF Levelled
      <2> QED  BY <1>1, <2>2, <2>4, <2>6, <2>7 DEF row
<1>3. ASSUME NEW a \in Raised
      PROVE  alert[a].status \in {"open", "done"} /\ alert[a].incident \in Born \cup {None}
      BY RaisedRow DEF TypeInv, RowsInv, AlertRow
<1> QED  BY <1>2, <1>3 DEF TypeOK, TypeInv, RowsInv, ElectionInv

\* Rows stay well formed whichever handlers, sweeps and elections overlap: in
\* particular no time is in the future, an incident is escalated at most once
\* for each of its targets, an alert's incident and both ends of a link exist,
\* and who holds the lock has its connection.
THEOREM TypeCorrect == Spec => []TypeOK
BY Typed, TypesHold, PTL

-----------------------------------------------------------------------------
(* The clocks of an incident.                                              *)

ClocksInv ==
    \A i \in Born \ clash : Fits(inc[i]) /\ (i \notin restamped => Grounded(inc[i]))

\* An edit of a row on which no other has changed the clocks meanwhile.
LEMMA ClocksRow ==
    ASSUME TypeInv, ClocksInv, NEW f, EditsPart(f, inc, clock),
           NEW i \in Born \ clash, i \in DOMAIN f => i \notin Clashing(f),
           i \in DOMAIN f => f[i].new.due = f[i].seen.due \/ f[i].new.breach = f[i].seen.breach
    PROVE  Fits(After(inc, f)[i]) /\ (i \notin restamped \cup Restamped(f) => Grounded(After(inc, f)[i]))
<1> DEFINE m == After(inc, f)[i]
<1>1. /\ i \in Incidents /\ inc[i] \in IncidentRow /\ inc[i] # None /\ clock \in Nat
      /\ inc \in [Incidents -> IncidentRow \cup {None}]
      /\ \A j \in Incidents : inc[j] # None => Timed(inc[j], clock) /\ Levelled(inc[j])
      BY BornRow DEF TypeInv, RowsInv, Born
<1>2. /\ i \notin DOMAIN f => m = inc[i]
      /\ i \notin Inserted(f) /\ m.created = inc[i].created
      /\ i \in DOMAIN f =>
            /\ Edit(f[i], clock) /\ Based(f[i], inc[i])
            /\ Clocks(f[i].new) = Clocks(f[i].seen) => Clocks(m) = Clocks(inc[i])
            /\ Clocks(inc[i]) = Clocks(f[i].seen) => Clocks(m) = Clocks(f[i].new)
      BY <1>1, AfterRow
<1> HIDE DEF m
<1>3. Fits(inc[i]) /\ (i \notin restamped => Grounded(inc[i]))  BY DEF ClocksInv
<1>4. CASE i \notin DOMAIN f
      BY <1>2, <1>3, <1>4 DEF m
<1>5. CASE i \in DOMAIN f /\ Clocks(f[i].new) = Clocks(f[i].seen)
      <2>1. Clocks(m) = Clocks(inc[i])  BY <1>2, <1>5
      <2> QED  BY <1>2, <1>3, <2>1, SameClocks DEF m
<1>6. CASE i \in DOMAIN f /\ Clocks(f[i].new) # Clocks(f[i].seen)
      <2> DEFINE seen == f[i].seen
                 new == f[i].new
      <2>1. Clocks(inc[i]) = Clocks(seen)  BY <1>2, <1>6 DEF Clashing
      <2>2. Derived(seen, new) /\ inc[i].created = seen.created  BY <1>2, <1>6 DEF Edit, Based
      <2>3. Clocks(m) = Clocks(new) /\ m.created = new.created  BY <1>2, <1>6, <2>1, <2>2 DEF Derived
      <2>4. Fits(seen) /\ (i \notin restamped => Grounded(seen))  BY <1>3, <2>1, <2>2, SameClocks
      <2>5. Fits(new)  BY <2>2, <2>4 DEF Derived
      <2>6. ASSUME i \notin restamped \cup Restamped(f) PROVE Grounded(new)
            <3>1. CASE new.due = seen.due  BY <2>2, <2>4, <2>6, <3>1 DEF Derived
            <3>2. CASE new.due # seen.due
                  <4>1. new.breach = seen.breach /\ \A k \in Kinds : inc[i].breach[k] = 0
                        BY <1>2, <1>6, <2>6, <3>2 DEF Restamped
                  <4>2. seen.breach = inc[i].breach  BY <2>1 DEF Clocks
                  <4> QED  BY <4>1, <4>2 DEF Grounded
            <3> QED  BY <3>1, <3>2
      <2> HIDE DEF seen, new
      <2> QED  BY <2>3, <2>5, <2>6, SameClocks DEF m
<1> QED  BY <1>4, <1>5, <1>6

LEMMA ClocksQuiet ==
    ASSUME ClocksInv, inc' = inc, clash' = clash, restamped' = restamped
    PROVE  ClocksInv'
BY DEF ClocksInv, Born

LEMMA CommitClocks ==
    ASSUME TypeInv, ClocksInv, NEW h, Commits(h)
    PROVE  ClocksInv'
<1> SUFFICES ASSUME NEW i \in Born' \ clash'
             PROVE  Fits(inc'[i]) /\ (i \notin restamped' => Grounded(inc'[i]))
    BY DEF ClocksInv
<1>1. /\ inc' = After(inc, h.incs) /\ clash' = clash \cup Clashing(h.incs)
      /\ restamped' = restamped \cup Restamped(h.incs)
      BY DEF Commits
<1>2. /\ EditsPart(h.incs, inc, clock) /\ IncidentPart(h.incs, inc, clock)
      /\ \A j \in Incidents : inc'[j] # None <=> inc[j] # None \/ j \in Inserted(h.incs)
      BY CommitGrows
<1>3. i \in Incidents /\ (i \in Born \/ i \in Inserted(h.incs))  BY <1>2 DEF Born
<1>4. CASE i \in Inserted(h.incs)
      <2>1. /\ inc \in [Incidents -> IncidentRow \cup {None}] /\ clock \in Nat
            /\ \A j \in Incidents : inc[j] # None => Timed(inc[j], clock) /\ Levelled(inc[j])
            BY DEF TypeInv, RowsInv, Born
      <2>2. After(inc, h.incs)[i] = h.incs[i].new /\ Insertion(h.incs[i], clock)
            BY <1>2, <1>3, <1>4, <2>1, AfterRow
      <2> QED  BY <1>1, <2>2 DEF Insertion, Grounded
<1>5. CASE i \in Born
      <2>1. i \in DOMAIN h.incs /\ i \notin Inserted(h.incs) => h.incs[i].new.breach = h.incs[i].seen.breach
            BY <1>2, <1>5 DEF IncidentPart, Born
      <2>2. i \notin Inserted(h.incs)
            BY <1>2, <1>5, Nones DEF IncidentPart, Inserted, Edit, Born
      <2>3. i \notin clash /\ i \notin Clashing(h.incs)  BY <1>1
      <2> QED  BY <1>1, <1>2, <1>5, <2>1, <2>2, <2>3, ClocksRow
<1> QED  BY <1>3, <1>4, <1>5

LEMMA SweepClocks ==
    ASSUME TypeInv, ClocksInv, NEW p \in Replicas, EndSweep(p)
    PROVE  ClocksInv'
<1> SUFFICES ASSUME NEW i \in Born' \ clash'
             PROVE  Fits(inc'[i]) /\ (i \notin restamped' => Grounded(inc'[i]))
    BY DEF ClocksInv
<1>1. clash' = clash \cup Clashing(sweep[p]) /\ restamped' = restamped  BY DEF EndSweep
<1>2. /\ EditsPart(sweep[p], inc, clock) /\ SweepPart(sweep[p], inc, clock) /\ inc' = After(inc, sweep[p])
      /\ \A j \in Incidents : inc'[j] # None <=> inc[j] # None
      BY SweepRows
<1>3. i \in Born \ clash /\ i \notin Clashing(sweep[p])  BY <1>1, <1>2 DEF Born
<1>4. i \in DOMAIN sweep[p] => sweep[p][i].new.due = sweep[p][i].seen.due  BY <1>2 DEF SweepPart
<1>5. i \notin Restamped(sweep[p])  BY <1>4 DEF Restamped
<1> QED  BY <1>1, <1>2, <1>3, <1>4, <1>5, ClocksRow

LEMMA ClocksStep == TypeInv /\ ClocksInv /\ [Next]_vars => ClocksInv'
<1> SUFFICES ASSUME TypeInv, ClocksInv, [Next]_vars PROVE ClocksInv'  OBVIOUS
<1>1. CASE UNCHANGED vars  BY <1>1, ClocksQuiet DEF vars
<1>2. CASE \E h : Begins(h)  BY <1>2, ClocksQuiet DEF Begins, rows, history
<1>3. CASE \E h : Commits(h)  BY <1>3, CommitClocks
<1>4. CASE Settles  BY <1>4, ClocksQuiet DEF Settles, Fail, SwitchMode, Tick, rows, history
<1>5. ASSUME NEW p \in Replicas, Elects(p) \/ BeginSweep(p) \/ FailSweep(p) PROVE ClocksInv'
      BY <1>5, ClocksQuiet DEF Elects, Round, Disconnect, Restart, BeginSweep, FailSweep, rows, history
<1>6. CASE \E p \in Replicas : EndSweep(p)  BY <1>6, SweepClocks
<1> QED  BY <1>1, <1>2, <1>3, <1>4, <1>5, <1>6, Steps

LEMMA ClocksHold == TypeInv /\ ClocksInv => ClocksAgree
<1> SUFFICES ASSUME TypeInv, ClocksInv, NEW i \in Born \ clash
             PROVE  /\ \A k \in Kinds : inc[i].due[k] = inc[i].created + Sla[inc[i].sev][k]
                    /\ Closed(inc[i]) <=> inc[i].done["resolve"] # 0
                    /\ Closed(inc[i]) => inc[i].done["ack"] # 0
                    /\ \A k \in Kinds : inc[i].breach[k] # 0 /\ i \notin restamped => Missed(inc[i], k)
    BY DEF ClocksAgree
<1>1. Fits(inc[i]) /\ (i \notin restamped => Grounded(inc[i]))  BY DEF ClocksInv
<1>2. inc[i] \in IncidentRow /\ Timed(inc[i], clock) /\ clock \in Nat  BY BornRow DEF TypeInv, RowsInv
<1>3. inc[i].due \in [Kinds -> Nat] /\ inc[i].breach \in [Kinds -> Nat] /\ inc[i].done \in [Kinds -> Nat]
      BY <1>2, RowParts
<1>4. ASSUME NEW k \in Kinds, inc[i].breach[k] # 0, i \notin restamped PROVE Missed(inc[i], k)
      <2>1. /\ inc[i].due[k] < inc[i].breach[k] /\ inc[i].breach[k] <= clock
            /\ inc[i].done[k] # 0 => inc[i].due[k] < inc[i].done[k]
            BY <1>1, <1>2, <1>4 DEF Grounded, Timed
      <2>2. inc[i].due[k] \in Nat /\ inc[i].breach[k] \in Nat /\ inc[i].done[k] \in Nat  BY <1>3
      <2> QED  BY <1>2, <2>1, <2>2 DEF Missed
<1> QED  BY <1>1, <1>4 DEF Fits

\* The columns of an incident's clocks agree in every committed state, unless
\* two transactions changed them at a time: what a handler makes of the row it
\* loaded agrees whenever that row did (Derived), and a row on which an edit is
\* laid has the clocks of the one or of the other.
THEOREM ClocksKept == Spec => []ClocksAgree
<1>1. Init => ClocksInv  BY DEF Init, ClocksInv, Born
<1> QED  BY <1>1, Typed, ClocksStep, ClocksHold, PTL DEF Spec

-----------------------------------------------------------------------------
(* What the sweeps announce.                                               *)

\* The sweep f is to record the target t.
Records(f, t) ==
    t[1] \in DOMAIN f /\ f[t[1]].seen.breach[t[2]] = 0 /\ f[t[1]].new.breach[t[2]] # 0

\* The target t is recorded, or about to be by a sweep in hand.
Known(t) ==
    /\ inc[t[1]] # None
    /\ \/ inc[t[1]].breach[t[2]] # 0
       \/ \E p \in Replicas : sweep[p] # None /\ Records(sweep[p], t)

\* Only the holder of the lock has a sweep in hand, and what has been announced
\* is known, so that no sweep finds it again.
ToldInv ==
    ~lapsed =>
        /\ \A p \in Replicas : sweep[p] # None => holder = p
        /\ \A t \in Incidents \X Kinds : told[t] \in {0, 1} /\ (told[t] = 1 => Known(t))

\* What is known stays so while incidents only grow and the sweeps go on.
LEMMA KnownKept ==
    ASSUME NEW t \in Incidents \X Kinds, Known(t), Grown(inc, inc'),
           \A p \in Replicas : sweep'[p] = sweep[p]
    PROVE  Known(t)'
<1>1. t[1] \in Incidents /\ t[2] \in Kinds  OBVIOUS
<1>2. inc'[t[1]] # None /\ (inc[t[1]].breach[t[2]] # 0 => inc'[t[1]].breach[t[2]] # 0)
      BY <1>1, Nones DEF Known, Grown
<1>3. (\E p \in Replicas : sweep[p] # None /\ Records(sweep[p], t))
         => (\E p \in Replicas : sweep'[p] # None /\ Records(sweep'[p], t))
      OBVIOUS
<1> QED  BY <1>2, <1>3 DEF Known

LEMMA ToldQuiet ==
    ASSUME TypeInv, ToldInv, Grown(inc, inc'), \A p \in Replicas : sweep'[p] = sweep[p],
           told' = told, lapsed => lapsed',
           ~lapsed => \A p \in Replicas : holder = p /\ sweep[p] # None => holder' = p
    PROVE  ToldInv'
<1> SUFFICES ASSUME ~lapsed'
             PROVE  /\ \A p \in Replicas : sweep'[p] # None => holder' = p
                    /\ \A t \in Incidents \X Kinds : told'[t] \in {0, 1} /\ (told'[t] = 1 => Known(t)')
    BY DEF ToldInv
<1>1. /\ \A p \in Replicas : sweep[p] # None => holder = p
      /\ \A t \in Incidents \X Kinds : told[t] \in {0, 1} /\ (told[t] = 1 => Known(t))
      BY DEF ToldInv
<1>2. \A t \in Incidents \X Kinds : Known(t) => Known(t)'  BY KnownKept
<1> QED  BY <1>1, <1>2

LEMMA SelfGrown ==
    ASSUME TypeInv, inc' = inc
    PROVE  Grown(inc, inc')
BY GrownSelf DEF TypeInv, RowsInv

LEMMA ElectionTold ==
    ASSUME TypeInv, ToldInv, NEW p \in Replicas, Elects(p)
    PROVE  ToldInv'
<1> USE DEF ToldInv
<1>1. inc' = inc /\ told' = told  BY DEF Elects, Round, Disconnect, Restart, rows
<1>2. Grown(inc, inc')  BY <1>1, SelfGrown
<1>3. CASE Round(p)
      <2>1. sweep' = sweep /\ (lapsed => lapsed')  BY <1>3 DEF Round
      <2>2. \A q \in Replicas : holder = q => holder' = q  BY <1>3, Nones DEF Round
      <2> QED  BY <1>1, <1>2, <2>1, <2>2, ToldQuiet
<1>4. CASE Disconnect(p)
      <2>1. CASE sweep[p] # None  BY <1>4, <2>1 DEF Disconnect
      <2>2. CASE sweep[p] = None
            <3>1. sweep' = sweep /\ (lapsed => lapsed')  BY <1>4, <2>2 DEF Disconnect
            <3>2. \A q \in Replicas : holder = q /\ sweep[q] # None => holder' = q
                  BY <1>4, <2>2 DEF Disconnect
            <3> QED  BY <1>1, <1>2, <3>1, <3>2, ToldQuiet
      <2> QED  BY <2>1, <2>2
<1>5. CASE Restart(p)
      <2>1. CASE sweep[p] # None  BY <1>5, <2>1 DEF Restart
      <2>2. CASE sweep[p] = None
            <3>1. (\A q \in Replicas : sweep'[q] = sweep[q]) /\ (lapsed => lapsed')
                  <4>1. sweep' = [sweep EXCEPT ![p] = None] /\ DOMAIN sweep = Replicas
                        BY <1>5 DEF Restart, TypeInv, SweepsInv
                  <4>2. lapsed => lapsed'  BY <1>5 DEF Restart
                  <4> QED  BY <2>2, <4>1, <4>2
            <3>2. \A q \in Replicas : holder = q /\ sweep[q] # None => holder' = q
                  BY <1>5, <2>2 DEF Restart
            <3> QED  BY <1>1, <1>2, <3>1, <3>2, ToldQuiet
      <2> QED  BY <2>1, <2>2
<1> QED  BY <1>3, <1>4, <1>5 DEF Elects

LEMMA BeginTold ==
    ASSUME TypeInv, ToldInv, NEW p \in Replicas, BeginSweep(p)
    PROVE  ToldInv'
<1> SUFFICES ASSUME ~lapsed'
             PROVE  /\ \A q \in Replicas : sweep'[q] # None => holder' = q
                    /\ \A t \in Incidents \X Kinds : told'[t] \in {0, 1} /\ (told'[t] = 1 => Known(t)')
    BY DEF ToldInv
<1>1. ~lapsed /\ holder = p /\ holder' = p /\ sweep[p] = None /\ inc' = inc /\ told' = Announced(Targets)
      BY DEF BeginSweep, election, rows
<1>2. /\ \A q \in Replicas : sweep[q] # None => holder = q
      /\ \A t \in Incidents \X Kinds : told[t] \in {0, 1} /\ (told[t] = 1 => Known(t))
      BY <1>1 DEF ToldInv
<1>3. \A q \in Replicas : sweep[q] = None  BY <1>1, <1>2
<1>4. /\ sweep'[p] # None /\ \A q \in Replicas \ {p} : sweep'[q] = sweep[q]
      /\ \A i \in Born, k \in Kinds : Overdue(inc[i], k) =>
            /\ i \in DOMAIN sweep'[p] /\ sweep'[p][i].seen.breach[k] = 0 /\ sweep'[p][i].new.breach[k] # 0
      BY SweepBegun
<1>5. \A q \in Replicas : sweep'[q] # None => holder' = q  BY <1>1, <1>3, <1>4
<1>6. ASSUME NEW t \in Incidents \X Kinds
      PROVE  told'[t] \in {0, 1} /\ (told'[t] = 1 => Known(t)')
      <2>1. told'[t] = IF t \in Targets /\ told[t] < 2 THEN told[t] + 1 ELSE told[t]
            BY <1>1 DEF Announced, TypeInv
      <2>2. told[t] \in {0, 1} /\ (told[t] = 1 => inc[t[1]] # None /\ inc[t[1]].breach[t[2]] # 0)
            BY <1>2, <1>3 DEF Known
      <2>3. CASE t \in Targets
            <3>1. t[1] \in Born /\ t[2] \in Kinds /\ Overdue(inc[t[1]], t[2])  BY <2>3 DEF Targets
            <3>2. inc[t[1]].breach[t[2]] = 0 /\ inc[t[1]] # None  BY <3>1 DEF Overdue, Born
            <3>3. told'[t] = 1  BY <2>1, <2>2, <2>3, <3>2
            <3>4. Records(sweep'[p], t)  BY <1>4, <3>1 DEF Records
            <3>5. Known(t)'  BY <1>1, <1>4, <3>2, <3>4 DEF Known
            <3> QED  BY <3>3, <3>5
      <2>4. CASE t \notin Targets
            <3>1. told'[t] = told[t]  BY <2>1, <2>4
            <3>2. told[t] = 1 => Known(t)'  BY <1>1, <2>2 DEF Known
            <3> QED  BY <2>2, <3>1, <3>2
      <2> QED  BY <2>3, <2>4
<1> QED  BY <1>5, <1>6

LEMMA EndTold ==
    ASSUME TypeInv, ToldInv, NEW p \in Replicas, EndSweep(p)
    PROVE  ToldInv'
<1> SUFFICES ASSUME ~lapsed'
             PROVE  /\ \A q \in Replicas : sweep'[q] # None => holder' = q
                    /\ \A t \in Incidents \X Kinds : told'[t] \in {0, 1} /\ (told'[t] = 1 => Known(t)')
    BY DEF ToldInv
<1>1. ~lapsed /\ holder' = holder /\ told' = told /\ sweep' = [sweep EXCEPT ![p] = None] /\ sweep[p] # None
      BY DEF EndSweep, election
<1>2. /\ \A q \in Replicas : sweep[q] # None => holder = q
      /\ \A t \in Incidents \X Kinds : told[t] \in {0, 1} /\ (told[t] = 1 => Known(t))
      BY <1>1 DEF ToldInv
<1>3. \A q \in Replicas : q # p => sweep[q] = None  BY <1>1, <1>2
<1>4. EditsPart(sweep[p], inc, clock) /\ inc' = After(inc, sweep[p]) /\ Grown(inc, inc')  BY SweepRows
<1>5. ASSUME NEW t \in Incidents \X Kinds, Known(t) PROVE Known(t)'
      <2>1. t[1] \in Incidents /\ t[2] \in Kinds /\ inc[t[1]] # None  BY <1>5 DEF Known
      <2>2. CASE inc[t[1]].breach[t[2]] # 0
            BY <1>4, <2>1, <2>2, Nones DEF Known, Grown
      <2>3. CASE Records(sweep[p], t)
            <3>1. /\ inc \in [Incidents -> IncidentRow \cup {None}] /\ clock \in Nat
                  /\ \A j \in Incidents : inc[j] # None => Timed(inc[j], clock) /\ Levelled(inc[j])
                  BY DEF TypeInv, RowsInv, Born
            <3>2. /\ After(inc, sweep[p])[t[1]] \in IncidentRow
                  /\ \A k \in Kinds : sweep[p][t[1]].new.breach[k] # 0 => After(inc, sweep[p])[t[1]].breach[k] # 0
                  BY <1>4, <2>1, <2>3, <3>1, AfterRow DEF Records
            <3> QED  BY <1>4, <2>1, <2>3, <3>2, Nones DEF Known, Records
      <2> QED  BY <1>3, <1>5, <2>2, <2>3 DEF Known
<1>6. \A q \in Replicas : sweep'[q] # None => holder' = q  BY <1>1, <1>2 DEF TypeInv, SweepsInv
<1> QED  BY <1>1, <1>2, <1>5, <1>6

LEMMA ToldStep == TypeInv /\ ToldInv /\ [Next]_vars => ToldInv'
<1> SUFFICES ASSUME TypeInv, ToldInv, [Next]_vars PROVE ToldInv'  OBVIOUS
<1>1. CASE UNCHANGED vars
      BY <1>1, SelfGrown, ToldQuiet DEF vars
<1>2. ASSUME NEW h, Begins(h) PROVE ToldInv'
      BY <1>2, SelfGrown, ToldQuiet DEF Begins, rows, election
<1>3. ASSUME NEW h, Commits(h) PROVE ToldInv'
      BY <1>3, CommitGrows, ToldQuiet DEF Commits, election
<1>4. CASE Settles
      BY <1>4, SelfGrown, ToldQuiet DEF Settles, Fail, SwitchMode, Tick, rows, election
<1>5. ASSUME NEW p \in Replicas, FailSweep(p) PROVE ToldInv'
      BY <1>5 DEF FailSweep, ToldInv
<1> QED  BY <1>1, <1>2, <1>3, <1>4, <1>5, ElectionTold, BeginTold, EndTold, Steps

\* A breach is announced once, unless a sweep outlived its maker's lock or
\* failed: sweeps are made one at a time, by the holder of the lock, and what
\* one has announced it records, and nothing takes back.
THEOREM AnnouncedOnce == Spec => []ToldOnce
<1>1. Init => ToldInv
      <2> SUFFICES ASSUME Init PROVE ToldInv  OBVIOUS
      <2>1. \A t \in Incidents \X Kinds : told[t] = 0  BY DEF Init
      <2>2. \A p \in Replicas : sweep[p] = None  BY DEF Init
      <2> QED  BY <2>1, <2>2 DEF ToldInv
<1>2. TypeInv /\ ToldInv => ToldOnce  BY DEF TypeInv, ToldInv, ToldOnce
<1> QED  BY <1>1, <1>2, Typed, ToldStep, PTL DEF Spec

-----------------------------------------------------------------------------
(* Alerts, their incidents, and keys.                                      *)

OneOpen ==
    \A a, b \in Raised :
        a # b /\ alert[a].key = alert[b].key /\ alert[a].scope = alert[b].scope
        => alert[a].status # "open" \/ alert[b].status # "open"

InScope == \A a \in Raised : alert[a].incident # None => inc[alert[a].incident].scope = alert[a].scope

HighHaveOne == \A a \in Raised : Rank(alert[a].raised) >= 3 => alert[a].incident # None

Linked == \A l \in links : alert[l[2]].incident = l[1]

\* Keys are those of a count that has only risen.
Counted ==
    /\ \A i \in Born : inc[i].key \in 1..Cardinality(Born)
    /\ \A i, j \in Born : i # j => inc[i].key # inc[j].key

FilingInv ==
    /\ "alert" \notin doubled /\ ~reopened => OneOpen
    /\ InScope /\ HighHaveOne
    /\ "link" \notin doubled => Linked
    /\ "incident" \notin doubled => Counted

LEMMA RankTyped == \A s \in Severities : Rank(s) \in Nat
BY OperationsAssumption DEF OperationsAssumption, Rank

\* An alert after the commit of h.
LEMMA AlertAfter ==
    ASSUME TypeInv, NEW h, Commits(h), NEW a \in Raised'
    PROVE  LET x == h.alerts[a] IN
           /\ a \in Alerts /\ alert'[a] \in AlertRow
           /\ \/ /\ a \in Inserted(h.alerts) /\ a \in DOMAIN h.alerts
                 /\ alert'[a] = x.new /\ InsertedAlert(h, a, inc, alert)
              \/ /\ a \in Raised /\ a \notin Inserted(h.alerts)
                 /\ alert'[a].key = alert[a].key /\ alert'[a].scope = alert[a].scope
                 /\ alert'[a].raised = alert[a].raised
                 /\ \/ a \notin DOMAIN h.alerts /\ alert'[a] = alert[a]
                    \/ /\ a \in DOMAIN h.alerts /\ EditedAlert(h, a, inc, alert)
                       /\ alert'[a].incident = IF x.new.incident # x.seen.incident THEN x.new.incident
                                               ELSE alert[a].incident
<1> DEFINE x == h.alerts[a]
<1>1. a \in Alerts /\ alert'[a] # None  BY DEF Raised
<1>2. alert' = After(alert, h.alerts) /\ alert \in [Alerts -> AlertRow \cup {None}]
      BY DEF Commits, TypeInv, RowsInv
<1>3. AlertPart(h, inc, alert)  BY CommitGrows
<1>4. LET m == After(alert, h.alerts)[a] IN
      /\ a \notin DOMAIN h.alerts => m = alert[a]
      /\ a \in Inserted(h.alerts) => m = x.new /\ alert[a] = None /\ InsertedAlert(h, a, inc, alert) /\ m \in AlertRow
      /\ alert[a] = None /\ a \notin Inserted(h.alerts) => m = None
      /\ m # None => m \in AlertRow
      /\ alert[a] # None =>
            /\ a \notin Inserted(h.alerts) /\ m \in AlertRow
            /\ m.key = alert[a].key /\ m.scope = alert[a].scope /\ m.raised = alert[a].raised
            /\ a \in DOMAIN h.alerts =>
                  /\ EditedAlert(h, a, inc, alert)
                  /\ m.incident = IF x.new.incident # x.seen.incident THEN x.new.incident ELSE alert[a].incident
      BY <1>1, <1>2, <1>3, AfterAlert
<1>5. a \in Inserted(h.alerts) => a \in DOMAIN h.alerts  BY DEF Inserted
<1>6. alert[a] # None => a \in Raised  BY <1>1 DEF Raised
<1> HIDE DEF x
<1>7. CASE alert[a] # None
      BY <1>1, <1>2, <1>4, <1>6, <1>7 DEF x
<1>8. CASE alert[a] = None
      BY <1>1, <1>2, <1>4, <1>5, <1>8 DEF x
<1> QED  BY <1>7, <1>8

LEMMA CommitOpen ==
    ASSUME TypeInv, NEW h, Commits(h), OneOpen, "alert" \notin Doubles(h), ~reopened'
    PROVE  OneOpen'
<1>1. ASSUME NEW a \in Raised', alert'[a].status = "open", a \notin Inserted(h.alerts)
      PROVE  /\ a \in Raised /\ alert[a].status = "open"
             /\ alert'[a].key = alert[a].key /\ alert'[a].scope = alert[a].scope
      <2>1. /\ a \in Raised /\ alert'[a].key = alert[a].key /\ alert'[a].scope = alert[a].scope
            /\ a \in DOMAIN h.alerts \/ alert'[a] = alert[a]
            BY <1>1, AlertAfter
      <2>2. alert[a].status \in {"open", "done"}  BY <2>1, RaisedRow DEF TypeInv, AlertRow
      <2>3. a \in DOMAIN h.alerts => alert[a].status # "done"  BY <1>1 DEF Commits
      <2> QED  BY <1>1, <2>1, <2>2, <2>3
<1>2. ASSUME NEW a \in Raised', a \in Inserted(h.alerts)
      PROVE  Same(alert'[a].key, alert'[a].scope) = {}
      <2>1. alert'[a] = h.alerts[a].new  BY <1>2, AlertAfter
      <2>2. Same(h.alerts[a].new.key, h.alerts[a].new.scope) = {}  BY <1>2 DEF Doubles
      <2> QED  BY <2>1, <2>2
<1>3. ASSUME NEW a \in Raised', NEW b \in Raised', a \in Inserted(h.alerts), b \notin Inserted(h.alerts),
             alert'[a].key = alert'[b].key, alert'[a].scope = alert'[b].scope, alert'[b].status = "open"
      PROVE  FALSE
      <2>1. b \in Raised /\ alert[b].status = "open" /\ alert'[b].key = alert[b].key /\ alert'[b].scope = alert[b].scope
            BY <1>1, <1>3
      <2>2. b \in Same(alert'[a].key, alert'[a].scope)  BY <1>3, <2>1 DEF Same
      <2> QED  BY <1>2, <1>3, <2>2
<1>4. ASSUME NEW a \in Raised', NEW b \in Raised', a \in Inserted(h.alerts), b \in Inserted(h.alerts)
      PROVE  a = b
      <2>1. AlertPart(h, inc, alert)  BY CommitGrows
      <2> QED  BY <1>4, <2>1 DEF AlertPart, Inserted
<1> SUFFICES ASSUME NEW a \in Raised', NEW b \in Raised', a # b,
                    alert'[a].key = alert'[b].key, alert'[a].scope = alert'[b].scope,
                    alert'[a].status = "open", alert'[b].status = "open"
             PROVE  FALSE
    BY DEF OneOpen
<1>5. CASE a \notin Inserted(h.alerts) /\ b \notin Inserted(h.alerts)
      BY <1>1, <1>5 DEF OneOpen
<1> QED  BY <1>3, <1>4, <1>5

LEMMA CommitFiles ==
    ASSUME TypeInv, NEW h, Commits(h), InScope, HighHaveOne
    PROVE  InScope' /\ HighHaveOne'
<1> SUFFICES ASSUME NEW a \in Raised'
             PROVE  /\ alert'[a].incident # None => inc'[alert'[a].incident].scope = alert'[a].scope
                    /\ Rank(alert'[a].raised) >= 3 => alert'[a].incident # None
    BY DEF InScope, HighHaveOne
<1> DEFINE x == h.alerts[a]
<1>1. /\ a \in Alerts /\ alert'[a] \in AlertRow
      /\ \/ /\ a \in Inserted(h.alerts) /\ a \in DOMAIN h.alerts
            /\ alert'[a] = x.new /\ InsertedAlert(h, a, inc, alert)
         \/ /\ a \in Raised /\ a \notin Inserted(h.alerts)
            /\ alert'[a].key = alert[a].key /\ alert'[a].scope = alert[a].scope
            /\ alert'[a].raised = alert[a].raised
            /\ \/ a \notin DOMAIN h.alerts /\ alert'[a] = alert[a]
               \/ /\ a \in DOMAIN h.alerts /\ EditedAlert(h, a, inc, alert)
                  /\ alert'[a].incident = IF x.new.incident # x.seen.incident THEN x.new.incident
                                          ELSE alert[a].incident
      BY AlertAfter
<1>2. ASSUME a \in DOMAIN h.alerts, Filed(h, a, inc)
      PROVE  x.new.incident # None /\ inc'[x.new.incident].scope = x.new.scope
      BY <1>2, FiledAfter, Nones
<1>3. Rank(alert'[a].raised) \in Nat  BY <1>1, RankTyped DEF AlertRow
<1>4. ASSUME a \in Raised
      PROVE  /\ alert[a].incident # None => inc'[alert[a].incident].scope = alert[a].scope
             /\ Rank(alert[a].raised) >= 3 => alert[a].incident # None
      <2>1. alert[a].incident # None => alert[a].incident \in Incidents /\ inc[alert[a].incident] # None
            BY <1>4 DEF TypeInv, RowsInv, Born
      <2>2. Grown(inc, inc')  BY CommitGrows
      <2> QED  BY <1>4, <2>1, <2>2 DEF Grown, InScope, HighHaveOne
<1>5. CASE a \in DOMAIN h.alerts /\ alert'[a] = x.new /\ InsertedAlert(h, a, inc, alert)
      <2> HIDE DEF x
      <2>1. Filed(h, a, inc) \/ (x.new.incident = None /\ Rank(x.new.raised) < 3)
            BY <1>5 DEF InsertedAlert, x
      <2> QED  BY <1>2, <1>3, <1>5, <2>1
<1>6. CASE /\ a \in Raised /\ a \in DOMAIN h.alerts /\ EditedAlert(h, a, inc, alert)
           /\ alert'[a].scope = alert[a].scope /\ alert'[a].raised = alert[a].raised
           /\ alert'[a].incident = IF x.new.incident # x.seen.incident THEN x.new.incident
                                   ELSE alert[a].incident
      <2> HIDE DEF x
      <2>1. x.new.scope = alert[a].scope /\ (x.new.incident # x.seen.incident => Filed(h, a, inc))
            BY <1>6 DEF EditedAlert, x
      <2> QED  BY <1>2, <1>4, <1>6, <2>1
<1> HIDE DEF x
<1>7. CASE a \in Raised /\ alert'[a] = alert[a]
      BY <1>4, <1>7
<1> QED  BY <1>1, <1>5, <1>6, <1>7

LEMMA CommitLinks ==
    ASSUME TypeInv, NEW h, Commits(h), Linked, "link" \notin Doubles(h)
    PROVE  Linked'
<1> SUFFICES ASSUME NEW l \in links' PROVE alert'[l[2]].incident = l[1]
    BY DEF Linked
<1>1. /\ GrownAlerts(alert, alert') /\ AlertPart(h, inc, alert)
      /\ \A a \in Alerts : alert'[a] # None <=> alert[a] # None \/ a \in Inserted(h.alerts)
      BY CommitGrows
<1>2. CASE l \in links
      <2> DEFINE a == l[2]
                 x == h.alerts[a]
      <2>1. /\ a \in Raised /\ a \in Alerts /\ alert[a] # None /\ alert[a].incident = l[1] /\ l[1] # None
            BY <1>2, Nones DEF TypeInv, RowsInv, Linked, Raised, Born
      <2>2. a \in Raised'  BY <1>1, <2>1 DEF Raised
      <2> HIDE DEF a
      <2>3. \/ a \in Inserted(h.alerts) /\ InsertedAlert(h, a, inc, alert)
            \/ alert'[a] = alert[a]
            \/ /\ a \in DOMAIN h.alerts /\ a \notin Inserted(h.alerts) /\ EditedAlert(h, a, inc, alert)
               /\ alert'[a].incident = IF x.new.incident # x.seen.incident THEN x.new.incident
                                       ELSE alert[a].incident
            BY <2>2, AlertAfter
      <2>4. ~InsertedAlert(h, a, inc, alert)  BY <2>1 DEF InsertedAlert
      <2>5. ASSUME a \in DOMAIN h.alerts, a \notin Inserted(h.alerts), EditedAlert(h, a, inc, alert)
            PROVE  x.new.incident = x.seen.incident
            <3>1. h.link = {}  BY <2>1, <2>5 DEF Doubles
            <3> QED  BY <2>5, <3>1 DEF EditedAlert, Filed
      <2>6. alert'[a].incident = alert[a].incident  BY <2>3, <2>4, <2>5
      <2> QED  BY <2>1, <2>6 DEF a
<1>3. CASE l \in h.link
      <2>1. PICK a \in DOMAIN h.alerts : a \in Alerts /\ l = <<h.alerts[a].new.incident, a>> /\ Filed(h, a, inc)
            BY <1>1, <1>3, LinkOf
      <2> DEFINE x == h.alerts[a]
      <2>2. InsertedAlert(h, a, inc, alert) \/ EditedAlert(h, a, inc, alert)  BY <1>1 DEF AlertPart
      <2>3. a \in Inserted(h.alerts) \/ alert[a] # None
            BY <2>2 DEF InsertedAlert, EditedAlert, Inserted
      <2>4. a \in Raised'  BY <1>1, <2>1, <2>3 DEF Raised
      <2>5. \/ alert'[a] = x.new
            \/ /\ EditedAlert(h, a, inc, alert)
               /\ alert'[a].incident = IF x.new.incident # x.seen.incident THEN x.new.incident
                                       ELSE alert[a].incident
            BY <2>1, <2>4, AlertAfter
      <2>6. x.new.incident \in Incidents /\ h.link # {}  BY <1>3, <2>1 DEF Filed
      <2>7. EditedAlert(h, a, inc, alert) => x.seen.incident = None  BY <2>6 DEF EditedAlert
      <2>8. x.new.incident # None  BY <2>6, Nones
      <2>9. alert'[a].incident = x.new.incident  BY <2>5, <2>7, <2>8
      <2> QED  BY <2>1, <2>9
<1> QED  BY <1>2, <1>3 DEF Commits

LEMMA CommitKeys ==
    ASSUME TypeInv, NEW h, Commits(h), Counted, "incident" \notin Doubles(h)
    PROVE  Counted'
<1>1. /\ Grown(inc, inc') /\ EditsPart(h.incs, inc, clock) /\ IncidentPart(h.incs, inc, clock)
      /\ \A i \in Incidents : inc'[i] # None <=> inc[i] # None \/ i \in Inserted(h.incs)
      /\ inc' = After(inc, h.incs)
      BY CommitGrows DEF Commits
<1>2. \A i \in Born : inc'[i].key = inc[i].key  BY <1>1 DEF Grown, Born
<1>3. Inserted(h.incs) \subseteq Incidents /\ \A i, j \in Inserted(h.incs) : i = j
      BY <1>1 DEF IncidentPart, Inserted
<1>4. Born' = Born \cup Inserted(h.incs)  BY <1>1, <1>3 DEF Born
<1>5. CASE Inserted(h.incs) = {}
      <2>1. Born' = Born  BY <1>4, <1>5
      <2> QED  BY <1>2, <2>1 DEF Counted
<1>6. CASE Inserted(h.incs) # {}
      <2>1. PICK i \in Inserted(h.incs) : TRUE  BY <1>6
      <2>2. /\ inc \in [Incidents -> IncidentRow \cup {None}] /\ clock \in Nat /\ i \in Incidents
            /\ \A j \in Incidents : inc[j] # None => Timed(inc[j], clock) /\ Levelled(inc[j])
            BY <1>3 DEF TypeInv, RowsInv, Born
      <2>3. After(inc, h.incs)[i] = h.incs[i].new /\ inc[i] = None  BY <1>1, <2>2, AfterRow
      <2>4. inc'[i].key = Cardinality(Born) + 1  BY <1>1, <2>3 DEF Doubles
      <2>5. Born' = Born \cup {i} /\ i \notin Born  BY <1>3, <1>4, <2>3 DEF Born
      <2>6. IsFiniteSet(Born) /\ Cardinality(Born) \in Nat  BY BornFinite
      <2>7. Cardinality(Born \cup {i}) = Cardinality(Born) + 1  BY <2>5, <2>6, FS_AddElement
      <2>8. Cardinality(Born') = Cardinality(Born) + 1  BY <2>5, <2>7
      <2>9. \A j \in Born : inc'[j].key \in 1..Cardinality(Born)  BY <1>2 DEF Counted
      <2>10. \A j \in Born' : inc'[j].key \in 1..(Cardinality(Born) + 1)
            BY <2>4, <2>5, <2>6, <2>9
      <2>11. \A j, k \in Born : j # k => inc'[j].key # inc'[k].key  BY <1>2 DEF Counted
      <2>12. \A j \in Born : inc'[j].key # inc'[i].key  BY <2>4, <2>6, <2>9
      <2>13. \A j, k \in Born' : j # k => inc'[j].key # inc'[k].key  BY <2>5, <2>11, <2>12
      <2> QED  BY <2>8, <2>10, <2>13 DEF Counted
<1> QED  BY <1>5, <1>6

LEMMA CommitFiling ==
    ASSUME TypeInv, FilingInv, NEW h, Commits(h)
    PROVE  FilingInv'
<1>1. doubled' = doubled \cup Doubles(h) /\ (reopened => reopened')  BY DEF Commits
<1>2. "alert" \notin doubled' /\ ~reopened' => OneOpen'  BY <1>1, CommitOpen DEF FilingInv
<1>3. InScope' /\ HighHaveOne'  BY CommitFiles DEF FilingInv
<1>4. "link" \notin doubled' => Linked'  BY <1>1, CommitLinks DEF FilingInv
<1>5. "incident" \notin doubled' => Counted'  BY <1>1, CommitKeys DEF FilingInv
<1> QED  BY <1>2, <1>3, <1>4, <1>5 DEF FilingInv

LEMMA FilingQuiet ==
    ASSUME FilingInv, inc' = inc, alert' = alert, links' = links, doubled' = doubled, reopened' = reopened
    PROVE  FilingInv'
BY DEF FilingInv, OneOpen, InScope, HighHaveOne, Linked, Counted, Born, Raised

LEMMA SweepFiling ==
    ASSUME TypeInv, FilingInv, NEW p \in Replicas, EndSweep(p)
    PROVE  FilingInv'
<1>1. Grown(inc, inc') /\ \A i \in Incidents : inc'[i] # None <=> inc[i] # None  BY SweepRows
<1>2. alert' = alert /\ links' = links /\ doubled' = doubled /\ reopened' = reopened  BY DEF EndSweep
<1>3. Born' = Born /\ Raised' = Raised  BY <1>1, <1>2 DEF Born, Raised
<1>4. \A i \in Born : inc'[i].key = inc[i].key /\ inc'[i].scope = inc[i].scope  BY <1>1 DEF Grown, Born
<1>5. InScope'
      <2>1. \A a \in Raised : alert[a].incident \in Born \cup {None}  BY DEF TypeInv, RowsInv
      <2> QED  BY <1>2, <1>3, <1>4, <2>1 DEF FilingInv, InScope
<1>6. Counted => Counted'  BY <1>3, <1>4 DEF Counted
<1>7. (OneOpen => OneOpen') /\ (HighHaveOne => HighHaveOne') /\ (Linked => Linked')
      BY <1>2, <1>3 DEF OneOpen, HighHaveOne, Linked
<1> QED  BY <1>2, <1>5, <1>6, <1>7 DEF FilingInv

LEMMA FilingStep == TypeInv /\ FilingInv /\ [Next]_vars => FilingInv'
<1> SUFFICES ASSUME TypeInv, FilingInv, [Next]_vars PROVE FilingInv'  OBVIOUS
<1>1. CASE UNCHANGED vars  BY <1>1, FilingQuiet DEF vars
<1>2. CASE \E h : Begins(h)  BY <1>2, FilingQuiet DEF Begins, rows, history
<1>3. CASE \E h : Commits(h)  BY <1>3, CommitFiling
<1>4. CASE Settles  BY <1>4, FilingQuiet DEF Settles, Fail, SwitchMode, Tick, rows, history
<1>5. ASSUME NEW p \in Replicas, Elects(p) \/ BeginSweep(p) \/ FailSweep(p) PROVE FilingInv'
      BY <1>5, FilingQuiet DEF Elects, Round, Disconnect, Restart, BeginSweep, FailSweep, rows, history
<1>6. CASE \E p \in Replicas : EndSweep(p)  BY <1>6, SweepFiling
<1> QED  BY <1>1, <1>2, <1>3, <1>4, <1>5, <1>6, Steps

LEMMA FilingHolds == FilingInv => AlertsFiled
<1> SUFFICES ASSUME FilingInv PROVE AlertsFiled  OBVIOUS
<1>1. \A a, b \in Raised :
          /\ a # b /\ alert[a].key = alert[b].key /\ alert[a].scope = alert[b].scope
          /\ alert[a].status = "open" /\ alert[b].status = "open"
          => "alert" \in doubled \/ reopened
      BY DEF FilingInv, OneOpen
<1>2. \A a \in Raised :
          /\ alert[a].incident # None => inc[alert[a].incident].scope = alert[a].scope
          /\ Rank(alert[a].raised) >= 3 => alert[a].incident # None
          /\ \A l \in links : l[2] = a /\ "link" \notin doubled => alert[a].incident = l[1]
      BY DEF FilingInv, InScope, HighHaveOne, Linked
<1>3. \A i, j \in Born : i # j /\ inc[i].key = inc[j].key => "incident" \in doubled
      BY DEF FilingInv, Counted
<1> QED  BY <1>1, <1>2, <1>3 DEF AlertsFiled

\* Alerts are filed under incidents of their scope, high ones always, and only
\* handlers that overlapped insert an alert, a link or a key twice: what a
\* handler finds at its commit is what it found when it looked.
THEOREM FilingKept == Spec => []AlertsFiled
<1>1. Init => FilingInv
      <2> SUFFICES ASSUME Init PROVE FilingInv  OBVIOUS
      <2>1. Born = {} /\ Raised = {} /\ links = {}  BY DEF Init, Born, Raised
      <2> QED  BY <2>1 DEF FilingInv, OneOpen, InScope, HighHaveOne, Linked, Counted
<1> QED  BY <1>1, Typed, FilingStep, FilingHolds, PTL DEF Spec
=============================================================================
