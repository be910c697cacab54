------------------------ MODULE AuditAndAgentProofs -------------------------
(***************************************************************************)
(* Proofs about AuditChain, for any set of requests, processes and budgets *)
(* and for both databases, and, in the second half, about AgentRuns, for   *)
(* any agents, plans, routes, policies, providers, limits and requests.    *)
(* The two components share no state and no name.                          *)
(***************************************************************************)
EXTENDS AuditChain, AgentRuns, FiniteSetTheorems, SequenceTheorems, WellFoundedInduction, TLAPS

\* The numbers of f are 1..n.
Dense(f) == \E n \in Nat : DOMAIN f = 1..n

Good(f) == Dense(f) /\ Chained(f)

\* The transaction-long lock of the database in use.
Held(t) == IF dialect = "postgresql" THEN xactLock = t ELSE writer = t

\* What t read last is still a row it sees.
Seen(t) ==
    \/ last[t] = NoRow
    \/ last[t].seq \in DOMAIN Visible(t) /\ Visible(t)[last[t].seq] = last[t]

(***************************************************************************)
(* The inductive invariant.  The unique index keeps the chain whole; the   *)
(* advisory lock makes what was read inside record() current until the     *)
(* INSERT, so that the index never has to refuse.                          *)
(***************************************************************************)
RequestInv(t) ==
    /\ DOMAIN pending[t] # {} => Held(t)
    /\ DOMAIN pending[t] \cap DOMAIN table = {}
    /\ Good(Visible(t))
    /\ pc[t] = "inserting" => Seen(t)
    /\ dialect = "postgresql" =>
          /\ pc[t] # "failed"
          /\ pc[t] \in {"reading", "inserting"} => xactLock = t
          /\ pc[t] = "inserting" => last[t].seq + 1 \notin DOMAIN Visible(t)

IInv == TypeOK /\ Good(table) /\ \A t \in Txs : RequestInv(t)

-----------------------------------------------------------------------------
(* Facts about tables.                                                     *)

\* Density and links are properties of the rows alone.
LEMMA GoodPointwise ==
    ASSUME NEW f, NEW g, DOMAIN g = DOMAIN f,
           \A s \in DOMAIN f : g[s] = f[s], Good(f), DOMAIN f \subseteq Nat \ {0}
    PROVE  Good(g)
<1>1. Dense(g)
  BY DEF Good, Dense
<1>2. Chained(g)
  <2> SUFFICES ASSUME NEW s \in DOMAIN g
               PROVE  /\ s > 1 => s - 1 \in DOMAIN g
                      /\ g[s].prev = IF s = 1 THEN None ELSE g[s - 1].hash
                      /\ g[s].hash = Sign(s, g[s].body, g[s].prev)
    BY DEF Chained
  <2>1. /\ s > 1 => s - 1 \in DOMAIN f
        /\ f[s].prev = IF s = 1 THEN None ELSE f[s - 1].hash
        /\ f[s].hash = Sign(s, f[s].body, f[s].prev)
    BY DEF Good, Chained
  <2>2. s = 1 \/ s > 1
    OBVIOUS
  <2> QED BY <2>1, <2>2
<1> QED BY <1>1, <1>2 DEF Good

\* A row numbered after, and linked to, the row with number k extends a table.
LEMMA Extend ==
    ASSUME NEW f, Good(f), DOMAIN f \subseteq Nat \ {0},
           NEW k \in Nat, NEW b, NEW h, NEW g,
           k + 1 \notin DOMAIN f,
           \/ k = 0 /\ h = None
           \/ k \in DOMAIN f /\ f[k].hash = h,
           DOMAIN g = DOMAIN f \cup {k + 1},
           \A s \in DOMAIN f : g[s] = f[s],
           g[k + 1] = Row(k + 1, b, h)
    PROVE  Good(g)
<1>1. PICK n \in Nat : DOMAIN f = 1..n
  BY DEF Good, Dense
<1>2. k = n
  BY <1>1
<1>3. DOMAIN g = 1..(n + 1)
  BY <1>1, <1>2
<1>4. Dense(g)
  BY <1>3 DEF Dense
<1>5. ASSUME NEW s \in DOMAIN g
      PROVE  /\ s > 1 => s - 1 \in DOMAIN g
             /\ g[s].prev = IF s = 1 THEN None ELSE g[s - 1].hash
             /\ g[s].hash = Sign(s, g[s].body, g[s].prev)
  <2>1. CASE s = k + 1
    <3>1. g[s].prev = h /\ g[s].hash = Sign(s, g[s].body, g[s].prev)
      BY <2>1 DEF Row
    <3>2. CASE k = 0
      BY <2>1, <3>1, <3>2, <1>1
    <3>3. CASE k # 0
      BY <2>1, <3>1, <3>3, <1>1, <1>2, <1>3
    <3> QED BY <3>2, <3>3
  <2>2. CASE s \in DOMAIN f
    <3>1. /\ s > 1 => s - 1 \in DOMAIN f
          /\ f[s].prev = IF s = 1 THEN None ELSE f[s - 1].hash
          /\ f[s].hash = Sign(s, f[s].body, f[s].prev)
      BY <2>2 DEF Good, Chained
    <3>2. s = 1 \/ s > 1
      BY <2>2
    <3> QED BY <2>2, <3>1, <3>2
  <2> QED BY <2>1, <2>2
<1> QED BY <1>4, <1>5 DEF Good, Chained

\* The newest row of a dense table is its last one.
LEMMA NewestOfDense ==
    ASSUME NEW f, Dense(f), DOMAIN f # {}
    PROVE  \E n \in DOMAIN f : Newest(f) = f[n] /\ n \in Nat /\ n + 1 \notin DOMAIN f
<1>1. PICK n \in Nat : DOMAIN f = 1..n
  BY DEF Dense
<1>2. n \in DOMAIN f /\ \A r \in DOMAIN f : r <= n
  BY <1>1
<1> DEFINE m == CHOOSE s \in DOMAIN f : \A r \in DOMAIN f : r <= s
<1>3. m \in DOMAIN f /\ \A r \in DOMAIN f : r <= m
  BY <1>2
<1>4. m = n
  BY <1>1, <1>2, <1>3
<1> QED BY <1>1, <1>2, <1>4 DEF Newest

-----------------------------------------------------------------------------
(* Type correctness of the walk-free part, and the inductive invariant.    *)

LEMMA NoRowIsRow == IsRow(NoRow)
BY DEF IsRow, NoRow

LEMMA InitInv == Init => IInv
<1> SUFFICES ASSUME Init PROVE IInv
  OBVIOUS
<1> USE AuditAssumption
<1>1. DOMAIN Empty = {}
  BY DEF Empty
<1>2. TypeOK
  BY <1>1, NoRowIsRow DEF Init, TypeOK, PcValues
<1>3. Good(Empty)
  <2>1. DOMAIN Empty = 1..0
    BY <1>1
  <2> QED BY <1>1, <2>1 DEF Good, Dense, Chained
<1>4. ASSUME NEW t \in Txs PROVE RequestInv(t)
  <2>1. DOMAIN Visible(t) = DOMAIN Empty
    BY <1>1 DEF Init, Visible, Together
  <2>2. Good(Visible(t))
    BY <2>1, <1>1, <1>3, GoodPointwise
  <2> QED BY <1>1, <2>2 DEF Init, RequestInv
<1> QED BY <1>2, <1>3, <1>4 DEF IInv, Init

\* What t's insert adds, when the unique index lets it through.
LEMMA InsertedRow ==
    ASSUME IInv, NEW t \in Txs, Insert(t)
    PROVE  /\ IsRow(NextRow(t)) /\ NextRow(t).seq = last[t].seq + 1
           /\ last[t].seq \in Nat
           /\ last[t].seq + 1 \notin DOMAIN Visible(t)
           /\ pending' = [pending EXCEPT ![t] = pending'[t]]
           /\ DOMAIN pending'[t] = DOMAIN pending[t] \cup {last[t].seq + 1}
           /\ pending'[t][last[t].seq + 1] = NextRow(t)
           /\ \A s \in DOMAIN pending[t] : pending'[t][s] = pending[t][s]
<1> USE AuditAssumption DEF IInv
<1>1. last[t].seq \in Nat
  BY DEF TypeOK, IsRow
<1>2. NextRow(t).seq = last[t].seq + 1
  BY DEF NextRow, Row
<1>3. last[t].seq + 1 \notin DOMAIN Visible(t)
  BY <1>2 DEF Insert, Taken
<1>4. last[t].seq + 1 \notin DOMAIN pending[t]
  BY <1>3 DEF Visible, Together
<1> DEFINE one == [s \in {NextRow(t).seq} |-> NextRow(t)]
<1>5. pending' = [pending EXCEPT ![t] = Together(pending[t], one)]
  BY DEF Insert
<1>6. pending'[t] = Together(pending[t], one)
  BY <1>5 DEF TypeOK
<1>7. /\ DOMAIN pending'[t] = DOMAIN pending[t] \cup {last[t].seq + 1}
      /\ pending'[t][last[t].seq + 1] = NextRow(t)
      /\ \A s \in DOMAIN pending[t] : pending'[t][s] = pending[t][s]
  BY <1>2, <1>4, <1>6 DEF Together
<1>8. Cardinality(DOMAIN pending[t]) + 1 \in Nat
  <2>1. PICK n \in Nat : DOMAIN Visible(t) = 1..n
    BY DEF RequestInv, Good, Dense
  <2>2. DOMAIN pending[t] \subseteq 1..n
    BY <2>1 DEF Visible, Together
  <2>3. IsFiniteSet(1..n)
    BY FS_Interval
  <2>4. IsFiniteSet(DOMAIN pending[t])
    BY <2>2, <2>3, FS_Subset
  <2> QED BY <2>4, FS_CardinalityType
<1>9. IsRow(NextRow(t))
  BY <1>1, <1>8 DEF NextRow, Row, IsRow
<1> QED BY <1>1, <1>2, <1>3, <1>5, <1>6, <1>7, <1>9

LEMMA TypeStep == IInv /\ [Next]_vars => TypeOK'
<1> SUFFICES ASSUME IInv, [Next]_vars PROVE TypeOK'
  OBVIOUS
<1> USE AuditAssumption
<1>0. TypeOK
  BY DEF IInv
<1>1. \A t \in Txs : Home(t) \in Procs
  BY DEF Home
<1>2. DOMAIN Empty = {}
  BY DEF Empty
<1>3. ASSUME NEW t \in Txs, FlushOther(t) PROVE TypeOK'
  BY <1>0, <1>3 DEF FlushOther, TypeOK
<1>4. ASSUME NEW t \in Txs, CallRecord(t) PROVE TypeOK'
  BY <1>0, <1>4 DEF CallRecord, TypeOK, PcValues, locks
<1>5. ASSUME NEW t \in Txs, EnterRecord(t) PROVE TypeOK'
  BY <1>0, <1>1, <1>5 DEF EnterRecord, TypeOK, PcValues
<1>6. ASSUME NEW t \in Txs, TakeXactLock(t) PROVE TypeOK'
  BY <1>0, <1>6 DEF TakeXactLock, TypeOK, PcValues
<1>7. ASSUME NEW t \in Txs, ReadLast(t) PROVE TypeOK'
  <2>1. IsRow(Newest(Visible(t)))
    <3>1. CASE DOMAIN Visible(t) = {}
      BY <3>1, NoRowIsRow DEF Newest
    <3>2. CASE DOMAIN Visible(t) # {}
      <4>1. PICK n \in DOMAIN Visible(t) : Newest(Visible(t)) = Visible(t)[n]
        BY <3>2, NewestOfDense DEF IInv, RequestInv, Good
      <4>2. IsRow(Visible(t)[n])
        BY <1>0, <4>1 DEF TypeOK, Visible, Together
      <4> QED BY <4>1, <4>2
    <3> QED BY <3>1, <3>2
  <2> QED BY <1>0, <1>7, <2>1 DEF ReadLast, TypeOK, PcValues, locks
<1>8. ASSUME NEW t \in Txs, Insert(t) PROVE TypeOK'
  <2>1. \A u \in Txs : /\ DOMAIN pending'[u] \subseteq Nat \ {0}
                      /\ \A s \in DOMAIN pending'[u] :
                            IsRow(pending'[u][s]) /\ pending'[u][s].seq = s
    BY <1>0, <1>8, InsertedRow DEF TypeOK
  <2>2. DOMAIN pending' = Txs
    BY <1>0, <1>8 DEF Insert, TypeOK
  <2> QED BY <1>0, <1>1, <1>8, <2>1, <2>2 DEF Insert, TypeOK, PcValues
<1>9. ASSUME NEW t \in Txs, InsertFails(t) PROVE TypeOK'
  BY <1>0, <1>1, <1>9 DEF InsertFails, TypeOK, PcValues
<1>10. ASSUME NEW t \in Txs, Commit(t) PROVE TypeOK'
  <2>1. /\ DOMAIN table' \subseteq Nat \ {0}
        /\ \A s \in DOMAIN table' : IsRow(table'[s]) /\ table'[s].seq = s
    BY <1>0, <1>10 DEF Commit, TypeOK, Visible, Together
  <2>2. xactLock' \in Txs \cup {None} /\ writer' \in Txs \cup {None}
    BY <1>0, <1>10 DEF Commit, Release, TypeOK
  <2> QED BY <1>0, <1>2, <1>10, <2>1, <2>2 DEF Commit, TypeOK, PcValues
<1>11. ASSUME NEW t \in Txs, Rollback(t) PROVE TypeOK'
  <2>2. xactLock' \in Txs \cup {None} /\ writer' \in Txs \cup {None}
    BY <1>0, <1>11 DEF Rollback, Release, TypeOK
  <2> QED BY <1>0, <1>2, <1>11, <2>2 DEF Rollback, TypeOK, PcValues
<1>12. ASSUME NEW p \in Procs, Crash(p) PROVE TypeOK'
  BY <1>0, <1>2, <1>12 DEF Crash, TypeOK, PcValues
<1>13. CASE VerifyPage \/ VerifyEnd
  BY <1>0, <1>13 DEF VerifyPage, VerifyEnd, TypeOK, locks
<1>14. CASE UNCHANGED vars
  BY <1>0, <1>14 DEF vars, locks, TypeOK
<1> QED BY <1>3, <1>4, <1>5, <1>6, <1>7, <1>8, <1>9, <1>10, <1>11, <1>12, <1>13, <1>14
       DEF Next, RequestStep

\* Only the holder of the transaction-long lock has uncommitted rows.
LEMMA OneHolder ==
    ASSUME IInv, NEW t \in Txs, DOMAIN pending[t] # {},
           NEW u \in Txs, u # t
    PROVE  DOMAIN pending[u] = {}
BY DEF IInv, RequestInv, Held

\* A step that leaves u's view, its lock and what it read alone, and does not
\* move u past a lock, keeps u's part of the invariant.
LEMMA RequestFrame ==
    ASSUME IInv, NEW u \in Txs,
           UNCHANGED <<dialect, table>>,
           pending'[u] = pending[u], last'[u] = last[u],
           Held(u) => Held(u)',
           xactLock = u => xactLock' = u,
           \/ pc'[u] = pc[u]
           \/ pc'[u] \in {"open", "waiting", "locking", "done"}
           \/ dialect = "sqlite" /\ pc'[u] \in {"reading", "failed"}
    PROVE  RequestInv(u)'
<1>1. RequestInv(u)
  BY DEF IInv
<1>2. Visible(u)' = Visible(u)
  BY DEF Visible
<1>3. Good(Visible(u))'
  BY <1>1, <1>2 DEF RequestInv, Good, Dense, Chained
<1>4. pc'[u] = "inserting" => Seen(u)'
  <2>1. pc'[u] = "inserting" => pc[u] = "inserting"
    OBVIOUS
  <2> QED BY <2>1, <1>1, <1>2 DEF RequestInv, Seen
<1> QED BY <1>1, <1>2, <1>3, <1>4 DEF RequestInv

LEMMA RequestStepInv == IInv /\ [Next]_vars => (\A u \in Txs : RequestInv(u))'
<1> SUFFICES ASSUME IInv, [Next]_vars, NEW u \in Txs PROVE RequestInv(u)'
  OBVIOUS
<1> USE AuditAssumption
<1>0. TypeOK /\ RequestInv(u)
  BY DEF IInv
<1>2. DOMAIN Empty = {}
  BY DEF Empty
<1>3. ASSUME NEW t \in Txs, FlushOther(t) PROVE RequestInv(u)'
  BY <1>0, <1>3, RequestFrame DEF FlushOther, Held
<1>4. ASSUME NEW t \in Txs, CallRecord(t) PROVE RequestInv(u)'
  BY <1>0, <1>4, RequestFrame DEF CallRecord, Held, locks, TypeOK
<1>5. ASSUME NEW t \in Txs, EnterRecord(t) PROVE RequestInv(u)'
  BY <1>0, <1>5, RequestFrame DEF EnterRecord, Held, TypeOK
<1>6. ASSUME NEW t \in Txs, TakeXactLock(t) PROVE RequestInv(u)'
  <2>1. CASE u # t
    <3>1. Held(u) => Held(u)'
      BY <2>1, <1>6 DEF TakeXactLock, Held
    <3> QED BY <2>1, <3>1, <1>0, <1>6, RequestFrame DEF TakeXactLock, TypeOK
  <2>2. CASE u = t
    <3>1. Held(u) => Held(u)'
      BY <2>2, <1>6 DEF TakeXactLock, Held
    <3>2. pc' = [pc EXCEPT ![t] = "reading"] /\ pc'[u] = "reading"
      BY <2>2, <1>0, <1>6 DEF TakeXactLock, TypeOK
    <3>3. Visible(u)' = Visible(u)
      BY <1>6 DEF TakeXactLock, Visible
    <3>4. Good(Visible(u))'
      BY <1>0, <3>3 DEF RequestInv, Good, Dense, Chained
    <3> QED BY <1>0, <1>6, <2>2, <3>1, <3>2, <3>4 DEF TakeXactLock, RequestInv
  <2> QED BY <2>1, <2>2
<1>7. ASSUME NEW t \in Txs, ReadLast(t) PROVE RequestInv(u)'
  <2>1. CASE u # t
    BY <2>1, <1>0, <1>7, RequestFrame DEF ReadLast, Held, locks, TypeOK
  <2>2. CASE u = t
    <3>1. last'[u] = Newest(Visible(u)) /\ pc'[u] = "inserting" /\ pc[u] = "reading"
      BY <2>2, <1>0, <1>7 DEF ReadLast, TypeOK
    <3>2. Visible(u)' = Visible(u)
      BY <1>7 DEF ReadLast, Visible
    <3>3. Good(Visible(u))'
      BY <1>0, <3>2 DEF RequestInv, Good, Dense, Chained
    <3>4. Seen(u)' /\ last'[u].seq + 1 \notin DOMAIN Visible(u)'
      <4>1. CASE DOMAIN Visible(u) = {}
        BY <4>1, <3>1, <3>2 DEF Newest, Seen, NoRow
      <4>2. CASE DOMAIN Visible(u) # {}
        <5>1. PICK n \in DOMAIN Visible(u) :
                 /\ Newest(Visible(u)) = Visible(u)[n]
                 /\ n \in Nat /\ n + 1 \notin DOMAIN Visible(u)
          BY <4>2, <1>0, NewestOfDense DEF RequestInv, Good
        <5>2. Visible(u)[n].seq = n
          BY <5>1, <1>0 DEF TypeOK, Visible, Together
        <5> QED BY <5>1, <5>2, <3>1, <3>2 DEF Seen
      <4> QED BY <4>1, <4>2
    <3>5. Held(u)' = Held(u)
      BY <1>7 DEF ReadLast, Held, locks
    <3>6. UNCHANGED <<dialect, table, pending, xactLock>>
      BY <1>7 DEF ReadLast, locks
    <3> QED BY <1>0, <3>1, <3>2, <3>3, <3>4, <3>5, <3>6 DEF RequestInv
  <2> QED BY <2>1, <2>2
<1>8. ASSUME NEW t \in Txs, Insert(t) PROVE RequestInv(u)'
  <2>1. CASE u # t
    <3>1. Held(u) => Held(u)'
      BY <2>1, <1>8 DEF Insert, MayInsert, Held
    <3> QED BY <2>1, <3>1, <1>0, <1>8, RequestFrame DEF Insert, TypeOK
  <2>2. CASE u = t
    <3> DEFINE k == last[t].seq
    <3>1. /\ k \in Nat /\ k + 1 \notin DOMAIN Visible(t)
          /\ DOMAIN pending'[t] = DOMAIN pending[t] \cup {k + 1}
          /\ pending'[t][k + 1] = NextRow(t)
          /\ \A s \in DOMAIN pending[t] : pending'[t][s] = pending[t][s]
      BY <1>8, InsertedRow
    <3>2. UNCHANGED <<dialect, table, xactLock, last>> /\ pc'[t] = "open"
      BY <1>0, <1>8 DEF Insert, TypeOK
    <3>3. /\ DOMAIN Visible(t)' = DOMAIN Visible(t) \cup {k + 1}
          /\ Visible(t)'[k + 1] = NextRow(t)
          /\ \A s \in DOMAIN Visible(t) : Visible(t)'[s] = Visible(t)[s]
      BY <3>1, <3>2 DEF Visible, Together
    <3>4. Seen(t) /\ Good(Visible(t))
      BY <2>2, <1>0, <1>8 DEF Insert, RequestInv
    <3>5. \/ k = 0 /\ last[t].hash = None
          \/ k \in DOMAIN Visible(t) /\ Visible(t)[k].hash = last[t].hash
      BY <3>4 DEF Seen, NoRow
    <3>6. DOMAIN Visible(t) \subseteq Nat \ {0}
      BY <1>0 DEF TypeOK, Visible, Together
    <3>7. Good(Visible(t)')
      <4> DEFINE f == Visible(t)
                 g == Visible(t)'
                 b == <<t, Cardinality(DOMAIN pending[t]) + 1>>
                 h == last[t].hash
      <4>1. g[k + 1] = Row(k + 1, b, h)
        BY <3>3 DEF NextRow
      <4>2. Good(f) /\ DOMAIN f \subseteq Nat \ {0}
        BY <3>4, <3>6
      <4>3. /\ k + 1 \notin DOMAIN f
              /\ \/ k = 0 /\ h = None
                 \/ k \in DOMAIN f /\ f[k].hash = h
        BY <3>1, <3>5
      <4>4. DOMAIN g = DOMAIN f \cup {k + 1} /\ \A s \in DOMAIN f : g[s] = f[s]
        BY <3>3
      <4>5. k \in Nat
        BY <3>1
      <4> HIDE DEF f, g, b, h, k
      <4>6. Good(g)
        BY <4>1, <4>2, <4>3, <4>4, <4>5, Extend
      <4> QED BY <4>6 DEF g
    <3>8. Good(Visible(t))'
      BY <3>7 DEF Good, Dense, Chained
    <3>9. Held(t)'
      BY <2>2, <1>0, <1>8 DEF Insert, Held, RequestInv, TypeOK
    <3>10. DOMAIN pending'[t] \cap DOMAIN table = {}
      BY <2>2, <1>0, <3>1 DEF RequestInv, Visible, Together
    <3> QED BY <2>2, <3>2, <3>8, <3>9, <3>10 DEF RequestInv
  <2> QED BY <2>1, <2>2
<1>9. ASSUME NEW t \in Txs, InsertFails(t) PROVE RequestInv(u)'
  <2>1. dialect = "sqlite"
    <3>1. CASE MayInsert(t) /\ Taken(t)
      <4>1. NextRow(t).seq = last[t].seq + 1
        BY DEF NextRow, Row
      <4> QED BY <4>1, <3>1, <1>0, <1>9 DEF InsertFails, Taken, IInv, RequestInv, TypeOK
    <3> QED BY <3>1, <1>9 DEF InsertFails
  <2> QED BY <2>1, <1>0, <1>9, RequestFrame DEF InsertFails, Held, TypeOK
<1>10. ASSUME NEW t \in Txs, Commit(t) PROVE RequestInv(u)'
  <2>1. /\ DOMAIN Visible(u)' = DOMAIN Visible(t)
        /\ \A s \in DOMAIN Visible(t) : Visible(u)'[s] = Visible(t)[s]
        /\ DOMAIN pending'[u] = {}
    <3>1. u # t => DOMAIN pending[u] = {}
      BY <1>10, OneHolder DEF Commit
    <3>2. DOMAIN pending'[u] = {}
      BY <3>1, <1>0, <1>2, <1>10 DEF Commit, TypeOK
    <3>3. table' = Visible(t)
      BY <1>10 DEF Commit
    <3> QED BY <3>2, <3>3 DEF Visible, Together
  <2>2. RequestInv(t)
    BY DEF IInv
  <2>3. DOMAIN Visible(t) \subseteq Nat \ {0}
    BY <1>0 DEF TypeOK, Visible, Together
  <2>4. Good(Visible(u)')
    BY <2>1, <2>2, <2>3, GoodPointwise DEF RequestInv
  <2>5. Good(Visible(u))'
    BY <2>4 DEF Good, Dense, Chained
  <2>6. CASE u = t
    BY <2>1, <2>5, <2>6, <1>0, <1>10 DEF Commit, RequestInv, TypeOK
  <2>7. CASE u # t
    <3>1. pc'[u] = pc[u] /\ last'[u] = last[u] /\ dialect' = dialect
      BY <2>7, <1>0, <1>10 DEF Commit, TypeOK
    <3>2. Held(t) /\ DOMAIN pending[u] = {}
      BY <2>7, <2>2, <1>10, OneHolder DEF Commit, RequestInv
    <3>3. dialect = "postgresql" => pc[u] \notin {"reading", "inserting"}
      BY <2>7, <3>2, <1>0 DEF Held, RequestInv
    <3>4. Seen(u) => Seen(u)'
      <4>1. \A s \in DOMAIN Visible(u) : s \in DOMAIN Visible(t) /\ Visible(t)[s] = Visible(u)[s]
        BY <3>2, <2>2 DEF Visible, Together, RequestInv
      <4> QED BY <4>1, <3>1, <2>1 DEF Seen
    <3> QED BY <2>1, <2>5, <3>1, <3>3, <3>4, <1>0 DEF RequestInv
  <2> QED BY <2>6, <2>7
<1>11. ASSUME NEW t \in Txs, Rollback(t) PROVE RequestInv(u)'
  <2>1. CASE u # t
    <3>1. Held(u) => Held(u)'
      BY <2>1, <1>11 DEF Rollback, Release, Held
    <3>2. xactLock = u => xactLock' = u
      BY <2>1, <1>11 DEF Rollback, Release
    <3> QED BY <2>1, <3>1, <3>2, <1>0, <1>11, RequestFrame DEF Rollback, TypeOK
  <2>2. CASE u = t
    <3>1. DOMAIN pending'[u] = {} /\ pc'[u] = "done" /\ table' = table
      BY <2>2, <1>0, <1>2, <1>11 DEF Rollback, TypeOK
    <3>2. DOMAIN Visible(u)' = DOMAIN table /\ \A s \in DOMAIN table : Visible(u)'[s] = table[s]
      BY <3>1 DEF Visible, Together
    <3>3. Good(Visible(u)')
      BY <3>2, <1>0, GoodPointwise DEF IInv, TypeOK
    <3>4. Good(Visible(u))'
      BY <3>3 DEF Good, Dense, Chained
    <3> QED BY <3>1, <3>4 DEF RequestInv
  <2> QED BY <2>1, <2>2
<1>12. ASSUME NEW p \in Procs, Crash(p) PROVE RequestInv(u)'
  <2> DEFINE lost == {t \in Txs : Home(t) = p /\ pc[t] # "done"}
  <2>1. CASE u \notin lost
    <3>1. Held(u) => Held(u)'
      BY <2>1, <1>12 DEF Crash, Held
    <3>2. xactLock = u => xactLock' = u
      BY <2>1, <1>12 DEF Crash
    <3>3. pending'[u] = pending[u] /\ pc'[u] = pc[u] /\ last' = last
      BY <2>1, <1>12 DEF Crash
    <3>4. UNCHANGED <<dialect, table>>
      BY <1>12 DEF Crash
    <3> QED BY <3>1, <3>2, <3>3, <3>4, RequestFrame
  <2>2. CASE u \in lost
    <3>1. DOMAIN pending'[u] = {} /\ pc'[u] = "done" /\ table' = table
      BY <2>2, <1>2, <1>12 DEF Crash
    <3>2. DOMAIN Visible(u)' = DOMAIN table /\ \A s \in DOMAIN table : Visible(u)'[s] = table[s]
      BY <3>1 DEF Visible, Together
    <3>3. Good(Visible(u)')
      BY <3>2, <1>0, GoodPointwise DEF IInv, TypeOK
    <3>4. Good(Visible(u))'
      BY <3>3 DEF Good, Dense, Chained
    <3> QED BY <3>1, <3>4 DEF RequestInv
  <2> QED BY <2>1, <2>2
<1>13. CASE VerifyPage \/ VerifyEnd
  BY <1>13, RequestFrame DEF VerifyPage, VerifyEnd, Held, locks
<1>14. CASE UNCHANGED vars
  BY <1>14, RequestFrame DEF vars, locks, Held
<1> QED BY <1>3, <1>4, <1>5, <1>6, <1>7, <1>8, <1>9, <1>10, <1>11, <1>12, <1>13, <1>14
       DEF Next, RequestStep

\* The table changes only by a commit, which makes one request's view of it
\* everyone's.
LEMMA TableStep == IInv /\ [Next]_vars => Good(table')
<1> SUFFICES ASSUME IInv, [Next]_vars PROVE Good(table')
  OBVIOUS
<1>1. ASSUME NEW t \in Txs, Commit(t) PROVE Good(table')
  BY <1>1 DEF Commit, IInv, RequestInv
<1>2. CASE table' = table
  BY <1>2 DEF IInv
<1>3. table' = table \/ \E t \in Txs : Commit(t)
  BY DEF Next, RequestStep, FlushOther, CallRecord, EnterRecord, TakeXactLock, ReadLast,
         Insert, InsertFails, Rollback, Crash, VerifyPage, VerifyEnd, vars, locks
<1> QED BY <1>1, <1>2, <1>3

\* The invariant holds of every reachable state.
THEOREM Invariance == Spec => []IInv
<1>1. Init => IInv
  BY InitInv
<1>2. IInv /\ [Next]_vars => IInv'
  BY TypeStep, TableStep, RequestStepInv DEF IInv, Good, Dense, Chained
<1> QED BY <1>1, <1>2, PTL DEF Spec

\* Tables are functions from sequence numbers to rows, and every lock is free
\* or held by a request of this system.
THEOREM TypeCorrect == Spec => []TypeOK
<1>1. IInv => TypeOK
  BY DEF IInv
<1> QED BY <1>1, Invariance, PTL

\* No interleaving of requests, rollbacks and crashes, on either database,
\* forks the committed chain, leaves a gap in it or breaks a link.
THEOREM ChainNeverForks == Spec => []ChainIntact
<1>1. IInv => ChainIntact
  BY DEF IInv, Good, ChainIntact
<1> QED BY <1>1, Invariance, PTL

\* On PostgreSQL the two locks make the unique index a mere backstop: no
\* record is ever refused because its number was taken.
THEOREM NoRefusedAppend == Spec => []AppendsSerialised
<1>1. IInv => AppendsSerialised
  BY DEF IInv, RequestInv, AppendsSerialised
<1> QED BY <1>1, Invariance, PTL

-----------------------------------------------------------------------------
(* The walk of verify_audit_chain.                                         *)

WalkInv ==
    /\ walk.broken = FALSE
    /\ DOMAIN walk = {"lastSeq", "prev", "expected", "broken"}
    /\ walk.lastSeq \in Nat
    /\ walk.expected = walk.lastSeq + 1
    /\ \/ walk.lastSeq = 0 /\ walk.prev = None
       \/ walk.lastSeq \in DOMAIN table /\ walk.prev = table[walk.lastSeq].hash

\* Committed rows stay as they are.
LEMMA TableGrows ==
    IInv /\ [Next]_vars =>
        DOMAIN table \subseteq DOMAIN table' /\ \A s \in DOMAIN table : table'[s] = table[s]
<1> SUFFICES ASSUME IInv, [Next]_vars
    PROVE  DOMAIN table \subseteq DOMAIN table' /\ \A s \in DOMAIN table : table'[s] = table[s]
  OBVIOUS
<1>1. ASSUME NEW t \in Txs, Commit(t)
      PROVE  DOMAIN table \subseteq DOMAIN table' /\ \A s \in DOMAIN table : table'[s] = table[s]
  <2>1. table' = Visible(t) /\ DOMAIN pending[t] \cap DOMAIN table = {}
    BY <1>1 DEF Commit, IInv, RequestInv
  <2> QED BY <2>1 DEF Visible, Together
<1>2. table' = table \/ \E t \in Txs : Commit(t)
  BY DEF Next, RequestStep, FlushOther, CallRecord, EnterRecord, TakeXactLock, ReadLast,
         Insert, InsertFails, Rollback, Crash, VerifyPage, VerifyEnd, vars, locks
<1> QED BY <1>1, <1>2

\* The page after row w of a dense table is an interval.
LEMMA PageInterval ==
    ASSUME NEW f, NEW n \in Nat, DOMAIN f = 1..n, NEW w, w.lastSeq \in Nat,
           NEW b \in Nat \ {0}
    PROVE  \E m \in Nat : /\ Page(f, w, b) = (w.lastSeq + 1)..m
                          /\ m <= n \/ m = w.lastSeq
<1> DEFINE l == w.lastSeq
           m == IF n <= l THEN l ELSE IF n <= l + b THEN n ELSE l + b
<1>1. ASSUME NEW s \in DOMAIN f, s > l
      PROVE  Cardinality({r \in DOMAIN f : l < r /\ r <= s}) = s - l
  <2>1. {r \in DOMAIN f : l < r /\ r <= s} = (l + 1)..s
    BY <1>1
  <2>2. Cardinality((l + 1)..s) = s - l
    BY <1>1, FS_Interval
  <2> QED BY <2>1, <2>2, Zenon
<1>2. Page(f, w, b) = {s \in DOMAIN f : s > l /\ s - l <= b}
  BY <1>1 DEF Page
<1>3. m \in Nat /\ (m <= n \/ m = l)
  OBVIOUS
<1>4. Page(f, w, b) = (l + 1)..m
  BY <1>2
<1> QED BY <1>3, <1>4

LEMMA WalkStep ==
    ASSUME IInv, WalkInv, VerifyPage
    PROVE  WalkInv'
<1> USE AuditAssumption
<1> DEFINE pg == Page(table, walk, Batch)
           l == walk.lastSeq
<1>1. PICK n \in Nat : DOMAIN table = 1..n
  BY DEF IInv, Good, Dense
<1>2. PICK m \in Nat : pg = (l + 1)..m /\ (m <= n \/ m = l)
  BY <1>1, PageInterval DEF WalkInv
<1>3. l \in Nat /\ l < m /\ m <= n
  BY <1>2 DEF WalkInv, VerifyPage
<1> DEFINE top == CHOOSE s \in pg : \A r \in pg : r <= s
<1>4. top = m
  <2>1. m \in pg /\ \A r \in pg : r <= m
    BY <1>2, <1>3
  <2>2. top \in pg /\ \A r \in pg : r <= top
    BY <2>1
  <2> QED BY <2>1, <2>2, <1>2, <1>3
<1>5. ASSUME NEW s \in pg PROVE ~BreakAt(table, walk, pg, s)
  <2>1. s \in Nat /\ l < s /\ s <= m /\ s \in DOMAIN table
    BY <1>1, <1>2, <1>3
  <2>2. /\ s > 1 => s - 1 \in DOMAIN table
        /\ table[s].prev = IF s = 1 THEN None ELSE table[s - 1].hash
        /\ table[s].hash = Sign(s, table[s].body, table[s].prev)
        /\ table[s].seq = s
    BY <2>1 DEF IInv, Good, Chained, TypeOK
  <2>3. Rank(pg, s) = s - l
    <3>1. {r \in pg : r <= s} = (l + 1)..s
      BY <1>2, <1>3, <2>1
    <3>2. Cardinality((l + 1)..s) = s - l
      BY <1>3, <2>1, FS_Interval
    <3> QED BY <3>1, <3>2, Zenon DEF Rank
  <2>4. walk.expected + Rank(pg, s) - 1 = s
    BY <1>3, <2>1, <2>3 DEF WalkInv
  <2>5. HashBefore(table, walk, pg, s) = table[s].prev
    <3> DEFINE below == {r \in pg : r < s}
    <3>1. CASE s = l + 1
      <4>1. below = {}
        BY <1>2, <1>3, <3>1
      <4>2. HashBefore(table, walk, pg, s) = walk.prev
        BY <4>1 DEF HashBefore
      <4> QED BY <4>2, <1>1, <1>3, <2>2, <3>1 DEF WalkInv
    <3>2. CASE s # l + 1
      <4>1. s - 1 \in below /\ \A q \in below : q <= s - 1
        BY <1>2, <1>3, <2>1, <3>2
      <4> DEFINE c == CHOOSE r \in below : \A q \in below : q <= r
      <4>2. c \in below /\ \A q \in below : q <= c
        BY <4>1
      <4>3. c = s - 1
        BY <4>1, <4>2, <1>2, <1>3, <2>1
      <4>4. HashBefore(table, walk, pg, s) = table[s - 1].hash
        BY <4>1, <4>3 DEF HashBefore
      <4> QED BY <4>4, <2>1, <2>2, <3>2, <1>3
    <3> QED BY <3>1, <3>2
  <2> QED BY <2>2, <2>4, <2>5 DEF BreakAt
<1>6. Cardinality(pg) = m - l
  BY <1>2, <1>3, FS_Interval
<1>7. walk' = [walk EXCEPT !.lastSeq = m, !.prev = table[m].hash,
                           !.expected = walk.expected + (m - l)]
  BY <1>4, <1>5, <1>6 DEF VerifyPage, Walk
<1>8. m \in DOMAIN table /\ table' = table
  BY <1>1, <1>3 DEF VerifyPage
<1> QED BY <1>3, <1>7, <1>8 DEF WalkInv

\* verify_audit_chain, reading page by page while requests commit, never
\* reports a break in a chain nobody tampered with.
THEOREM WalkNeverAlarms == Spec => []NoFalseAlarm
<1>1. Init => WalkInv
  BY DEF Init, WalkStart, WalkInv
<1>2. IInv /\ WalkInv /\ [Next]_vars => WalkInv'
  <2> SUFFICES ASSUME IInv, WalkInv, [Next]_vars PROVE WalkInv'
    OBVIOUS
  <2>1. CASE VerifyPage
    BY <2>1, WalkStep
  <2>2. CASE VerifyEnd
    BY <2>2 DEF VerifyEnd, WalkStart, WalkInv
  <2>3. CASE walk' = walk
    <3>1. DOMAIN table \subseteq DOMAIN table' /\ \A s \in DOMAIN table : table'[s] = table[s]
      BY TableGrows
    <3> QED BY <2>3, <3>1 DEF WalkInv
  <2>4. walk' = walk \/ VerifyPage \/ VerifyEnd
    BY DEF Next, RequestStep, FlushOther, CallRecord, EnterRecord, TakeXactLock, ReadLast,
           Insert, InsertFails, Commit, Rollback, Crash, vars, locks
  <2> QED BY <2>1, <2>2, <2>3, <2>4
<1>3. WalkInv => NoFalseAlarm
  BY DEF WalkInv, NoFalseAlarm
<1> QED BY <1>1, <1>2, <1>3, Invariance, PTL DEF Spec

-----------------------------------------------------------------------------
(* The chain implements AuditLog.                                          *)

Recording == {"waiting", "locking", "reading", "inserting"}

\* Where n <= Budget[t] records of t stand, behind the N committed rows.
OwnRows(t, N, n) ==
    /\ DOMAIN table = 1..N
    /\ DOMAIN pending[t] = (N + 1)..(N + n)
    /\ \A k \in 1..n : pending[t][N + k].body = <<t, k>>
    /\ n <= Budget[t]
    /\ pc[t] \in Recording => n < Budget[t]

BodyInv ==
    /\ \A s \in DOMAIN table :
          \E t \in Txs : \E k \in Nat : table[s].body = <<t, k>> /\ pc[t] = "done"
    /\ \A t \in Txs : \E N \in Nat : \E n \in Nat : OwnRows(t, N, n)

\* A finished request never comes back.
LEMMA DoneStays ==
    ASSUME IInv, [Next]_vars, NEW t \in Txs, pc[t] = "done"
    PROVE  pc'[t] = "done"
<1>1. ASSUME NEW u \in Txs, RequestStep(u) PROVE pc'[t] = "done"
  <2>1. u # t
    BY <1>1 DEF RequestStep, FlushOther, CallRecord, EnterRecord, TakeXactLock, ReadLast,
                Insert, InsertFails, Commit, Rollback, TypeOK, IInv
  <2>2. pc' = [pc EXCEPT ![u] = pc'[u]] \/ pc' = pc
    BY <1>1 DEF RequestStep, FlushOther, CallRecord, EnterRecord, TakeXactLock, ReadLast,
                Insert, InsertFails, Commit, Rollback, TypeOK, IInv
  <2> QED BY <2>1, <2>2 DEF IInv, TypeOK
<1>2. ASSUME NEW p \in Procs, Crash(p) PROVE pc'[t] = "done"
  BY <1>2 DEF Crash
<1>3. CASE VerifyPage \/ VerifyEnd \/ UNCHANGED vars
  BY <1>3 DEF VerifyPage, VerifyEnd, vars
<1> QED BY <1>1, <1>2, <1>3 DEF Next

\* A step that leaves the table and t's rows alone and starts no record.
LEMMA OwnFrame ==
    ASSUME NEW t \in Txs, NEW N \in Nat, NEW n \in Nat, OwnRows(t, N, n),
           table' = table, pending'[t] = pending[t],
           pc'[t] \in Recording => pc[t] \in Recording
    PROVE  OwnRows(t, N, n)'
BY DEF OwnRows

\* Without rows of its own a request stands behind any table.
LEMMA OwnNothing ==
    ASSUME IInv, IInv', NEW t \in Txs, DOMAIN pending'[t] = {},
           pc'[t] \notin Recording
    PROVE  \E N \in Nat : \E n \in Nat : OwnRows(t, N, n)'
<1> USE AuditAssumption
<1>1. PICK N \in Nat : DOMAIN table' = 1..N
  BY DEF IInv, Good, Dense
<1>2. OwnRows(t, N, 0)'
  <2>1. (N + 1)..(N + 0) = {} /\ 1..0 = {}
    OBVIOUS
  <2>2. 0 <= Budget[t]
    OBVIOUS
  <2> QED BY <1>1, <2>1, <2>2 DEF OwnRows
<1> QED BY <1>2

LEMMA OwnStep ==
    ASSUME IInv, IInv', BodyInv, [Next]_vars, NEW t \in Txs
    PROVE  \E N \in Nat : \E n \in Nat : OwnRows(t, N, n)'
<1> USE AuditAssumption
<1>0. TypeOK /\ RequestInv(t)
  BY DEF IInv
<1> USE DEF Recording
<1>1. PICK N \in Nat, n \in Nat : OwnRows(t, N, n)
  BY DEF BodyInv
<1>2. Cardinality(DOMAIN pending[t]) = n
  <2>1. Cardinality((N + 1)..(N + n)) = n
    BY FS_Interval
  <2> QED BY <2>1, <1>1, Zenon DEF OwnRows
<1>3. ASSUME NEW u \in Txs, FlushOther(u) PROVE OwnRows(t, N, n)'
  BY <1>1, <1>3, OwnFrame DEF FlushOther
<1>4. ASSUME NEW u \in Txs, CallRecord(u) PROVE OwnRows(t, N, n)'
  <2>1. CASE u # t
    BY <2>1, <1>0, <1>1, <1>4, OwnFrame DEF CallRecord, TypeOK
  <2>2. CASE u = t
    BY <2>2, <1>1, <1>2, <1>4 DEF CallRecord, OwnRows
  <2> QED BY <2>1, <2>2
<1>5. ASSUME NEW u \in Txs, EnterRecord(u) PROVE OwnRows(t, N, n)'
  BY <1>0, <1>1, <1>5, OwnFrame DEF EnterRecord, TypeOK
<1>6. ASSUME NEW u \in Txs, TakeXactLock(u) PROVE OwnRows(t, N, n)'
  BY <1>0, <1>1, <1>6, OwnFrame DEF TakeXactLock, TypeOK
<1>7. ASSUME NEW u \in Txs, ReadLast(u) PROVE OwnRows(t, N, n)'
  BY <1>0, <1>1, <1>7, OwnFrame DEF ReadLast, TypeOK
<1>8. ASSUME NEW u \in Txs, Insert(u)
      PROVE  \E M \in Nat : \E m \in Nat : OwnRows(t, M, m)'
  <2>1. CASE u # t
    BY <2>1, <1>0, <1>1, <1>8, OwnFrame DEF Insert, TypeOK
  <2>2. CASE u = t
    <3> DEFINE k == last[t].seq
    <3>1. /\ k \in Nat /\ k + 1 \notin DOMAIN Visible(t)
          /\ DOMAIN pending'[t] = DOMAIN pending[t] \cup {k + 1}
          /\ pending'[t][k + 1] = NextRow(t)
          /\ \A s \in DOMAIN pending[t] : pending'[t][s] = pending[t][s]
      <4>1. Insert(t)
        BY <2>2, <1>8
      <4>2. last[t].seq \in Nat /\ last[t].seq + 1 \notin DOMAIN Visible(t)
        BY <4>1, InsertedRow
      <4>3. /\ DOMAIN pending'[t] = DOMAIN pending[t] \cup {last[t].seq + 1}
            /\ pending'[t][last[t].seq + 1] = NextRow(t)
        BY <4>1, InsertedRow
      <4>4. \A s \in DOMAIN pending[t] : pending'[t][s] = pending[t][s]
        BY <4>1, InsertedRow
      <4> QED BY <4>2, <4>3, <4>4
    <3>2. table' = table /\ pc'[t] = "open" /\ pc[t] = "inserting"
      BY <2>2, <1>0, <1>8 DEF Insert, TypeOK
    <3>3. DOMAIN Visible(t) = 1..(N + n)
      BY <1>1 DEF OwnRows, Visible, Together
    <3>4. k = N + n
      <4>1. Seen(t)
        BY <1>0, <3>2 DEF RequestInv
      <4>2. k = 0 \/ k \in DOMAIN Visible(t)
        BY <4>1 DEF Seen, NoRow
      <4>3. k \in Nat /\ k + 1 \notin 1..(N + n) /\ (k = 0 \/ k \in 1..(N + n))
        BY <3>1, <3>3, <4>2
      <4> HIDE DEF k
      <4> QED BY <4>3
    <3>5. NextRow(t).body = <<t, n + 1>>
      BY <1>2 DEF NextRow, Row
    <3>6. DOMAIN pending'[t] = (N + 1)..(N + (n + 1))
      <4>1. DOMAIN pending'[t] = ((N + 1)..(N + n)) \cup {N + n + 1}
        BY <1>1, <3>1, <3>4 DEF OwnRows
      <4>2. ((N + 1)..(N + n)) \cup {N + n + 1} = (N + 1)..(N + (n + 1))
        OBVIOUS
      <4> QED BY <4>1, <4>2
    <3>7. \A j \in 1..(n + 1) : pending'[t][N + j].body = <<t, j>>
      <4> SUFFICES ASSUME NEW j \in 1..(n + 1) PROVE pending'[t][N + j].body = <<t, j>>
        OBVIOUS
      <4>1. CASE j = n + 1
        <5>1. N + j = k + 1
          BY <4>1, <3>4
        <5> QED BY <5>1, <4>1, <3>1, <3>5
      <4>2. CASE j # n + 1
        <5>1. j \in 1..n /\ N + j \in DOMAIN pending[t]
          BY <4>2, <1>1 DEF OwnRows
        <5> QED BY <5>1, <3>1, <1>1 DEF OwnRows
      <4> QED BY <4>1, <4>2
    <3>8. n + 1 <= Budget[t]
      BY <1>1, <3>2 DEF OwnRows
    <3>9. OwnRows(t, N, n + 1)'
      BY <1>1, <3>2, <3>6, <3>7, <3>8 DEF OwnRows
    <3> QED BY <3>9
  <2> QED BY <2>1, <2>2
<1>9. ASSUME NEW u \in Txs, InsertFails(u) PROVE OwnRows(t, N, n)'
  BY <1>0, <1>1, <1>9, OwnFrame DEF InsertFails, TypeOK
<1>10. ASSUME NEW u \in Txs, Commit(u)
       PROVE  \E M \in Nat : \E m \in Nat : OwnRows(t, M, m)'
  <2>1. DOMAIN Empty = {}
    BY DEF Empty
  <2>2. DOMAIN pending'[t] = {}
    <3>1. u # t => DOMAIN pending[t] = {}
      BY <1>10, OneHolder DEF Commit
    <3> QED BY <3>1, <2>1, <1>0, <1>10 DEF Commit, TypeOK
  <2>3. CASE pc'[t] \notin Recording
    BY <2>2, <2>3, OwnNothing
  <2>4. CASE pc'[t] \in Recording
    <3>1. t # u /\ pc'[t] = pc[t]
      BY <2>4, <1>0, <1>10 DEF Commit, TypeOK
    <3>2. n = 0
      <4>1. DOMAIN pending[t] = {}
        BY <3>1, <1>10, OneHolder DEF Commit
      <4> QED BY <4>1, <1>1 DEF OwnRows
    <3>3. PICK M \in Nat : DOMAIN table' = 1..M
      BY DEF IInv, Good, Dense
    <3>4. OwnRows(t, M, 0)'
      <4>1. (M + 1)..(M + 0) = {} /\ 1..0 = {}
        OBVIOUS
      <4>2. 0 < Budget[t]
        OBVIOUS
      <4> QED BY <4>1, <4>2, <2>2, <3>3 DEF OwnRows
    <3> QED BY <3>4
  <2> QED BY <2>3, <2>4
<1>11. ASSUME NEW u \in Txs, Rollback(u)
       PROVE  \E M \in Nat : \E m \in Nat : OwnRows(t, M, m)'
  <2>1. CASE u # t
    BY <2>1, <1>0, <1>1, <1>11, OwnFrame DEF Rollback, TypeOK
  <2>2. CASE u = t
    <3>1. DOMAIN pending'[t] = {} /\ pc'[t] = "done"
      BY <2>2, <1>0, <1>11 DEF Rollback, TypeOK, Empty
    <3> QED BY <3>1, OwnNothing
  <2> QED BY <2>1, <2>2
<1>12. ASSUME NEW p \in Procs, Crash(p)
       PROVE  \E M \in Nat : \E m \in Nat : OwnRows(t, M, m)'
  <2> DEFINE lost == {v \in Txs : Home(v) = p /\ pc[v] # "done"}
  <2>1. CASE t \notin lost
    BY <2>1, <1>0, <1>1, <1>12, OwnFrame DEF Crash
  <2>2. CASE t \in lost
    <3>1. DOMAIN pending'[t] = {} /\ pc'[t] = "done"
      BY <2>2, <1>12 DEF Crash, Empty
    <3> QED BY <3>1, OwnNothing
  <2> QED BY <2>1, <2>2
<1>13. CASE VerifyPage \/ VerifyEnd \/ UNCHANGED vars
  <2>1. OwnRows(t, N, n)'
    BY <1>1, <1>13, OwnFrame DEF VerifyPage, VerifyEnd, vars
  <2> QED BY <2>1
<1> QED BY <1>3, <1>4, <1>5, <1>6, <1>7, <1>8, <1>9, <1>10, <1>11, <1>12, <1>13
       DEF Next, RequestStep

LEMMA BodyInit == Init => BodyInv
<1> SUFFICES ASSUME Init PROVE BodyInv
  OBVIOUS
<1> USE AuditAssumption
<1>1. DOMAIN Empty = {}
  BY DEF Empty
<1>2. DOMAIN table = 1..0 /\ \A t \in Txs : DOMAIN pending[t] = (0 + 1)..(0 + 0)
  BY <1>1 DEF Init
<1>3. \A t \in Txs : OwnRows(t, 0, 0)
  BY <1>2 DEF Init, OwnRows, Recording
<1> QED BY <1>1, <1>3 DEF Init, BodyInv

LEMMA BodyStep == IInv /\ IInv' /\ BodyInv /\ [Next]_vars => BodyInv'
<1> SUFFICES ASSUME IInv, IInv', BodyInv, [Next]_vars PROVE BodyInv'
  OBVIOUS
<1>1. ASSUME NEW s \in DOMAIN table'
      PROVE  \E t \in Txs : \E k \in Nat : table'[s].body = <<t, k>> /\ pc'[t] = "done"
  <2>1. CASE s \in DOMAIN table
    <3>1. table'[s] = table[s]
      BY <2>1, TableGrows
    <3>2. PICK t \in Txs, k \in Nat : table[s].body = <<t, k>> /\ pc[t] = "done"
      BY <2>1 DEF BodyInv
    <3> QED BY <3>1, <3>2, DoneStays
  <2>2. CASE s \notin DOMAIN table
    <3>1. PICK u \in Txs : Commit(u)
      BY <2>2 DEF Next, RequestStep, FlushOther, CallRecord, EnterRecord, TakeXactLock,
                  ReadLast, Insert, InsertFails, Rollback, Crash, VerifyPage, VerifyEnd,
                  vars, locks
    <3>2. s \in DOMAIN pending[u] /\ table'[s] = pending[u][s] /\ pc'[u] = "done"
      BY <2>2, <3>1 DEF Commit, Visible, Together, IInv, TypeOK
    <3>3. PICK N \in Nat, n \in Nat : OwnRows(u, N, n)
      BY DEF BodyInv
    <3>4. s - N \in 1..n /\ N + (s - N) = s
      BY <3>2, <3>3 DEF OwnRows
    <3>5. pending[u][s].body = <<u, s - N>>
      BY <3>3, <3>4 DEF OwnRows
    <3> QED BY <3>2, <3>4, <3>5
  <2> QED BY <2>1, <2>2
<1> QED BY <1>1, OwnStep DEF BodyInv

-----------------------------------------------------------------------------
(* Alterations.                                                            *)

\* No two committed rows record the same thing.
Distinct == \A r, s \in DOMAIN table : table[r].body = table[s].body => r = s

LEMMA DistinctStep == IInv /\ BodyInv /\ Distinct /\ [Next]_vars => Distinct'
<1> SUFFICES ASSUME IInv, BodyInv, Distinct, [Next]_vars PROVE Distinct'
  OBVIOUS
<1>1. CASE table' = table
  BY <1>1 DEF Distinct
<1>2. ASSUME NEW t \in Txs, Commit(t) PROVE Distinct'
  <2>1. PICK N \in Nat, n \in Nat : OwnRows(t, N, n)
    BY DEF BodyInv
  <2>2. /\ DOMAIN table' = 1..(N + n)
        /\ \A s \in 1..N : s \in DOMAIN table /\ table'[s] = table[s]
        /\ \A s \in (N + 1)..(N + n) : table'[s] = pending[t][s]
    BY <1>2, <2>1 DEF OwnRows, Commit, Visible, Together
  <2>3. ASSUME NEW s \in (N + 1)..(N + n) PROVE table'[s].body = <<t, s - N>>
    <3>1. s - N \in 1..n /\ N + (s - N) = s
      OBVIOUS
    <3>2. pending[t][s].body = <<t, s - N>>
      BY <2>1, <3>1 DEF OwnRows
    <3> QED BY <2>2, <3>2
  <2>4. ASSUME NEW s \in 1..N PROVE \E u \in Txs, k \in Nat : table'[s].body = <<u, k>> /\ u # t
    <3>1. PICK u \in Txs, k \in Nat : table[s].body = <<u, k>> /\ pc[u] = "done"
      BY <2>2 DEF BodyInv
    <3> QED BY <1>2, <2>2, <3>1 DEF Commit
  <2>5. SUFFICES ASSUME NEW r \in 1..(N + n), NEW s \in 1..(N + n),
                        table'[r].body = table'[s].body
                 PROVE  r = s
    BY <2>2 DEF Distinct
  <2>6. CASE r \in 1..N /\ s \in 1..N
    BY <2>2, <2>5, <2>6 DEF Distinct
  <2>7. CASE r \notin 1..N /\ s \notin 1..N
    <3>1. table'[r].body = <<t, r - N>> /\ table'[s].body = <<t, s - N>>
      BY <2>3, <2>7
    <3>2. r - N = s - N
      <4>1. <<t, r - N>> = <<t, s - N>>
        BY <2>5, <3>1
      <4> QED BY <4>1
    <3> QED BY <3>2
  <2>8. CASE r \in 1..N /\ s \notin 1..N
    BY <2>3, <2>4, <2>5, <2>8
  <2>9. CASE r \notin 1..N /\ s \in 1..N
    BY <2>3, <2>4, <2>5, <2>9
  <2> QED BY <2>6, <2>7, <2>8, <2>9
<1>3. table' = table \/ \E t \in Txs : Commit(t)
  BY DEF Next, RequestStep, FlushOther, CallRecord, EnterRecord, TakeXactLock, ReadLast,
         Insert, InsertFails, Rollback, Crash, VerifyPage, VerifyEnd, vars, locks
<1> QED BY <1>1, <1>2, <1>3

\* A row whose signature is not of its contents is a break wherever it stands.
LEMMA Unsigned ==
    ASSUME NEW g, NEW s \in DOMAIN g, g[s].hash # Sign(g[s].seq, g[s].body, g[s].prev)
    PROVE  ~Verified(g)
BY DEF Verified, BreakAt

\* Up to the number after a gap.
LEMMA UpToTheNext ==
    ASSUME NEW n \in Nat, NEW s \in 1..n, s # n
    PROVE  {r \in (1..n) \ {s} : r <= s + 1} = (1..(s + 1)) \ {s}
OBVIOUS

\* Numbers counted from one.
LEMMA CountedUp ==
    ASSUME NEW s \in Nat PROVE Cardinality(1..(s + 1)) = s + 1 /\ IsFiniteSet(1..(s + 1))
<1>1. 1 \in Int /\ s + 1 \in Int /\ s + 1 >= 1 /\ (s + 1) - 1 + 1 = s + 1
  OBVIOUS
<1>2. PICK k \in Int : k = s + 1
  BY <1>1
<1>3. IsFiniteSet(1..k) /\ Cardinality(1..k) = (IF 1 > k THEN 0 ELSE k - 1 + 1)
  BY <1>1, <1>2, FS_Interval
<1> QED
  BY <1>1, <1>2, <1>3

LEMMA AlterationFound == IInv /\ Distinct => AlterationDetected
<1> SUFFICES ASSUME IInv, Distinct, NEW g \in Altered(table) PROVE ~Verified(g)
  BY DEF AlterationDetected
<1>1. PICK n \in Nat : DOMAIN table = 1..n
  BY DEF IInv, Good, Dense
<1>2. Cardinality(DOMAIN table) = n
  BY <1>1, FS_Interval
<1>3. ASSUME NEW s \in DOMAIN table
      PROVE  /\ DOMAIN table[s] = {"seq", "body", "prev", "hash"} /\ table[s].seq = s
             /\ table[s].hash = Sign(s, table[s].body, table[s].prev)
  BY DEF IInv, TypeOK, IsRow, Good, Chained
<1>4. ASSUME NEW s \in DOMAIN table, NEW r \in DOMAIN table, r # s
      PROVE  table[s].body # table[r].body
  BY <1>4 DEF Distinct
<1>5. CASE \E s \in DOMAIN table : \E r \in DOMAIN table \ {s} : g = [table EXCEPT ![s].body = table[r].body]
  <2>1. PICK s \in DOMAIN table, r \in DOMAIN table : r # s /\ g = [table EXCEPT ![s].body = table[r].body]
    BY <1>5
  <2>2. /\ s \in DOMAIN g /\ g[s].seq = s /\ g[s].body = table[r].body
        /\ g[s].prev = table[s].prev /\ g[s].hash = table[s].hash
    BY <1>3, <2>1
  <2>3. g[s].hash = <<s, table[s].body, table[s].prev>> /\ table[s].body # table[r].body
    BY <1>3, <1>4, <2>1, <2>2 DEF Sign
  <2>4. g[s].hash # Sign(g[s].seq, g[s].body, g[s].prev)
    BY <2>2, <2>3 DEF Sign
  <2> QED BY <2>2, <2>4, Unsigned
<1>6. CASE \E s \in DOMAIN table : \E r \in DOMAIN table \ {s} : g = [table EXCEPT ![s].hash = table[r].hash]
  <2>1. PICK s \in DOMAIN table, r \in DOMAIN table : r # s /\ g = [table EXCEPT ![s].hash = table[r].hash]
    BY <1>6
  <2>2. /\ s \in DOMAIN g /\ g[s].seq = s /\ g[s].hash = table[r].hash
    BY <1>3, <2>1
  <2>3. g[s].hash = <<r, table[r].body, table[r].prev>>
    BY <1>3, <2>2 DEF Sign
  <2>4. g[s].hash # Sign(g[s].seq, g[s].body, g[s].prev)
    BY <2>1, <2>2, <2>3 DEF Sign
  <2> QED BY <2>2, <2>4, Unsigned
<1>7. CASE \E s \in DOMAIN table : \E r \in DOMAIN table \ {s} :
              g = [table EXCEPT ![s].body = table[r].body, ![r].body = table[s].body]
  <2>1. PICK s \in DOMAIN table, r \in DOMAIN table : r # s /\
              g = [table EXCEPT ![s].body = table[r].body, ![r].body = table[s].body]
    BY <1>7
  <2>2. /\ s \in DOMAIN g /\ g[s].seq = s /\ g[s].body = table[r].body
        /\ g[s].prev = table[s].prev /\ g[s].hash = table[s].hash
    BY <1>3, <2>1
  <2>3. g[s].hash = <<s, table[s].body, table[s].prev>> /\ table[s].body # table[r].body
    BY <1>3, <1>4, <2>1, <2>2 DEF Sign
  <2>4. g[s].hash # Sign(g[s].seq, g[s].body, g[s].prev)
    BY <2>2, <2>3 DEF Sign
  <2> QED BY <2>2, <2>4, Unsigned
<1>8. CASE \E s \in DOMAIN table \ {n} : g = [r \in DOMAIN table \ {s} |-> table[r]]
  <2>1. PICK s \in DOMAIN table \ {n} : g = [r \in DOMAIN table \ {s} |-> table[r]]
    BY <1>8
  <2>2. /\ s \in Nat /\ s >= 1 /\ s + 1 \in DOMAIN g /\ g[s + 1].seq = s + 1
        /\ DOMAIN g = (1..n) \ {s}
    BY <1>1, <1>3, <2>1
  <2>3. Rank(DOMAIN g, s + 1) = s
    <3>1. {r \in DOMAIN g : r <= s + 1} = (1..(s + 1)) \ {s}
      <4>1. s \in 1..n /\ s # n
        BY <1>1, <2>1
      <4>2. DOMAIN g = (1..n) \ {s}
        BY <2>2
      <4> QED
        BY <4>1, <4>2, UpToTheNext
    <3>2. Cardinality(1..(s + 1)) = s + 1 /\ IsFiniteSet(1..(s + 1))
      BY <2>2, CountedUp
    <3>3. Cardinality((1..(s + 1)) \ {s}) = s
      <4>1. s \in 1..(s + 1)
        BY <2>2
      <4>2. Cardinality((1..(s + 1)) \ {s}) = Cardinality(1..(s + 1)) - 1
        BY <3>2, <4>1, FS_RemoveElement
      <4> QED BY <2>2, <3>2, <4>2
    <3> QED BY <3>1, <3>3, Zenon DEF Rank
  <2>4. BreakAt(g, WalkStart, DOMAIN g, s + 1)
    BY <2>2, <2>3 DEF BreakAt, WalkStart
  <2> QED BY <2>2, <2>4 DEF Verified
<1>9. CASE \E s \in DOMAIN table \ {n} : g = Closed(table, s)
  <2>1. PICK s \in DOMAIN table \ {n} : g = Closed(table, s)
    BY <1>9
  <2>2. s \in 1..n /\ s < n /\ s + 1 \in DOMAIN table
    BY <1>1, <2>1
  <2>3. s \in DOMAIN g /\ g[s] = [table[s + 1] EXCEPT !.seq = s]
    BY <1>1, <1>2, <2>1, <2>2 DEF Closed
  <2>4. /\ g[s].seq = s /\ g[s].body = table[s + 1].body
        /\ g[s].prev = table[s + 1].prev /\ g[s].hash = table[s + 1].hash
    BY <1>3, <2>2, <2>3
  <2>5. table[s + 1].hash = Sign(s + 1, table[s + 1].body, table[s + 1].prev) /\ s # s + 1
    BY <1>3, <2>2
  <2>6. g[s].hash # Sign(g[s].seq, g[s].body, g[s].prev)
    BY <2>4, <2>5 DEF Sign
  <2> QED BY <2>3, <2>6, Unsigned
<1> QED
  BY <1>2, <1>5, <1>6, <1>7, <1>8, <1>9 DEF Altered

\* Every single edit, exchange or inner deletion of a committed chain is
\* reported by verify_audit_chain (audit.py 113-121).
THEOREM EditsAreSeen == Spec => []AlterationDetected
<1>1. Init => Distinct
  BY DEF Init, Empty, Distinct
<1> QED BY <1>1, BodyInit, BodyStep, DistinctStep, AlterationFound, Invariance, PTL DEF Spec

\* The log a reader sees is a sequence.
LEMMA LogIsSeq ==
    ASSUME IInv
    PROVE  /\ LogView \in Seq((Txs \cup {None}) \X Nat)
           /\ DOMAIN table = 1..Len(LogView)
           /\ \A s \in DOMAIN table : LogView[s] = table[s].body
<1>1. PICK n \in Nat : DOMAIN table = 1..n
  BY DEF IInv, Good, Dense
<1>2. LogView \in [1..n -> (Txs \cup {None}) \X Nat]
  BY <1>1 DEF LogView, IInv, TypeOK, IsRow
<1>3. LogView \in Seq((Txs \cup {None}) \X Nat) /\ Len(LogView) = n
  BY <1>2
<1> QED BY <1>1, <1>3 DEF LogView

\* z is the sequence x of N elements continued by the sequence y of n elements.
Continues(S, x, y, z, N, n) ==
    /\ x \in Seq(S) /\ y \in Seq(S) /\ z \in Seq(S) /\ N \in Nat /\ n \in Nat
    /\ Len(x) = N /\ Len(y) = n /\ Len(z) = N + n
    /\ \A s \in 1..N : z[s] = x[s]
    /\ \A k \in 1..n : z[N + k] = y[k]

LEMMA ConcatIs ==
    ASSUME NEW S, NEW x, NEW y, NEW z, NEW N, NEW n, Continues(S, x, y, z, N, n)
    PROVE  z = x \o y
<1> USE DEF Continues
<1> DEFINE w == x \o y
<1>1. /\ w \in Seq(S) /\ Len(w) = Len(x) + Len(y)
      /\ \A i \in 1..Len(x) + Len(y) : w[i] = IF i <= Len(x) THEN x[i] ELSE y[i - Len(x)]
  BY ConcatProperties, Zenon
<1> HIDE DEF w
<1>2. ASSUME NEW i \in 1..(N + n) PROVE z[i] = w[i]
  <2>1. CASE i <= N
    BY <2>1, <1>1
  <2>2. CASE ~(i <= N)
    <3>1. i - N \in 1..n /\ N + (i - N) = i
      BY <2>2
    <3>2. z[i] = y[i - N]
      BY <3>1
    <3> QED BY <3>2, <2>2, <1>1
  <2> QED BY <2>1, <2>2
<1>3. z = w
  BY <1>1, <1>2, SeqEqual
<1> QED BY <1>3 DEF w

\* A commit appends the request's records, in order and side by side.
LEMMA CommitFinishes ==
    ASSUME IInv, IInv', BodyInv, NEW t \in Txs, Commit(t)
    PROVE  \E n \in 1..Budget[t] : Abstract!Finish(t, n)
<1> USE AuditAssumption
<1> DEFINE S == (Txs \cup {None}) \X Nat
<1>1. PICK N \in Nat, n \in Nat : OwnRows(t, N, n)
  BY DEF BodyInv
<1>2. n \in 1..Budget[t]
  BY <1>1 DEF OwnRows, Commit
<1> DEFINE batch == [k \in 1..n |-> <<t, k>>]
<1>3. /\ LogView \in Seq(S) /\ Len(LogView) = N
      /\ \A s \in 1..N : LogView[s] = table[s].body
  BY <1>1, LogIsSeq DEF OwnRows
<1>4. batch \in Seq(S) /\ Len(batch) = n /\ \A k \in 1..n : batch[k] = <<t, k>>
  BY <1>2
<1>5. /\ LogView' \in Seq(S) /\ DOMAIN table' = 1..Len(LogView')
      /\ \A s \in DOMAIN table' : LogView'[s] = table'[s].body
  <2>1. (/\ LogView \in Seq(S)
         /\ DOMAIN table = 1..Len(LogView)
         /\ \A s \in DOMAIN table : LogView[s] = table[s].body)'
    BY LogIsSeq, PTL
  <2> QED BY <2>1
<1>6. /\ DOMAIN table' = 1..(N + n)
      /\ \A s \in 1..N : table'[s] = table[s]
      /\ \A k \in 1..n : table'[N + k] = pending[t][N + k]
  BY <1>1 DEF OwnRows, Commit, Visible, Together
<1>7. Len(LogView') = N + n
  BY <1>5, <1>6
<1>8. LogView' = LogView \o batch
  <2> HIDE DEF batch, S
  <2>1. ASSUME NEW s \in 1..N PROVE LogView'[s] = LogView[s]
    <3>1. s \in DOMAIN table'
      BY <1>6
    <3>2. LogView'[s] = table'[s].body
      BY <3>1, <1>5
    <3> QED BY <3>2, <1>3, <1>6
  <2>2. ASSUME NEW k \in 1..n PROVE LogView'[N + k] = batch[k]
    <3>1. N + k \in DOMAIN table' /\ table'[N + k].body = <<t, k>>
      <4>1. N + k \in 1..(N + n) /\ table'[N + k] = pending[t][N + k]
        BY <1>6
      <4>2. pending[t][N + k].body = <<t, k>>
        BY <1>1 DEF OwnRows
      <4> QED BY <4>1, <4>2, <1>6
    <3>2. LogView'[N + k] = table'[N + k].body
      BY <3>1, <1>5
    <3>3. batch[k] = <<t, k>>
      BY <1>4
    <3> QED BY <3>1, <3>2, <3>3
  <2>3. LogView \in Seq(S) /\ Len(LogView) = N
    BY <1>3
  <2>4. batch \in Seq(S) /\ Len(batch) = n
    BY <1>4
  <2>5. LogView' \in Seq(S) /\ Len(LogView') = N + n
    BY <1>5, <1>7
  <2>6. /\ \A s \in 1..N : LogView'[s] = LogView[s]
        /\ \A k \in 1..n : LogView'[N + k] = batch[k]
    BY <2>1, <2>2
  <2>7. Continues(S, LogView, batch, LogView', N, n)
    BY <2>3, <2>4, <2>5, <2>6 DEF Continues
  <2> QED BY <2>7, ConcatIs, Zenon
<1>9. \A i \in DOMAIN LogView : LogView[i][1] # t
  <2>1. DOMAIN LogView = DOMAIN table
    BY DEF LogView
  <2>2. ASSUME NEW i \in DOMAIN table PROVE LogView[i][1] # t
    <3>1. PICK u \in Txs, k \in Nat : table[i].body = <<u, k>> /\ pc[u] = "done"
      BY DEF BodyInv
    <3>2. LogView[i] = <<u, k>>
      BY <3>1 DEF LogView
    <3> QED BY <3>1, <3>2 DEF Commit
  <2> QED BY <2>1, <2>2
<1> QED BY <1>2, <1>8, <1>9 DEF Abstract!Finish, Abstract!Entry

\* Readers see whole transactions in one order: the chain implements AuditLog.
THEOREM ImplementsAuditLog == Spec => WholeTransactions
<1>1. Init => Abstract!Init
  <2> SUFFICES ASSUME Init PROVE LogView = << >>
    BY DEF Abstract!Init
  <2>1. DOMAIN table = {}
    BY DEF Init, Empty
  <2> QED BY <2>1 DEF LogView
<1>2. IInv /\ IInv' /\ BodyInv /\ [Next]_vars => [Abstract!Next]_LogView
  <2> SUFFICES ASSUME IInv, IInv', BodyInv, [Next]_vars, table' # table
      PROVE  Abstract!Next
    BY DEF LogView
  <2>1. PICK t \in Txs : Commit(t)
    BY DEF Next, RequestStep, FlushOther, CallRecord, EnterRecord, TakeXactLock,
           ReadLast, Insert, InsertFails, Rollback, Crash, VerifyPage, VerifyEnd,
           vars, locks
  <2> QED BY <2>1, CommitFinishes DEF Abstract!Next
<1> QED BY <1>1, <1>2, BodyInit, BodyStep, Invariance, PTL
       DEF Spec, WholeTransactions, Abstract!Spec

-----------------------------------------------------------------------------
(* AgentRuns: the invariant.                                               *)

\* v may be the row x at time t: no circuit stays open longer than the cooldown.
Sound(x, v, t) == IF x = Usage THEN v \in UsageRow ELSE v \in ProviderRow /\ v.until <= t + Cooldown

\* Rows by name, as a request has read them, changed them or written them.
Some(f, t) == f = [x \in DOMAIN f |-> f[x]] /\ DOMAIN f \subseteq Rows /\ \A x \in DOMAIN f : Sound(x, f[x], t)

\* A request of the kind its phase calls for.
InShape(q) ==
    q = [plan |-> q.plan, at |-> q.at, phase |-> q.phase, pol |-> q.pol, to |-> q.to, cand |-> q.cand,
         seen |-> q.seen,
         new |-> q.new, mine |-> q.mine, used |-> q.used, tokens |-> q.tokens, hung |-> q.hung, owed |-> q.owed]

Kept(q, t) ==
    /\ InShape(q)
    /\ q.plan \in Seq(DOMAIN Agents) /\ q.at \in 0..(Len(q.plan) + 1) /\ q.phase \in Phases
    /\ q.pol \in Policies \cup {Unset} /\ q.to \in Routes \cup {Unset} /\ q.used \in Choice
    /\ q.cand \in Seq(Providers) /\ q.tokens \in Nat /\ q.hung \in Nat /\ q.owed \in Nat
    /\ Some(q.seen, t) /\ Some(q.new, t) /\ Some(q.mine, t) /\ DOMAIN q.new \subseteq DOMAIN q.seen
    /\ q.phase \in {"run", "call", "verify"} => q.at \in 1..Len(q.plan)
    /\ q.phase = "flush" => q.at <= Len(q.plan)
    /\ q.phase \in {"run", "commit", "probe", "close"} => DOMAIN q.new = {}
    /\ q.phase \in {"run", "commit"} => DOMAIN q.seen = {}
    /\ q.phase \in {"call", "verify"} => Usage \notin DOMAIN q.seen /\ q.to \in Routes
    /\ q.phase \in {"flush", "record"} => DOMAIN q.new # {}
    /\ q.phase = "call" => Range(q.cand) \ {Sim} \subseteq DOMAIN q.seen
    /\ q.phase = "probe" => q.at = 0 /\ DOMAIN q.mine = {} /\ q.owed = 0 /\ \E p \in Reals : DOMAIN q.seen = {p}

Typed ==
    /\ policy \in Policies /\ off \subseteq DOMAIN Agents /\ route \in [Capabilities -> Routes]
    /\ clock \in Nat /\ owed \in Nat /\ raced \in BOOLEAN
    /\ ill \in [Providers -> Nat] /\ due \in [Providers -> Nat]
    /\ DOMAIN row = Rows /\ Some(row, clock)
    /\ req = [r \in Requests |-> req[r]]
    /\ \A r \in Busy : Kept(req[r], clock)

\* An uncommitted row has one writer.
Locked == \A r, s \in Busy : r # s => DOMAIN req[r].mine \cap DOMAIN req[s].mine = {}

\* Whom a run may turn to, it has loaded and found permitted.
Cleared(q) ==
    q.phase = "call" =>
        \A p \in Range(q.cand) \ {Sim} :
            q.seen[p].on /\ Permitted(p, q.seen[p], q.pol, Agents[q.plan[q.at]].cls)

\* What the run at hand adds to the counter.
Adds(q) == IF Usage \in DOMAIN q.new THEN q.new[Usage].quantity - q.seen[Usage].quantity ELSE 0

\* What a request has read of the counter and made of it, w being the tokens owed.
Paid(q, w, exact) ==
    /\ Usage \in DOMAIN q.new =>
          /\ q.seen[Usage].quantity <= q.new[Usage].quantity
          /\ Usage \in DOMAIN q.mine => q.seen[Usage] = q.mine[Usage]
          /\ Usage \notin DOMAIN q.mine => q.seen[Usage].quantity <= w
    /\ Usage \notin DOMAIN q.mine => q.owed = Adds(q)
    /\ Usage \in DOMAIN q.mine =>
          /\ q.mine[Usage].quantity + Adds(q) <= w + q.owed
          /\ exact => q.mine[Usage].quantity + Adds(q) = w + q.owed

Metered == TokensMetered /\ \A r \in Busy : Paid(req[r], owed, ~raced)

\* The request has changed p, or is testing it.
Holds(q, p) == p \in DOMAIN q.new \cup DOMAIN q.mine \/ (q.phase = "probe" /\ p \in DOMAIN q.seen)

\* What p's row becomes if the request commits.
Landed(q, p, now) ==
    LET mine == IF p \in DOMAIN q.mine THEN q.mine[p] ELSE now
    IN  IF p \in DOMAIN q.new THEN Merged(mine, q.seen[p], q.new[p]) ELSE mine

\* The row tells of all failures, and until when to wait.
Tells(prow, n, t) == n <= prow.fails /\ t <= prow.until

Counted(q, p, n, t, now) ==
    /\ q.phase \in {"call", "verify"} /\ p \in DOMAIN q.seen \ DOMAIN q.new => Tells(q.seen[p], n, t)
    /\ q.phase = "call" /\ p \in DOMAIN q.new => n <= q.new[p].fails /\ q.seen[p].fails < q.new[p].fails
    /\ q.phase \in {"call", "verify"} /\ p \in DOMAIN q.new => t <= q.new[p].until
    /\ p \in DOMAIN q.new \cup DOMAIN q.mine => Tells(Landed(q, p, now), n, t)

\* Those a run may turn to are not waiting for their time.
Ready(q, t) == q.phase = "call" => \A p \in Range(q.cand) \ {Sim} : q.seen[p].until <= t

\* Whoever changes p is alone with it and misses no failure; while nobody does,
\* its row tells of all.
Watched(p) ==
    /\ \A r, s \in Busy : Holds(req[r], p) /\ Holds(req[s], p) => r = s
    /\ \A r \in Busy : Counted(req[r], p, ill[p], due[p], row[p])
    /\ (\A r \in Busy : p \notin DOMAIN req[r].new \cup DOMAIN req[r].mine) => Tells(row[p], ill[p], due[p])

Breaker ==
    /\ battered = {}
    /\ \A p \in Reals : due[p] <= clock + Cooldown
    /\ \A r \in Busy : Ready(req[r], clock)
    /\ \A p \in Reals \ mixed : Watched(p)

Governed == Typed /\ Locked /\ DataStaysWithin /\ (\A r \in Busy : Cleared(req[r])) /\ Metered /\ Breaker

-----------------------------------------------------------------------------
(* The tables.                                                             *)

LEMMA SetIs ==
    ASSUME NEW f, NEW x, NEW v
    PROVE  /\ DOMAIN Set(f, x, v) = DOMAIN f \cup {x}
           /\ Set(f, x, v)[x] = v
           /\ \A y \in DOMAIN f \ {x} : Set(f, x, v)[y] = f[y]
           /\ Set(f, x, v) = [y \in DOMAIN Set(f, x, v) |-> Set(f, x, v)[y]]
BY DEF Set

LEMMA SetSome ==
    ASSUME NEW f, NEW x \in Rows, NEW v, NEW t, Some(f, t), Sound(x, v, t)
    PROVE  Some(Set(f, x, v), t)
<1>1. PICK g : g = Set(f, x, v) OBVIOUS
<1>2. /\ DOMAIN g = DOMAIN f \cup {x} /\ g[x] = v /\ g = [y \in DOMAIN g |-> g[y]]
      /\ \A y \in DOMAIN f \ {x} : g[y] = f[y]
    BY <1>1 DEF Set
<1>3. \A y \in DOMAIN f : Sound(y, f[y], t) BY DEF Some
<1>4. \A y \in DOMAIN g : Sound(y, g[y], t)
  <2>1. TAKE y \in DOMAIN g
  <2>2. CASE y = x BY <2>2, <1>2
  <2>3. CASE y # x
    <3>1. y \in DOMAIN f /\ g[y] = f[y] BY <2>3, <1>2
    <3>2. Sound(y, f[y], t) BY <3>1, <1>3
    <3>3. QED BY <3>1, <3>2
  <2>4. QED BY <2>2, <2>3
<1>5. DOMAIN g \subseteq Rows BY <1>2 DEF Some
<1>6. Some(g, t) BY <1>2, <1>4, <1>5 DEF Some
<1>7. QED BY <1>1, <1>6

LEMMA NoRowsSome == ASSUME NEW t PROVE Some(NoRows, t) /\ DOMAIN NoRows = {}
BY DEF Some, NoRows

\* A table without rows is the empty one.
LEMMA OnlyNoRows == ASSUME NEW f, NEW t, Some(f, t), DOMAIN f = {} PROVE f = NoRows
BY DEF Some, NoRows

LEMMA SomeLater ==
    ASSUME NEW f, NEW t \in Nat, NEW u \in Nat, t <= u, Some(f, t)
    PROVE  Some(f, u)
<1>1. \A x \in DOMAIN f : Sound(x, f[x], u)
  <2>1. TAKE x \in DOMAIN f
  <2>2. Sound(x, f[x], t) BY DEF Some
  <2>3. CASE x = Usage BY <2>2, <2>3 DEF Sound
  <2>4. CASE x # Usage
    <3>1. f[x] \in ProviderRow /\ f[x].until <= t + Cooldown BY <2>2, <2>4 DEF Sound
    <3>2. f[x].until \in Nat BY <3>1 DEF ProviderRow
    <3>3. f[x].until <= u + Cooldown BY <3>1, <3>2, AgentRunsAssumption
    <3>4. QED BY <3>1, <3>3, <2>4 DEF Sound
  <2>5. QED BY <2>3, <2>4
<1>2. QED BY <1>1 DEF Some

LEMMA TablesHold == ASSUME NEW f, NEW t, Some(f, t) PROVE f \in Tables
<1>1. \A x \in DOMAIN f : f[x] \in ProviderRow \cup UsageRow BY DEF Some, Sound
<1>2. f \in [DOMAIN f -> ProviderRow \cup UsageRow] BY <1>1 DEF Some
<1>3. QED BY <1>2 DEF Some, Tables

LEMMA IsInFlight == ASSUME NEW q, NEW t, Kept(q, t) PROVE q \in InFlight /\ q # Unset
<1>1. q.seen \in Tables /\ q.new \in Tables /\ q.mine \in Tables BY TablesHold DEF Kept
<1>2. q.at \in Nat BY LenProperties DEF Kept
<1>3. [plan |-> q.plan, at |-> q.at, phase |-> q.phase, pol |-> q.pol, to |-> q.to, cand |-> q.cand, seen |-> q.seen,
       new |-> q.new, mine |-> q.mine, used |-> q.used, tokens |-> q.tokens, hung |-> q.hung, owed |-> q.owed]
         \in InFlight
    BY <1>1, <1>2 DEF Kept, InFlight
<1>4. q \in InFlight BY <1>3 DEF Kept, InShape
<1>5. QED BY <1>4, AgentRunsAssumption

LEMMA Least == ASSUME NEW D, D \subseteq Nat, D # {} PROVE \E i \in D : \A j \in D : i <= j
<1> DEFINE R == {ss \in Nat \X Nat : ss[1] < ss[2]}
<1>0. IsWellFoundedOn(R, Nat) BY NatLessThanWellFounded DEF OpToRel
<1>1. PICK i \in D : \A j \in D : ~(<<j, i>> \in R) BY <1>0, WFMin
<1>2. ASSUME NEW j \in D PROVE i <= j
  <2>1. ~(<<j, i>> \in R) BY <1>1
  <2>2. i \in Nat /\ j \in Nat OBVIOUS
  <2>3. ~(j < i) BY <2>1, <2>2
  <2>4. QED BY <2>2, <2>3
<1>3. QED BY <1>2

\* What is written next has changed.
LEMMA WritesChanged ==
    ASSUME NEW r, DOMAIN req[r].new # {}, DOMAIN req[r].new \subseteq Rows
    PROVE  ToWrite(r) \in DOMAIN req[r].new
<1> DEFINE names == Append(Order, Usage)
           dirty == {i \in DOMAIN names : names[i] \in DOMAIN req[r].new}
<1>1. Order \in Seq(Providers) BY AgentRunsAssumption
<1>2. /\ DOMAIN names = 1..(Len(Order) + 1) /\ names[Len(Order) + 1] = Usage
      /\ \A i \in 1..Len(Order) : names[i] = Order[i]
      /\ DOMAIN Order = 1..Len(Order) /\ Len(Order) \in Nat
    BY <1>1, AppendProperties
<1>3. \A x \in Rows : \E i \in DOMAIN names : names[i] = x
    BY <1>2 DEF Rows, Providers, Range
<1>4. dirty # {} BY <1>3
<1>5. dirty \subseteq Nat BY <1>2
<1> HIDE DEF names
<1>6. \E i \in dirty : \A j \in dirty : i <= j BY <1>4, <1>5, Least
<1>7. (CHOOSE i \in dirty : \A j \in dirty : i <= j) \in dirty BY <1>6
<1>8. names[CHOOSE i \in dirty : \A j \in dirty : i <= j] \in DOMAIN req[r].new BY <1>7
<1>9. QED BY <1>8 DEF ToWrite, names

\* One UPDATE on a provider's row.
LEMMA MergedRow ==
    ASSUME NEW now \in ProviderRow, NEW seen \in ProviderRow, NEW new \in ProviderRow
    PROVE  /\ Merged(now, seen, new) \in ProviderRow
           /\ Merged(now, seen, new).fails = IF new.fails # seen.fails THEN new.fails ELSE now.fails
           /\ Merged(now, seen, new).until = IF new.until # seen.until THEN new.until ELSE now.until
<1> DEFINE m == Merged(now, seen, new)
<1>1. DOMAIN now = {"on", "allow", "serves", "fails", "until", "used"} BY DEF ProviderRow
<1>2. m = [c \in {"on", "allow", "serves", "fails", "until", "used"} |-> IF new[c] # seen[c] THEN new[c] ELSE now[c]]
    BY <1>1 DEF Merged
<1>3. /\ m.on = (IF new.on # seen.on THEN new.on ELSE now.on)
      /\ m.allow = (IF new.allow # seen.allow THEN new.allow ELSE now.allow)
      /\ m.serves = (IF new.serves # seen.serves THEN new.serves ELSE now.serves)
      /\ m.fails = (IF new.fails # seen.fails THEN new.fails ELSE now.fails)
      /\ m.until = (IF new.until # seen.until THEN new.until ELSE now.until)
      /\ m.used = (IF new.used # seen.used THEN new.used ELSE now.used)
    BY <1>2
<1>4. m = [on |-> m.on, allow |-> m.allow, serves |-> m.serves, fails |-> m.fails, until |-> m.until, used |-> m.used]
    BY <1>2
<1> HIDE DEF m
<1>5. m.on \in BOOLEAN /\ m.serves \in BOOLEAN BY <1>3 DEF ProviderRow
<1>6. m.allow \in Nat /\ m.fails \in Nat BY <1>3 DEF ProviderRow
<1>7. m.until \in Nat /\ m.used \in Nat BY <1>3 DEF ProviderRow
<1>8. m \in ProviderRow BY <1>4, <1>5, <1>6, <1>7 DEF ProviderRow
<1>9. QED BY <1>3, <1>8 DEF m

LEMMA MergedUsage ==
    ASSUME NEW now \in UsageRow, NEW seen \in UsageRow, NEW new \in UsageRow
    PROVE  /\ Merged(now, seen, new) \in UsageRow
           /\ Merged(now, seen, new).quantity = IF new.quantity # seen.quantity THEN new.quantity ELSE now.quantity
<1>1. DOMAIN now = {"quantity"} BY DEF UsageRow
<1>2. Merged(now, seen, new) = [c \in {"quantity"} |-> IF new[c] # seen[c] THEN new[c] ELSE now[c]]
    BY <1>1 DEF Merged
<1>3. QED BY <1>2 DEF UsageRow

LEMMA MergedSound ==
    ASSUME NEW x, NEW t, NEW now, NEW seen, NEW new, Sound(x, now, t), Sound(x, seen, t), Sound(x, new, t)
    PROVE  Sound(x, Merged(now, seen, new), t)
<1>1. CASE x = Usage BY <1>1, MergedUsage DEF Sound
<1>2. CASE x # Usage BY <1>2, MergedRow DEF Sound
<1>3. QED BY <1>1, <1>2

\* What _record_usage makes of a row.
LEMMA FailedIs ==
    ASSUME NEW v \in ProviderRow, NEW c \in Nat, c = clock, v.until <= c + Cooldown
    PROVE  /\ Failed(v) \in ProviderRow /\ Failed(v).until <= c + Cooldown
           /\ Failed(v).fails = v.fails + 1
           /\ Failed(v).until = IF v.fails + 1 >= Threshold THEN c + Cooldown ELSE v.until
<1>1. v.fails \in Nat /\ c + Cooldown \in Nat /\ v.until \in Nat BY AgentRunsAssumption DEF ProviderRow
<1>2. v = [on |-> v.on, allow |-> v.allow, serves |-> v.serves, fails |-> v.fails, until |-> v.until, used |-> v.used]
    BY DEF ProviderRow
<1> PICK w : w = Failed(v) OBVIOUS
<1>0. w = [v EXCEPT !.fails = v.fails + 1, !.until = IF v.fails + 1 >= Threshold THEN c + Cooldown ELSE v.until]
    BY DEF Failed
<1>3. w = [on |-> v.on, allow |-> v.allow, serves |-> v.serves, fails |-> v.fails + 1,
                   until |-> IF v.fails + 1 >= Threshold THEN c + Cooldown ELSE v.until, used |-> v.used]
    BY <1>0, <1>2
<1>4. v.on \in BOOLEAN /\ v.allow \in Nat /\ v.serves \in BOOLEAN /\ v.used \in Nat BY DEF ProviderRow
<1>5. w \in ProviderRow BY <1>1, <1>3, <1>4 DEF ProviderRow
<1>6. w.until <= c + Cooldown BY <1>1, <1>3
<1>7. QED BY <1>3, <1>5, <1>6

LEMMA AnsweredIs ==
    ASSUME NEW v \in ProviderRow, NEW n \in Nat
    PROVE  /\ Answered(v, n) \in ProviderRow
           /\ Answered(v, n).until = v.until /\ Answered(v, n).fails = 0
<1>1. v = [on |-> v.on, allow |-> v.allow, serves |-> v.serves, fails |-> v.fails, until |-> v.until, used |-> v.used]
    BY DEF ProviderRow
<1> PICK w : w = Answered(v, n) OBVIOUS
<1>0. w = [v EXCEPT !.fails = 0, !.used = v.used + n] BY DEF Answered
<1>2. w = [on |-> v.on, allow |-> v.allow, serves |-> v.serves, fails |-> 0, until |-> v.until,
                        used |-> v.used + n]
    BY <1>0, <1>1
<1>3. QED BY <1>2 DEF ProviderRow

-----------------------------------------------------------------------------
(* What the operations make of a request.                                  *)

LEMMA NextIs ==
    ASSUME NEW q, InShape(q)
    PROVE  NextRun(q) = [plan |-> q.plan, at |-> q.at + 1, phase |-> Onward(q),
                         pol |-> q.pol, to |-> q.to, cand |-> q.cand, seen |-> NoRows, new |-> q.new, mine |-> q.mine,
                         used |-> q.used, tokens |-> q.tokens, hung |-> q.hung, owed |-> q.owed]
<1>1. PICK w : w = NextRun(q) OBVIOUS
<1>2. w = [q EXCEPT !.at = q.at + 1, !.phase = Onward(q), !.seen = NoRows]
    BY <1>1 DEF NextRun
<1>3. q = [plan |-> q.plan, at |-> q.at, phase |-> q.phase, pol |-> q.pol, to |-> q.to, cand |-> q.cand,
         seen |-> q.seen,
         new |-> q.new, mine |-> q.mine, used |-> q.used, tokens |-> q.tokens, hung |-> q.hung, owed |-> q.owed]
    BY DEF InShape
<1>4. QED BY <1>1, <1>2, <1>3

\* A request that has written all it changed.
Over(q, t) ==
    /\ InShape(q) /\ q.plan \in Seq(DOMAIN Agents) /\ q.at \in Nat /\ q.at <= Len(q.plan)
    /\ q.pol \in Policies \cup {Unset} /\ q.to \in Routes \cup {Unset} /\ q.used \in Choice
    /\ q.cand \in Seq(Providers) /\ q.tokens \in Nat /\ q.hung \in Nat /\ q.owed \in Nat
    /\ Some(q.new, t) /\ Some(q.mine, t) /\ DOMAIN q.new = {}

LEMMA NextKept ==
    ASSUME NEW q, NEW t, Over(q, t)
    PROVE  /\ Kept(NextRun(q), t) /\ NextRun(q).phase \in {"run", "append", "commit"}
           /\ NextRun(q).mine = q.mine /\ NextRun(q).owed = q.owed /\ NextRun(q).new = q.new
<1>0. InShape(q) BY DEF Over
<1> PICK w : w = NextRun(q) OBVIOUS
<1>1. w = [plan |-> q.plan, at |-> q.at + 1, phase |-> Onward(q),
           pol |-> q.pol, to |-> q.to, cand |-> q.cand, seen |-> NoRows, new |-> q.new, mine |-> q.mine,
           used |-> q.used, tokens |-> q.tokens, hung |-> q.hung, owed |-> q.owed]
    BY <1>0, NextIs
<1>2. InShape(w) BY <1>1 DEF InShape
<1>3. /\ w.plan = q.plan /\ w.at = q.at + 1 /\ w.pol = q.pol /\ w.to = q.to /\ w.cand = q.cand
      /\ w.seen = NoRows /\ w.new = q.new
      /\ w.mine = q.mine /\ w.used = q.used /\ w.tokens = q.tokens /\ w.hung = q.hung /\ w.owed = q.owed
    BY <1>1
<1>4. w.phase = Onward(q) BY <1>1
<1> HIDE <1>1
<1>5. Some(w.seen, t) /\ DOMAIN w.seen = {} BY <1>3, NoRowsSome
<1>6. Len(q.plan) \in Nat /\ q.at \in Nat /\ q.at <= Len(q.plan) BY LenProperties DEF Over
<1>7. w.at \in 0..(Len(w.plan) + 1) /\ (w.phase = "run" => w.at \in 1..Len(w.plan)) BY <1>3, <1>4, <1>6 DEF Onward
<1>8. w.phase \in Phases /\ w.phase \in {"run", "append", "commit"} BY <1>4 DEF Phases, Onward
<1>9. QED BY <1>2, <1>3, <1>5, <1>7, <1>8 DEF Kept, Over

\* Kept, field by field, for a run that calls models.
LEMMA CallingKept ==
    ASSUME NEW q, NEW t, NEW w, Kept(q, t), q.phase \in {"run", "call", "verify"}, InShape(w),
           w.plan = q.plan, w.at = q.at, w.mine = q.mine, w.owed \in Nat,
           w.phase \in {"call", "verify"}, w.pol \in Policies \cup {Unset}, w.to \in Routes,
           w.cand \in Seq(Providers), w.used \in Choice, w.tokens \in Nat, w.hung \in Nat,
           Some(w.seen, t), Some(w.new, t), DOMAIN w.new \subseteq DOMAIN w.seen, Usage \notin DOMAIN w.seen,
           w.phase = "call" => Range(w.cand) \ {Sim} \subseteq DOMAIN w.seen
    PROVE  Kept(w, t)
<1>1. w.plan \in Seq(DOMAIN Agents) /\ w.at \in 0..(Len(w.plan) + 1) /\ w.at \in 1..Len(w.plan) /\ Some(w.mine, t)
    BY DEF Kept
<1>2. w.phase \in Phases /\ w.phase \in {"call", "verify"} BY DEF Phases
<1>3. QED BY <1>1, <1>2 DEF Kept

\* The run that ends.
Spent(q) == IF q.used # Sim THEN q.tokens ELSE 0

LEMMA EndedIs ==
    ASSUME NEW r, NEW q, InShape(q)
    PROVE  \E e : /\ e = [plan |-> q.plan, at |-> q.at, phase |-> q.phase, pol |-> Unset, to |-> Unset, cand |-> <<>>,
                          seen |-> IF Within(q) THEN Set(q.seen, Usage, Read(r, Usage)) ELSE q.seen,
                          new |-> IF Within(q) THEN Set(q.new, Usage, [quantity |-> Read(r, Usage).quantity + Spent(q)])
                                  ELSE q.new,
                          mine |-> q.mine, used |-> Unset, tokens |-> 0, hung |-> 0,
                          owed |-> IF Within(q) THEN q.owed + Spent(q) ELSE q.owed]
                  /\ Ended(r, q) = IF e.new = NoRows THEN NextRun(e) ELSE [e EXCEPT !.phase = "flush"]
<1> DEFINE counted == [q EXCEPT !.seen = Set(@, Usage, Read(r, Usage)), !.owed = @ + Spent(q),
                               !.new = Set(@, Usage, [quantity |-> Read(r, Usage).quantity + Spent(q)])]
           mid == IF Within(q) THEN counted ELSE q
           end == [mid EXCEPT !.pol = Unset, !.to = Unset, !.cand = <<>>, !.used = Unset, !.tokens = 0, !.hung = 0]
<1>1. Ended(r, q) = IF end.new = NoRows THEN NextRun(end) ELSE [end EXCEPT !.phase = "flush"] BY DEF Ended, Spent
<1>2. q = [plan |-> q.plan, at |-> q.at, phase |-> q.phase, pol |-> q.pol, to |-> q.to, cand |-> q.cand,
         seen |-> q.seen,
         new |-> q.new, mine |-> q.mine, used |-> q.used, tokens |-> q.tokens, hung |-> q.hung, owed |-> q.owed]
    BY DEF InShape
<1> DEFINE S == Set(q.seen, Usage, Read(r, Usage))
           N == Set(q.new, Usage, [quantity |-> Read(r, Usage).quantity + Spent(q)])
           O == q.owed + Spent(q)
<1>3. PICK m : m = mid OBVIOUS
<1>4. m = IF Within(q) THEN [q EXCEPT !.seen = S, !.owed = O, !.new = N] ELSE q BY <1>3
<1> HIDE DEF S, N, O, mid
<1>5. m = [plan |-> q.plan, at |-> q.at, phase |-> q.phase, pol |-> q.pol, to |-> q.to, cand |-> q.cand,
           seen |-> IF Within(q) THEN S ELSE q.seen, new |-> IF Within(q) THEN N ELSE q.new, mine |-> q.mine,
           used |-> q.used, tokens |-> q.tokens, hung |-> q.hung, owed |-> IF Within(q) THEN O ELSE q.owed]
    BY <1>2, <1>4
<1>6. PICK e : e = end OBVIOUS
<1>7. e = [m EXCEPT !.pol = Unset, !.to = Unset, !.cand = <<>>, !.used = Unset, !.tokens = 0, !.hung = 0]
    BY <1>3, <1>6
<1> HIDE DEF end
<1>8. e = [plan |-> q.plan, at |-> q.at, phase |-> q.phase, pol |-> Unset, to |-> Unset, cand |-> <<>>,
           seen |-> IF Within(q) THEN S ELSE q.seen, new |-> IF Within(q) THEN N ELSE q.new, mine |-> q.mine,
           used |-> Unset, tokens |-> 0, hung |-> 0, owed |-> IF Within(q) THEN O ELSE q.owed]
    BY <1>5, <1>7
<1>9. QED BY <1>1, <1>6, <1>8 DEF S, N, O

LEMMA EndedKept ==
    ASSUME NEW r, NEW q, NEW t, Kept(q, t), q.phase \in {"call", "verify"}, Sound(Usage, Read(r, Usage), t)
    PROVE  /\ Kept(Ended(r, q), t) /\ Ended(r, q).mine = q.mine
           /\ Ended(r, q).phase \in {"run", "append", "commit", "flush"}
           /\ IF Within(q) THEN /\ Ended(r, q).phase = "flush"
                                /\ Ended(r, q).seen = Set(q.seen, Usage, Read(r, Usage))
                                /\ Ended(r, q).new = Set(q.new, Usage, [quantity |-> Read(r, Usage).quantity + Spent(q)])
                                /\ Ended(r, q).owed = q.owed + Spent(q)
              ELSE /\ Ended(r, q).new = q.new /\ Ended(r, q).owed = q.owed
                   /\ DOMAIN q.new # {} => Ended(r, q).phase = "flush" /\ Ended(r, q).seen = q.seen
<1> DEFINE S == IF Within(q) THEN Set(q.seen, Usage, Read(r, Usage)) ELSE q.seen
           N == IF Within(q) THEN Set(q.new, Usage, [quantity |-> Read(r, Usage).quantity + Spent(q)]) ELSE q.new
           O == IF Within(q) THEN q.owed + Spent(q) ELSE q.owed
<1>0. InShape(q) BY DEF Kept
<1>1. PICK e : /\ e = [plan |-> q.plan, at |-> q.at, phase |-> q.phase, pol |-> Unset, to |-> Unset, cand |-> <<>>,
                       seen |-> S, new |-> N, mine |-> q.mine, used |-> Unset, tokens |-> 0, hung |-> 0, owed |-> O]
               /\ Ended(r, q) = IF e.new = NoRows THEN NextRun(e) ELSE [e EXCEPT !.phase = "flush"]
    BY <1>0, EndedIs
<1>2. Spent(q) \in Nat /\ O \in Nat BY DEF Spent, Kept
<1>3. Read(r, Usage) \in UsageRow BY DEF Sound
<1>4. [quantity |-> Read(r, Usage).quantity + Spent(q)] \in UsageRow BY <1>2, <1>3 DEF UsageRow
<1>5. Usage \in Rows /\ Some(q.seen, t) /\ Some(q.new, t) BY DEF Rows, Kept
<1>6. Sound(Usage, [quantity |-> Read(r, Usage).quantity + Spent(q)], t) BY <1>4 DEF Sound
<1>7. Some(S, t) BY <1>5, SetSome
<1>8. Some(N, t) BY <1>5, <1>6, SetSome
<1>9. DOMAIN N \subseteq DOMAIN S BY DEF Kept, Set
<1>10. Within(q) => Usage \in DOMAIN N BY DEF Set
<1> HIDE DEF S, N, O
<1>11. /\ e.plan = q.plan /\ e.at = q.at /\ e.pol = Unset /\ e.to = Unset /\ e.cand = <<>> /\ e.seen = S /\ e.new = N
       /\ e.mine = q.mine /\ e.used = Unset /\ e.tokens = 0 /\ e.hung = 0 /\ e.owed = O /\ InShape(e)
    BY <1>1 DEF InShape
<1>12. e.plan \in Seq(DOMAIN Agents) /\ e.at \in Nat /\ e.at \in 1..Len(e.plan) /\ e.at <= Len(e.plan) /\ Some(e.mine, t)
    BY <1>11 DEF Kept
<1>13. e.pol \in Policies \cup {Unset} /\ e.to \in Routes \cup {Unset} /\ e.used \in Choice /\ e.cand \in Seq(Providers)
    BY <1>11 DEF Choice
<1>14. CASE N = NoRows
  <2>1. Over(e, t) BY <1>2, <1>8, <1>11, <1>12, <1>13, <1>14, NoRowsSome DEF Over
  <2>2. Ended(r, q) = NextRun(e) BY <1>1, <1>11, <1>14
  <2>3. ~Within(q) /\ DOMAIN N = {} BY <1>10, <1>14, NoRowsSome
  <2>4. /\ Kept(NextRun(e), t) /\ NextRun(e).phase \in {"run", "append", "commit"}
        /\ NextRun(e).mine = e.mine /\ NextRun(e).owed = e.owed /\ NextRun(e).new = e.new
    BY <2>1, NextKept
  <2>5. QED BY <2>2, <2>3, <2>4, <1>11 DEF N, O
<1>15. CASE N # NoRows
  <2>1. PICK w : w = Ended(r, q) OBVIOUS
  <2>2. w = [e EXCEPT !.phase = "flush"] BY <2>1, <1>1, <1>11, <1>15
  <2>3. w = [plan |-> q.plan, at |-> q.at, phase |-> "flush", pol |-> Unset, to |-> Unset, cand |-> <<>>,
             seen |-> S, new |-> N, mine |-> q.mine, used |-> Unset, tokens |-> 0, hung |-> 0, owed |-> O]
    BY <1>1, <2>2
  <2>4. InShape(w) BY <2>3 DEF InShape
  <2>5. /\ w.plan = e.plan /\ w.at = e.at /\ w.pol = Unset /\ w.to = Unset /\ w.cand = <<>> /\ w.seen = S /\ w.new = N
        /\ w.mine = e.mine /\ w.used = Unset /\ w.tokens = 0 /\ w.hung = 0 /\ w.owed = O /\ w.phase = "flush"
    BY <1>11, <2>3
  <2> HIDE <2>1, <2>2, <2>3
  <2>6. DOMAIN w.new # {} BY <1>8, <1>15, <2>5, OnlyNoRows
  <2>7. w.at \in 0..(Len(w.plan) + 1) BY <1>12, <2>5, LenProperties
  <2>8. w.phase \in Phases BY <2>5 DEF Phases
  <2>9. Kept(w, t) BY <1>2, <1>7, <1>8, <1>9, <1>12, <1>13, <1>11, <2>4, <2>5, <2>6, <2>7, <2>8 DEF Kept
  <2>10. QED BY <2>1, <2>5, <2>9, <1>11 DEF S, N, O
<1>16. QED BY <1>14, <1>15

-----------------------------------------------------------------------------
(* What each operation does.                                               *)

\* The request r becomes w.
Turns(r, w) == r \in Requests /\ req' = [req EXCEPT ![r] = w]

LEMMA Turned ==
    ASSUME Typed, NEW r, NEW w, Turns(r, w)
    PROVE  /\ req' = [s \in Requests |-> req'[s]] /\ req'[r] = w
           /\ \A s \in Requests \ {r} : req'[s] = req[s]
<1>1. PICK f : f = req' OBVIOUS
<1>2. f = [req EXCEPT ![r] = w] /\ r \in Requests BY <1>1 DEF Turns
<1>3. req = [s \in Requests |-> req[s]] BY DEF Typed
<1>4. f = [s \in Requests |-> IF s = r THEN w ELSE req[s]] BY <1>2, <1>3
<1>5. QED BY <1>1, <1>2, <1>4

LEMMA ReadSound ==
    ASSUME Typed, NEW r \in Busy, NEW x \in Rows
    PROVE  Sound(x, Read(r, x), clock)
<1>1. Some(req[r].mine, clock) /\ Some(row, clock) /\ DOMAIN row = Rows BY DEF Typed, Kept
<1>2. QED BY <1>1 DEF Read, Some

LEMMA FreeIs == ASSUME Typed, NEW r \in Requests, r = Free PROVE r \notin Busy
<1>1. Unset \notin Requests BY AgentRunsAssumption
<1>2. Busy # Requests BY <1>1 DEF Free
<1>3. \E s \in Requests : req[s] = Unset BY <1>2 DEF Busy
<1>4. req[CHOOSE s \in Requests : req[s] = Unset] = Unset BY <1>3
<1>5. QED BY <1>2, <1>4 DEF Free, Busy

\* The end of a run: what was read and made of providers stays, and the
\* counter may be drawn.
Closes(r, q, w) ==
    /\ w.mine = q.mine
    /\ \A p \in Providers :
          /\ p \in DOMAIN w.new <=> p \in DOMAIN q.new
          /\ p \in DOMAIN q.new => w.new[p] = q.new[p] /\ w.seen[p] = q.seen[p]
    /\ \/ Usage \notin DOMAIN w.new /\ w.owed = q.owed
       \/ \E n \in Nat : /\ Usage \in DOMAIN w.new /\ w.seen[Usage] = Read(r, Usage)
                         /\ w.new[Usage].quantity = Read(r, Usage).quantity + n
                         /\ w.owed = q.owed + n

LEMMA EndedCloses ==
    ASSUME NEW r, NEW q, NEW t, Kept(q, t), q.phase \in {"call", "verify"}, Sound(Usage, Read(r, Usage), t)
    PROVE  /\ Kept(Ended(r, q), t) /\ Ended(r, q).phase \in {"run", "append", "commit", "flush"}
           /\ Closes(r, q, Ended(r, q))
<1>1. PICK w : w = Ended(r, q) OBVIOUS
<1>2. Kept(w, t) /\ w.mine = q.mine /\ w.phase \in {"run", "append", "commit", "flush"} BY <1>1, EndedKept
<1>3. /\ Within(q) => /\ w.seen = Set(q.seen, Usage, Read(r, Usage))
                      /\ w.new = Set(q.new, Usage, [quantity |-> Read(r, Usage).quantity + Spent(q)])
                      /\ w.owed = q.owed + Spent(q)
      /\ ~Within(q) => /\ w.new = q.new /\ w.owed = q.owed
                       /\ DOMAIN q.new # {} => w.seen = q.seen
    BY <1>1, EndedKept
<1>4. Usage \notin DOMAIN q.seen /\ DOMAIN q.new \subseteq DOMAIN q.seen BY DEF Kept
<1>5. Usage \notin Providers BY AgentRunsAssumption
<1>6. Spent(q) \in Nat BY DEF Spent, Kept
<1>7. CASE Within(q)
  <2> DEFINE v == [quantity |-> Read(r, Usage).quantity + Spent(q)]
  <2>1. /\ DOMAIN w.new = DOMAIN q.new \cup {Usage} /\ w.new[Usage] = v
        /\ \A y \in DOMAIN q.new \ {Usage} : w.new[y] = q.new[y]
    BY <1>3, <1>7, SetIs DEF Set
  <2>2. w.seen[Usage] = Read(r, Usage) /\ \A y \in DOMAIN q.seen \ {Usage} : w.seen[y] = q.seen[y]
    BY <1>3, <1>7, SetIs DEF Set
  <2>3. \A p \in Providers : /\ p \in DOMAIN w.new <=> p \in DOMAIN q.new
                             /\ p \in DOMAIN q.new => w.new[p] = q.new[p] /\ w.seen[p] = q.seen[p]
    BY <1>4, <1>5, <2>1, <2>2
  <2>4. w.new[Usage].quantity = Read(r, Usage).quantity + Spent(q) BY <2>1
  <2>5. w.owed = q.owed + Spent(q) /\ Usage \in DOMAIN w.new BY <1>3, <1>7, <2>1
  <2>6. Closes(r, q, w) BY <1>2, <1>6, <2>2, <2>3, <2>4, <2>5 DEF Closes
  <2>7. QED BY <1>1, <1>2, <2>6
<1>8. CASE ~Within(q)
  <2>1. Closes(r, q, w) BY <1>2, <1>3, <1>4, <1>8 DEF Closes
  <2>2. QED BY <1>1, <1>2, <2>1
<1>9. QED BY <1>7, <1>8

\* A request at its start.
LEMMA NewIs ==
    ASSUME NEW plan, NEW phase
    PROVE  NewRequest(plan, phase) =
              [plan |-> plan, at |-> 1, phase |-> phase, pol |-> Unset, to |-> Unset, cand |-> <<>>,
               seen |-> NoRows, new |-> NoRows,
               mine |-> NoRows, used |-> Unset, tokens |-> 0, hung |-> 0, owed |-> 0]
BY DEF NewRequest

LEMMA RequestDoes ==
    ASSUME Typed, NEW r \in Requests, NEW kind \in DOMAIN Plans, Request(r, kind)
    PROVE  /\ r \notin Busy
           /\ \E w : Turns(r, w) /\ Kept(w, clock) /\ w.phase = "run" /\ DOMAIN w.mine = {} /\ w.owed = 0
<1>1. PICK w : w = NewRequest(Plans[kind], "run") OBVIOUS
<1>2. w = [plan |-> Plans[kind], at |-> 1, phase |-> "run", pol |-> Unset, to |-> Unset, cand |-> <<>>,
           seen |-> NoRows,
           new |-> NoRows, mine |-> NoRows, used |-> Unset, tokens |-> 0, hung |-> 0, owed |-> 0]
    BY <1>1, NewIs
<1>3. InShape(w) BY <1>2 DEF InShape
<1>4. /\ w.plan = Plans[kind] /\ w.at = 1 /\ w.phase = "run" /\ w.pol = Unset /\ w.to = Unset /\ w.cand = <<>>
      /\ w.seen = NoRows
      /\ w.new = NoRows /\ w.mine = NoRows /\ w.used = Unset /\ w.tokens = 0 /\ w.hung = 0 /\ w.owed = 0
    BY <1>2
<1>5. Plans[kind] \in Seq(DOMAIN Agents) /\ Len(Plans[kind]) \in Nat /\ Len(Plans[kind]) >= 1
    BY AgentRunsAssumption, EmptySeq, LenProperties
<1>6. w.phase \in Phases /\ w.at \in 0..(Len(w.plan) + 1) /\ w.at \in 1..Len(w.plan) BY <1>4, <1>5 DEF Phases
<1>7. Kept(w, clock) BY <1>3, <1>4, <1>5, <1>6, NoRowsSome DEF Kept, Choice
<1>8. Turns(r, w) BY <1>1 DEF Request, Turns
<1>9. r \notin Busy BY FreeIs DEF Request
<1>10. QED BY <1>4, <1>7, <1>8, <1>9, NoRowsSome

LEMMA ProbeDoes ==
    ASSUME Typed, NEW r \in Requests, NEW p \in Reals, Probe(r, p)
    PROVE  /\ r \notin Busy
           /\ \E w : /\ Turns(r, w) /\ Kept(w, clock) /\ w.phase = "probe" /\ DOMAIN w.mine = {} /\ w.owed = 0
                     /\ DOMAIN w.seen = {p} /\ w.seen[p] = row[p]
<1> DEFINE S == Set(NoRows, p, row[p])
<1>0. PICK n : n = NewRequest(<<>>, "probe") OBVIOUS
<1>1. PICK w : w = [n EXCEPT !.at = 0, !.seen = S] OBVIOUS
<1>2. n = [plan |-> <<>>, at |-> 1, phase |-> "probe", pol |-> Unset, to |-> Unset, cand |-> <<>>, seen |-> NoRows,
           new |-> NoRows, mine |-> NoRows, used |-> Unset, tokens |-> 0, hung |-> 0, owed |-> 0]
    BY <1>0, NewIs
<1>3. Turns(r, w)
  <2>1. req' = [req EXCEPT ![r] = [NewRequest(<<>>, "probe") EXCEPT !.at = 0, !.seen = Set(NoRows, p, row[p])]]
    BY DEF Probe
  <2>2. QED BY <2>1, <1>0, <1>1 DEF Turns
<1>4. DOMAIN S = {p} /\ S[p] = row[p] BY NoRowsSome DEF Set
<1>5. p \in Rows /\ Some(row, clock) /\ DOMAIN row = Rows BY DEF Rows, Reals, Typed
<1>6. Some(S, clock) BY <1>5, NoRowsSome, SetSome DEF Some
<1> HIDE DEF S
<1>7. w = [plan |-> <<>>, at |-> 0, phase |-> "probe", pol |-> Unset, to |-> Unset, cand |-> <<>>, seen |-> S,
           new |-> NoRows, mine |-> NoRows, used |-> Unset, tokens |-> 0, hung |-> 0, owed |-> 0]
    BY <1>1, <1>2
<1>8. InShape(w) BY <1>7 DEF InShape
<1>9. /\ w.plan = <<>> /\ w.at = 0 /\ w.phase = "probe" /\ w.pol = Unset /\ w.to = Unset /\ w.cand = <<>>
      /\ w.seen = S
      /\ w.new = NoRows /\ w.mine = NoRows /\ w.used = Unset /\ w.tokens = 0 /\ w.hung = 0 /\ w.owed = 0
    BY <1>7
<1>10. w.phase \in Phases /\ w.at \in 0..(Len(w.plan) + 1) BY <1>9 DEF Phases
<1>11. Kept(w, clock) BY <1>4, <1>6, <1>8, <1>9, <1>10, NoRowsSome DEF Kept, Choice
<1>12. r \notin Busy BY FreeIs DEF Probe
<1>13. QED BY <1>3, <1>4, <1>9, <1>11, <1>12, NoRowsSome

LEMMA RouteKnown ==
    ASSUME Typed, NEW r \in Busy, req[r].at \in 1..Len(req[r].plan)
    PROVE  Route(r) \in Routes
<1>1. req[r].plan \in Seq(DOMAIN Agents) BY DEF Typed, Kept
<1>2. Agent(r) \in DOMAIN Agents BY <1>1, ElementOfSeq DEF Agent
<1>3. Agents[Agent(r)].cap \in Capabilities BY <1>2 DEF Capabilities
<1>4. QED BY <1>3 DEF Route, Typed

LEMMA CandidatesAre ==
    ASSUME Typed, NEW r \in Busy, req[r].at \in 1..Len(req[r].plan)
    PROVE  /\ Candidates(r, policy) \in Seq(Providers)
           /\ \A p \in Range(Candidates(r, policy)) \ {Sim} :
                 /\ p \in {Route(r).primary, Route(r).fallback} \cap Reals
                 /\ Read(r, p).on /\ ~CircuitOpen(Read(r, p))
                 /\ Permitted(p, Read(r, p), policy, Agents[Agent(r)].cls)
<1> DEFINE good(p) == /\ Read(r, p).on /\ ~CircuitOpen(Read(r, p))
                      /\ Permitted(p, Read(r, p), policy, Agents[Agent(r)].cls)
           usable(p) == /\ p # Unset /\ Read(r, p).on /\ ~CircuitOpen(Read(r, p))
                        /\ Allowed(p, Read(r, p), policy, Agents[Agent(r)].cls, Read(r, Usage).quantity)
           kept(p) == IF usable(p) THEN <<p>> ELSE <<>>
           a == Route(r).primary
           b == Route(r).fallback
<1>1. Agents[Agent(r)].cap \in Capabilities
  <2>1. req[r].plan \in Seq(DOMAIN Agents) BY DEF Typed, Kept
  <2>2. Agent(r) \in DOMAIN Agents BY <2>1, ElementOfSeq DEF Agent
  <2>3. QED BY <2>2 DEF Capabilities
<1>2. a \in Choice /\ b \in Choice
  <2>1. Route(r) \in Routes BY <1>1 DEF Route, Typed
  <2>2. QED BY <2>1, AgentRunsAssumption
<1>3. \A p : usable(p) => p # Unset /\ good(p) BY DEF Allowed
<1>4. Candidates(r, policy) = kept(a) \o kept(b) \o <<Sim>> BY DEF Candidates
<1> HIDE DEF usable, good
<1>5. \A p \in Choice : kept(p) \in Seq(Providers) /\ \A q \in Range(kept(p)) : q = p /\ usable(p)
  <2>1. TAKE p \in Choice
  <2>2. usable(p) => p \in Providers BY <1>3 DEF Choice
  <2>3. CASE usable(p)
    <3>1. kept(p) = <<p>> /\ p \in Providers BY <2>2, <2>3
    <3>2. Range(<<p>>) = {p} BY DEF Range
    <3>3. QED BY <2>3, <3>1, <3>2
  <2>4. CASE ~usable(p)
    <3>1. kept(p) = <<>> BY <2>4
    <3>2. Range(<<>>) = {} BY DEF Range
    <3>3. QED BY <3>1, <3>2
  <2>5. QED BY <2>3, <2>4
<1>6. Sim \in Providers BY AgentRunsAssumption
<1>7. PICK x, y : x = kept(a) /\ y = kept(b) OBVIOUS
<1>8. x \in Seq(Providers) /\ y \in Seq(Providers) BY <1>2, <1>5, <1>7
<1>9. x \o y \o <<Sim>> \in Seq(Providers) BY <1>6, <1>8, ConcatProperties
<1>10. \A q \in Range(x \o y \o <<Sim>>) : q \in Range(x) \/ q \in Range(y) \/ q = Sim
  <2>1. x \o y \in Seq(Providers) /\ <<Sim>> \in Seq(Providers) BY <1>6, <1>8, ConcatProperties
  <2>2. \A q \in Range((x \o y) \o <<Sim>>) : q \in Range(x \o y) \/ q = Sim
    BY <2>1, RangeConcatenation, RangeEquality, RangeOfSeq DEF Range
  <2>3. \A q \in Range(x \o y) : q \in Range(x) \/ q \in Range(y) BY <1>8, RangeConcatenation
  <2>4. QED BY <2>2, <2>3
<1>11. \A q \in Range(x) : q = a /\ usable(a) BY <1>2, <1>5, <1>7
<1>12. \A q \in Range(y) : q = b /\ usable(b) BY <1>2, <1>5, <1>7
<1>13. \A p \in Range(x \o y \o <<Sim>>) \ {Sim} : p \in {a, b} \cap Reals /\ good(p)
  <2>1. TAKE p \in Range(x \o y \o <<Sim>>) \ {Sim}
  <2>2. p \in {a, b} /\ usable(p) BY <1>10, <1>11, <1>12
  <2>3. p # Unset /\ good(p) BY <1>3, <2>2
  <2>4. QED BY <1>2, <2>2, <2>3 DEF Choice, Reals
<1>14. QED BY <1>4, <1>7, <1>9, <1>13 DEF good

\* A run that asks for models has loaded those it may turn to.
Chosen(r, w) ==
    /\ w.phase = "call" /\ w.at = req[r].at /\ w.plan = req[r].plan /\ w.pol = policy /\ w.to = Route(r)
    /\ DOMAIN w.new = {}
    /\ \A p \in DOMAIN w.seen : p \in Reals /\ w.seen[p] = Read(r, p)
    /\ \A p \in Range(w.cand) \ {Sim} :
          /\ p \in DOMAIN w.seen /\ w.seen[p].on /\ w.seen[p].until <= clock
          /\ Permitted(p, w.seen[p], policy, Agents[w.plan[w.at]].cls)
    /\ mixed' = mixed \cup (DOMAIN w.seen \cap Pending(r))

LEMMA InvokeDoes ==
    ASSUME Typed, NEW r \in Busy, Invoke(r)
    PROVE  \E w : /\ Turns(r, w) /\ Kept(w, clock) /\ w.mine = req[r].mine /\ w.owed = req[r].owed
                  /\ DOMAIN w.new = {}
                  /\ (w.phase \in {"run", "append", "commit"} /\ mixed' = mixed) \/ Chosen(r, w)
<1> PICK q : q = req[r] OBVIOUS
<1>1. Kept(q, clock) /\ q.phase = "run" /\ q.at \in 1..Len(q.plan) /\ DOMAIN q.new = {} /\ InShape(q)
    BY DEF Typed, Invoke, Kept
<1>2. r \in Requests BY DEF Busy
<1> DEFINE cand == Candidates(r, policy)
           loaded == {Route(r).primary, Route(r).fallback} \cap Reals
           S == [p \in loaded |-> Read(r, p)]
<1>3. CASE Agent(r) \in off \/ ~policy.ai
  <2>1. PICK w : w = NextRun(q) OBVIOUS
  <2>2. Turns(r, w) /\ mixed' = mixed BY <1>2, <1>3, <2>1 DEF Invoke, Turns
  <2>3. Over(q, clock) BY <1>1, LenProperties DEF Kept, Over
  <2>4. /\ Kept(NextRun(q), clock) /\ NextRun(q).phase \in {"run", "append", "commit"}
        /\ NextRun(q).mine = q.mine /\ NextRun(q).owed = q.owed /\ NextRun(q).new = q.new
    BY <2>3, NextKept
  <2>5. QED BY <1>1, <2>1, <2>2, <2>4
<1>4. CASE ~(Agent(r) \in off \/ ~policy.ai)
  <2>1. PICK w : w = [q EXCEPT !.phase = "call", !.pol = policy, !.to = Route(r), !.cand = cand, !.seen = S] OBVIOUS
  <2>2. /\ req' = [req EXCEPT ![r].phase = "call", ![r].pol = policy, ![r].to = Route(r),
                           ![r].cand = cand, ![r].seen = S]
        /\ mixed' = mixed \cup (loaded \cap Pending(r))
    BY <1>4 DEF Invoke
  <2>3. Turns(r, w)
    <3>1. req = [s \in Requests |-> req[s]] BY DEF Typed
    <3>2. QED BY <1>2, <2>1, <2>2, <3>1 DEF Turns
  <2>4. /\ cand \in Seq(Providers)
        /\ \A p \in Range(cand) \ {Sim} :
              /\ p \in loaded /\ Read(r, p).on /\ ~CircuitOpen(Read(r, p))
              /\ Permitted(p, Read(r, p), policy, Agents[Agent(r)].cls)
    BY <1>1, CandidatesAre
  <2>5. S = [p \in DOMAIN S |-> S[p]] /\ DOMAIN S = loaded /\ \A p \in loaded : S[p] = Read(r, p) OBVIOUS
  <2>6. loaded \subseteq Reals /\ Usage \notin loaded /\ loaded \subseteq Rows
    BY AgentRunsAssumption DEF Reals, Rows
  <2>7. Some(S, clock)
    <3>1. \A p \in loaded : Sound(p, Read(r, p), clock) BY <2>6, ReadSound
    <3>2. QED BY <2>5, <2>6, <3>1 DEF Some
  <2>8. \A p \in Range(cand) \ {Sim} : Read(r, p).until <= clock
    <3>1. TAKE p \in Range(cand) \ {Sim}
    <3>2. p \in Rows /\ p # Usage BY <2>4, <2>6
    <3>3. Read(r, p) \in ProviderRow BY <3>2, ReadSound DEF Sound
    <3>4. Read(r, p).until \in Nat /\ clock \in Nat BY <3>3 DEF ProviderRow, Typed
    <3>5. QED BY <2>4, <3>4 DEF CircuitOpen
  <2> HIDE DEF cand, S, loaded
  <2>9. q = [plan |-> q.plan, at |-> q.at, phase |-> q.phase, pol |-> q.pol, to |-> q.to, cand |-> q.cand,
             seen |-> q.seen,
             new |-> q.new, mine |-> q.mine, used |-> q.used, tokens |-> q.tokens, hung |-> q.hung, owed |-> q.owed]
    BY <1>1 DEF InShape
  <2>10. w = [plan |-> q.plan, at |-> q.at, phase |-> "call", pol |-> policy, to |-> Route(r), cand |-> cand,
             seen |-> S,
             new |-> q.new, mine |-> q.mine, used |-> q.used, tokens |-> q.tokens, hung |-> q.hung, owed |-> q.owed]
    BY <2>1, <2>9
  <2>11. InShape(w) BY <2>10 DEF InShape
  <2>12. /\ w.plan = q.plan /\ w.at = q.at /\ w.phase = "call" /\ w.pol = policy /\ w.to = Route(r)
         /\ w.cand = cand /\ w.seen = S
         /\ w.new = q.new /\ w.mine = q.mine /\ w.used = q.used /\ w.tokens = q.tokens /\ w.hung = q.hung
         /\ w.owed = q.owed
    BY <2>10
  <2>13. /\ w.owed \in Nat /\ w.used \in Choice /\ w.tokens \in Nat /\ w.hung \in Nat /\ Some(w.new, clock)
         /\ w.pol \in Policies \cup {Unset} /\ w.to \in Routes
    BY <1>1, <2>12, RouteKnown DEF Kept, Typed
  <2>14. DOMAIN w.new \subseteq DOMAIN w.seen /\ Usage \notin DOMAIN w.seen BY <1>1, <2>5, <2>6, <2>12
  <2>15. Range(w.cand) \ {Sim} \subseteq DOMAIN w.seen BY <2>4, <2>5, <2>12
  <2>16. Kept(w, clock) BY <1>1, <2>4, <2>7, <2>11, <2>12, <2>13, <2>14, <2>15, CallingKept
  <2>17. \A p \in DOMAIN w.seen : p \in Reals /\ w.seen[p] = Read(r, p) BY <2>5, <2>6, <2>12
  <2>18. \A p \in Range(w.cand) \ {Sim} :
          /\ p \in DOMAIN w.seen /\ w.seen[p].on /\ w.seen[p].until <= clock
          /\ Permitted(p, w.seen[p], policy, Agents[w.plan[w.at]].cls)
    <3>1. TAKE p \in Range(w.cand) \ {Sim}
    <3>2. p \in loaded /\ w.seen[p] = Read(r, p) BY <2>4, <2>5, <2>12
    <3>3. Agent(r) = w.plan[w.at] BY <2>12 DEF Agent
    <3>4. Permitted(p, Read(r, p), policy, Agents[Agent(r)].cls) /\ Read(r, p).on BY <2>4, <2>12
    <3>5. Read(r, p).until <= clock BY <2>8, <2>12
    <3>6. QED BY <2>5, <2>12, <3>2, <3>3, <3>4, <3>5
  <2>19. mixed' = mixed \cup (DOMAIN w.seen \cap Pending(r)) BY <2>2, <2>5, <2>12
  <2>20. Chosen(r, w) BY <1>1, <2>12, <2>17, <2>18, <2>19 DEF Chosen
  <2>21. QED BY <1>1, <2>3, <2>12, <2>16, <2>20
<1>5. QED BY <1>3, <1>4

LEMMA CurrentSound ==
    ASSUME Typed, NEW r \in Busy, NEW p \in DOMAIN req[r].seen
    PROVE  Sound(p, Current(r, p), clock)
<1>1. Some(req[r].new, clock) /\ Some(req[r].seen, clock) BY DEF Typed, Kept
<1>2. QED BY <1>1 DEF Current, Some

\* A provider's answer or failure, as noted on the row the request has loaded.
LEMMA NotedSome ==
    ASSUME NEW q, NEW t, Kept(q, t), q.phase = "call", NEW p \in DOMAIN q.seen, NEW v, Sound(p, v, t)
    PROVE  /\ Some(Set(q.new, p, v), t) /\ DOMAIN Set(q.new, p, v) \subseteq DOMAIN q.seen
<1>1. Some(q.new, t) /\ p \in Rows /\ DOMAIN q.new \subseteq DOMAIN q.seen BY DEF Kept, Some
<1>2. Some(Set(q.new, p, v), t) BY <1>1, SetSome
<1>3. QED BY <1>1, <1>2 DEF Set

\* What the call of p leaves in the request, before the run ends.
Answers(r, p, n, a) ==
    /\ a.phase = "call" /\ a.mine = req[r].mine /\ a.seen = req[r].seen /\ a.owed = req[r].owed
    /\ a.new = IF p = Sim THEN req[r].new ELSE Set(req[r].new, p, Answered(Current(r, p), n))

\* The request with the answer of p, and what it goes on as.
Answering(r, p, n) ==
    [req[r] EXCEPT !.used = p, !.tokens = n, !.new = IF p = Sim THEN @ ELSE Set(@, p, Answered(Current(r, p), n))]
GoneOn(r, a) == IF NeedsVerify(r) THEN [a EXCEPT !.phase = "verify"] ELSE Ended(r, a)

LEMMA AnswerDoes ==
    ASSUME Typed, NEW r \in Busy, req[r].phase = "call", req[r].cand # <<>>, NEW p, p = Head(req[r].cand),
           NEW n \in Nat, NEW a, a = Answering(r, p, n), NEW w, w = GoneOn(r, a)
    PROVE  /\ Kept(w, clock) /\ Answers(r, p, n, a) /\ Closes(r, a, w)
           /\ w.phase \in {"verify", "run", "append", "commit", "flush"} /\ (w.phase = "verify" => w.seen = a.seen)
<1> PICK q : q = req[r] OBVIOUS
<1>1. Kept(q, clock) /\ q.phase = "call" /\ InShape(q) BY DEF Typed, Kept
<1>2. q.cand \in Seq(Providers) /\ p \in Providers /\ p \in Range(q.cand)
  <2>1. q.cand \in Seq(Providers) /\ q.cand # <<>> BY <1>1 DEF Kept
  <2>2. p = q.cand[1] /\ 1 \in DOMAIN q.cand BY <2>1, HeadTailProperties, LenProperties
  <2>3. QED BY <2>1, <2>2, ElementOfSeq, LenProperties DEF Range
<1>3. p # Sim => p \in DOMAIN q.seen /\ p # Usage BY <1>1, <1>2 DEF Kept
<1> DEFINE N == IF p = Sim THEN q.new ELSE Set(q.new, p, Answered(Current(r, p), n))
<1>4. Some(N, clock) /\ DOMAIN N \subseteq DOMAIN q.seen
  <2>1. CASE p = Sim BY <1>1, <2>1 DEF Kept
  <2>2. CASE p # Sim
    <3>1. Sound(p, Current(r, p), clock) BY <1>3, <2>2, CurrentSound
    <3>2. Current(r, p) \in ProviderRow /\ Current(r, p).until <= clock + Cooldown BY <1>3, <2>2, <3>1 DEF Sound
    <3>3. Answered(Current(r, p), n) \in ProviderRow /\ Answered(Current(r, p), n).until = Current(r, p).until
      BY <3>2, AnsweredIs
    <3>4. Sound(p, Answered(Current(r, p), n), clock) BY <1>3, <2>2, <3>2, <3>3 DEF Sound
    <3>5. QED BY <1>1, <1>3, <2>2, <3>4, NotedSome
  <2>3. QED BY <2>1, <2>2
<1>5. a = [q EXCEPT !.used = p, !.tokens = n, !.new = N] BY DEF Answering
<1>6. q = [plan |-> q.plan, at |-> q.at, phase |-> q.phase, pol |-> q.pol, to |-> q.to, cand |-> q.cand,
           seen |-> q.seen,
           new |-> q.new, mine |-> q.mine, used |-> q.used, tokens |-> q.tokens, hung |-> q.hung, owed |-> q.owed]
    BY <1>1 DEF InShape
<1>7. Answers(r, p, n, a) <=> /\ a.phase = "call" /\ a.mine = q.mine /\ a.seen = q.seen /\ a.owed = q.owed /\ a.new = N
    BY DEF Answers
<1> HIDE DEF N
<1>8. a = [plan |-> q.plan, at |-> q.at, phase |-> "call", pol |-> q.pol, to |-> q.to, cand |-> q.cand,
           seen |-> q.seen,
           new |-> N, mine |-> q.mine, used |-> p, tokens |-> n, hung |-> q.hung, owed |-> q.owed]
    BY <1>1, <1>5, <1>6
<1>9. InShape(a) BY <1>8 DEF InShape
<1>10. /\ a.plan = q.plan /\ a.at = q.at /\ a.phase = "call" /\ a.pol = q.pol /\ a.to = q.to /\ a.cand = q.cand
       /\ a.seen = q.seen
       /\ a.new = N /\ a.mine = q.mine /\ a.used = p /\ a.tokens = n /\ a.hung = q.hung /\ a.owed = q.owed
    BY ONLY <1>8
<1>11. /\ q.owed \in Nat /\ p \in Choice /\ q.hung \in Nat /\ Some(q.seen, clock)
       /\ q.pol \in Policies \cup {Unset} /\ q.to \in Routes
       /\ Usage \notin DOMAIN q.seen /\ Range(q.cand) \ {Sim} \subseteq DOMAIN q.seen
    BY <1>1, <1>2 DEF Kept, Choice
<1>12. Kept(a, clock) BY ONLY <1>1, <1>2, <1>4, <1>9, <1>10, <1>11, CallingKept
<1>13. Answers(r, p, n, a) BY <1>7, <1>10
<1>14. CASE NeedsVerify(r)
  <2>1. w = [a EXCEPT !.phase = "verify"] BY <1>14 DEF GoneOn
  <2>2. w = [plan |-> q.plan, at |-> q.at, phase |-> "verify", pol |-> q.pol, to |-> q.to, cand |-> q.cand,
             seen |-> q.seen,
             new |-> N, mine |-> q.mine, used |-> p, tokens |-> n, hung |-> q.hung, owed |-> q.owed]
    BY ONLY <1>8, <2>1
  <2>3. InShape(w) BY <2>2 DEF InShape
  <2>4. /\ w.plan = q.plan /\ w.at = q.at /\ w.phase = "verify" /\ w.pol = q.pol /\ w.to = q.to
        /\ w.cand = q.cand /\ w.seen = q.seen
        /\ w.new = N /\ w.mine = q.mine /\ w.used = p /\ w.tokens = n /\ w.hung = q.hung /\ w.owed = q.owed
    BY ONLY <2>2
  <2>5. Kept(w, clock) BY ONLY <1>1, <1>2, <1>4, <2>3, <2>4, <1>11, CallingKept
  <2>6. Usage \notin DOMAIN w.new BY ONLY <1>4, <1>11, <2>4
  <2>7. Closes(r, a, w) BY ONLY <1>10, <2>4, <2>6 DEF Closes
  <2>8. QED BY <1>10, <1>13, <2>4, <2>5, <2>7
<1>15. CASE ~NeedsVerify(r)
  <2>1. w = Ended(r, a) BY <1>15 DEF GoneOn
  <2>2. Sound(Usage, Read(r, Usage), clock) BY ReadSound DEF Rows
  <2>3. /\ Kept(Ended(r, a), clock) /\ Ended(r, a).phase \in {"run", "append", "commit", "flush"}
        /\ Closes(r, a, Ended(r, a))
    BY <1>10, <1>12, <2>2, EndedCloses
  <2>4. QED BY <1>13, <2>1, <2>3
<1>16. QED BY <1>14, <1>15

\* What the failed call of p leaves.
Fails(r, p, w) ==
    /\ w.phase = "call" /\ w.at = req[r].at /\ w.plan = req[r].plan /\ w.pol = req[r].pol
    /\ w.mine = req[r].mine /\ w.seen = req[r].seen /\ w.owed = req[r].owed
    /\ Range(w.cand) \subseteq Range(req[r].cand)
    /\ w.new = Set(req[r].new, p, Failed(Current(r, p)))

LEMMA FailureDoes ==
    ASSUME Typed, NEW r \in Busy, req[r].phase = "call", req[r].cand # <<>>, NEW p, p = Head(req[r].cand), p # Sim,
           NEW late \in Nat, NEW w,
           w = [req[r] EXCEPT !.new = Set(@, p, Failed(Current(r, p))), !.cand = Tail(@), !.hung = @ + late]
    PROVE  Kept(w, clock) /\ Fails(r, p, w)
<1> PICK q : q = req[r] OBVIOUS
<1>1. Kept(q, clock) /\ q.phase = "call" /\ InShape(q) BY DEF Typed, Kept
<1>2. /\ q.cand \in Seq(Providers) /\ p \in Providers /\ p \in Range(q.cand)
      /\ Tail(q.cand) \in Seq(Providers) /\ Range(Tail(q.cand)) \subseteq Range(q.cand)
  <2>1. q.cand \in Seq(Providers) /\ q.cand # <<>> BY <1>1 DEF Kept
  <2>2. p = q.cand[1] /\ 1 \in DOMAIN q.cand BY <2>1, HeadTailProperties, LenProperties
  <2>3. /\ Tail(q.cand) \in Seq(Providers) /\ Len(Tail(q.cand)) = Len(q.cand) - 1
        /\ \A i \in 1..Len(Tail(q.cand)) : Tail(q.cand)[i] = q.cand[i + 1]
    BY <2>1, HeadTailProperties
  <2>4. Len(q.cand) \in Nat /\ DOMAIN q.cand = 1..Len(q.cand) /\ DOMAIN Tail(q.cand) = 1..Len(Tail(q.cand))
    BY <2>1, <2>3, LenProperties
  <2>5. \A i \in DOMAIN Tail(q.cand) : i + 1 \in DOMAIN q.cand /\ Tail(q.cand)[i] = q.cand[i + 1] BY <2>3, <2>4
  <2>6. Range(Tail(q.cand)) \subseteq Range(q.cand) BY <2>5 DEF Range
  <2>7. QED BY <2>1, <2>2, <2>3, <2>6, ElementOfSeq, LenProperties DEF Range
<1>3. p \in DOMAIN q.seen /\ p # Usage BY <1>1, <1>2 DEF Kept
<1> DEFINE N == Set(q.new, p, Failed(Current(r, p)))
<1>4. Some(N, clock) /\ DOMAIN N \subseteq DOMAIN q.seen
  <2>1. Sound(p, Current(r, p), clock) BY <1>3, CurrentSound
  <2>2. Current(r, p) \in ProviderRow /\ Current(r, p).until <= clock + Cooldown BY <1>3, <2>1 DEF Sound
  <2>3. clock \in Nat BY DEF Typed
  <2>4. Failed(Current(r, p)) \in ProviderRow /\ Failed(Current(r, p)).until <= clock + Cooldown
    BY <2>2, <2>3, FailedIs
  <2>5. Sound(p, Failed(Current(r, p)), clock) BY <1>3, <2>4 DEF Sound
  <2>6. QED BY <1>1, <1>3, <2>5, NotedSome
<1>5. w = [q EXCEPT !.new = N, !.cand = Tail(q.cand), !.hung = q.hung + late] OBVIOUS
<1>6. q = [plan |-> q.plan, at |-> q.at, phase |-> q.phase, pol |-> q.pol, to |-> q.to, cand |-> q.cand,
           seen |-> q.seen,
           new |-> q.new, mine |-> q.mine, used |-> q.used, tokens |-> q.tokens, hung |-> q.hung, owed |-> q.owed]
    BY <1>1 DEF InShape
<1>7. N = Set(req[r].new, p, Failed(Current(r, p))) OBVIOUS
<1> HIDE DEF N
<1>8. w = [plan |-> q.plan, at |-> q.at, phase |-> "call", pol |-> q.pol, to |-> q.to, cand |-> Tail(q.cand),
           seen |-> q.seen,
           new |-> N, mine |-> q.mine, used |-> q.used, tokens |-> q.tokens, hung |-> q.hung + late, owed |-> q.owed]
    BY ONLY <1>1, <1>5, <1>6
<1>9. InShape(w) BY ONLY <1>8 DEF InShape
<1>10. /\ w.plan = q.plan /\ w.at = q.at /\ w.phase = "call" /\ w.pol = q.pol /\ w.to = q.to /\ w.cand = Tail(q.cand)
       /\ w.seen = q.seen /\ w.new = N /\ w.mine = q.mine /\ w.used = q.used /\ w.tokens = q.tokens
       /\ w.hung = q.hung + late /\ w.owed = q.owed
    BY ONLY <1>8
<1>11. /\ q.owed \in Nat /\ q.used \in Choice /\ q.tokens \in Nat /\ q.hung \in Nat /\ q.hung + late \in Nat
       /\ Some(q.seen, clock) /\ q.pol \in Policies \cup {Unset} /\ q.to \in Routes
       /\ Usage \notin DOMAIN q.seen /\ Range(q.cand) \ {Sim} \subseteq DOMAIN q.seen
    BY <1>1, <1>2 DEF Kept
<1>12. Kept(w, clock) BY ONLY <1>1, <1>2, <1>4, <1>9, <1>10, <1>11, CallingKept
<1>13. Fails(r, p, w) BY <1>2, <1>7, <1>10 DEF Fails
<1>14. QED BY <1>12, <1>13

LEMMA VerifyDoes ==
    ASSUME Typed, NEW r \in Busy, Verify(r)
    PROVE  \E w : /\ Turns(r, w) /\ Kept(w, clock) /\ Closes(r, req[r], w)
                  /\ w.phase \in {"run", "append", "commit", "flush"}
<1> PICK q : q = req[r] OBVIOUS
<1>1. Kept(q, clock) /\ q.phase = "verify" /\ InShape(q) BY DEF Typed, Kept, Verify
<1>2. r \in Requests BY DEF Busy
<1>3. Sound(Usage, Read(r, Usage), clock) BY ReadSound DEF Rows
<1>4. \/ req' = [req EXCEPT ![r] = Ended(r, q)]
      \/ \E x \in Completions : req' = [req EXCEPT ![r] = Ended(r, [q EXCEPT !.hung = @ + x.late])]
    BY DEF Verify
<1>5. CASE req' = [req EXCEPT ![r] = Ended(r, q)]
  <2>1. /\ Kept(Ended(r, q), clock) /\ Ended(r, q).phase \in {"run", "append", "commit", "flush"}
        /\ Closes(r, q, Ended(r, q))
    BY <1>1, <1>3, EndedCloses
  <2>2. Turns(r, Ended(r, q)) BY <1>2, <1>5 DEF Turns
  <2>3. QED BY <2>1, <2>2
<1>6. CASE \E x \in Completions : req' = [req EXCEPT ![r] = Ended(r, [q EXCEPT !.hung = @ + x.late])]
  <2>1. PICK x \in Completions : req' = [req EXCEPT ![r] = Ended(r, [q EXCEPT !.hung = @ + x.late])] BY <1>6
  <2>2. x.late \in Nat
    <3>1. CASE x \in [ok : {TRUE}, tokens : Sizes, late : {0}] BY <3>1
    <3>2. CASE x \in [ok : {FALSE}, tokens : {0}, late : {0, 1}] BY <3>2
    <3>3. QED BY <3>1, <3>2 DEF Completions
  <2>3. PICK late \in Nat : late = x.late BY <2>2
  <2>4. PICK b : b = [q EXCEPT !.hung = q.hung + late] OBVIOUS
  <2>5. q = [plan |-> q.plan, at |-> q.at, phase |-> q.phase, pol |-> q.pol, to |-> q.to, cand |-> q.cand,
             seen |-> q.seen,
             new |-> q.new, mine |-> q.mine, used |-> q.used, tokens |-> q.tokens, hung |-> q.hung, owed |-> q.owed]
    BY <1>1 DEF InShape
  <2>6. b = [plan |-> q.plan, at |-> q.at, phase |-> "verify", pol |-> q.pol, to |-> q.to, cand |-> q.cand,
             seen |-> q.seen,
             new |-> q.new, mine |-> q.mine, used |-> q.used, tokens |-> q.tokens, hung |-> q.hung + late,
             owed |-> q.owed]
    BY ONLY <1>1, <2>4, <2>5
  <2>7. InShape(b) BY ONLY <2>6 DEF InShape
  <2>8. /\ b.plan = q.plan /\ b.at = q.at /\ b.phase = "verify" /\ b.pol = q.pol /\ b.to = q.to
        /\ b.cand = q.cand /\ b.seen = q.seen
        /\ b.new = q.new /\ b.mine = q.mine /\ b.used = q.used /\ b.tokens = q.tokens /\ b.hung = q.hung + late
        /\ b.owed = q.owed
    BY ONLY <2>6
  <2>9. /\ q.owed \in Nat /\ q.used \in Choice /\ q.tokens \in Nat /\ q.hung + late \in Nat
        /\ q.cand \in Seq(Providers)
        /\ Some(q.seen, clock) /\ Some(q.new, clock) /\ q.pol \in Policies \cup {Unset} /\ q.to \in Routes
        /\ DOMAIN q.new \subseteq DOMAIN q.seen /\ Usage \notin DOMAIN q.seen
    BY <1>1 DEF Kept
  <2>10. Kept(b, clock) BY ONLY <1>1, <2>7, <2>8, <2>9, CallingKept
  <2>11. /\ Kept(Ended(r, b), clock) /\ Ended(r, b).phase \in {"run", "append", "commit", "flush"}
         /\ Closes(r, b, Ended(r, b))
    BY <1>3, <2>8, <2>10, EndedCloses
  <2>12. Closes(r, q, Ended(r, b)) BY <2>8, <2>11 DEF Closes
  <2>13. Turns(r, Ended(r, b)) BY <1>2, <2>1, <2>3, <2>4 DEF Turns
  <2>14. QED BY <2>11, <2>12, <2>13
<1>7. QED BY <1>4, <1>5, <1>6

\* The counter is written from a quantity no longer current.
Races(r, x) == x = Usage /\ req[r].new[x] # req[r].seen[x] /\ req[r].seen[x] # Read(r, x)

\* What one UPDATE leaves.
Writes(r, x, w) ==
    /\ w.mine = Set(req[r].mine, x, Merged(Read(r, x), req[r].seen[x], req[r].new[x]))
    /\ DOMAIN w.new = DOMAIN req[r].new \ {x} /\ \A y \in DOMAIN w.new : w.new[y] = req[r].new[y]
    /\ w.owed = req[r].owed
    /\ IF DOMAIN w.new = {} THEN w.phase \in {"run", "append", "commit", "close"}
       ELSE w.phase \in {"flush", "record"} /\ w.seen = req[r].seen

LEMMA FlushDoes ==
    ASSUME Typed, NEW r \in Busy, Flush(r)
    PROVE  \E w, x : /\ Turns(r, w) /\ Kept(w, clock) /\ Writes(r, x, w) /\ x \in DOMAIN req[r].new
                     /\ \A s \in Busy \ {r} : x \notin DOMAIN req[s].mine
                     /\ raced' = (raced \/ Races(r, x))
<1> PICK q : q = req[r] OBVIOUS
<1> PICK x : x = ToWrite(r) OBVIOUS
<1>1. Kept(q, clock) /\ q.phase \in {"flush", "record"} /\ InShape(q) BY DEF Typed, Kept, Flush
<1>2. r \in Requests BY DEF Busy
<1>3. x \in DOMAIN q.new /\ x \in Rows /\ x \in DOMAIN q.seen BY <1>1, WritesChanged DEF Kept, Some
<1>4. \A s \in Busy \ {r} : x \notin DOMAIN req[s].mine BY DEF Flush, WaitsFor, Busy
<1> DEFINE L == [y \in DOMAIN q.new \ {x} |-> q.new[y]]
           m == Merged(Read(r, x), q.seen[x], q.new[x])
           M == Set(q.mine, x, m)
           wrote == [q EXCEPT !.mine = M, !.new = L]
           done == IF q.phase = "flush" THEN NextRun(wrote) ELSE [wrote EXCEPT !.phase = "close", !.seen = NoRows]
<1>5. /\ req' = [req EXCEPT ![r] = IF L # NoRows THEN wrote ELSE done]
      /\ raced' = (raced \/ Races(r, x))
    BY DEF Flush, Races
<1>6. Some(M, clock)
  <2>1. Sound(x, q.seen[x], clock) /\ Sound(x, q.new[x], clock) BY <1>1, <1>3 DEF Kept, Some
  <2>2. Sound(x, Read(r, x), clock) BY <1>3, ReadSound
  <2>3. Sound(x, m, clock) BY <2>1, <2>2, MergedSound
  <2>4. Some(q.mine, clock) BY <1>1 DEF Kept
  <2>5. QED BY <1>3, <2>3, <2>4, SetSome
<1>7. Some(L, clock) /\ DOMAIN L = DOMAIN q.new \ {x} /\ \A y \in DOMAIN L : L[y] = q.new[y]
    BY <1>1 DEF Kept, Some
<1>8. PICK e : e = wrote OBVIOUS
<1>9. M = Set(req[r].mine, x, Merged(Read(r, x), req[r].seen[x], req[r].new[x])) OBVIOUS
<1>10. e = [q EXCEPT !.mine = M, !.new = L] BY <1>8
<1>11. PICK d : d = done OBVIOUS
<1>12. d = IF q.phase = "flush" THEN NextRun(e) ELSE [e EXCEPT !.phase = "close", !.seen = NoRows] BY <1>8, <1>11
<1> HIDE DEF L, m, M, wrote, done
<1>13. q = [plan |-> q.plan, at |-> q.at, phase |-> q.phase, pol |-> q.pol, to |-> q.to, cand |-> q.cand,
            seen |-> q.seen, new |-> q.new, mine |-> q.mine, used |-> q.used, tokens |-> q.tokens, hung |-> q.hung,
            owed |-> q.owed]
    BY <1>1 DEF InShape
<1>14. e = [plan |-> q.plan, at |-> q.at, phase |-> q.phase, pol |-> q.pol, to |-> q.to, cand |-> q.cand,
            seen |-> q.seen, new |-> L, mine |-> M, used |-> q.used, tokens |-> q.tokens, hung |-> q.hung,
            owed |-> q.owed]
    BY ONLY <1>10, <1>13
<1>15. InShape(e) BY ONLY <1>14 DEF InShape
<1>16. /\ e.plan = q.plan /\ e.at = q.at /\ e.phase = q.phase /\ e.pol = q.pol /\ e.to = q.to
       /\ e.cand = q.cand /\ e.seen = q.seen /\ e.new = L /\ e.mine = M /\ e.used = q.used
       /\ e.tokens = q.tokens /\ e.hung = q.hung /\ e.owed = q.owed
    BY ONLY <1>14
<1>17. /\ q.plan \in Seq(DOMAIN Agents) /\ q.at \in 0..(Len(q.plan) + 1) /\ (q.phase = "flush" => q.at <= Len(q.plan))
       /\ q.owed \in Nat /\ q.used \in Choice /\ q.tokens \in Nat /\ q.hung \in Nat /\ q.cand \in Seq(Providers)
       /\ Some(q.seen, clock) /\ q.pol \in Policies \cup {Unset} /\ q.to \in Routes \cup {Unset}
       /\ DOMAIN q.new \subseteq DOMAIN q.seen
    BY <1>1 DEF Kept
<1>18. CASE L # NoRows
  <2>1. DOMAIN L # {} BY <1>7, <1>18, OnlyNoRows
  <2>2. DOMAIN L \subseteq DOMAIN q.seen BY <1>7, <1>17
  <2>3. e.phase \in Phases /\ e.phase \in {"flush", "record"} BY <1>1, <1>16 DEF Phases
  <2>4. Kept(e, clock) BY ONLY <1>6, <1>7, <1>15, <1>16, <1>17, <2>1, <2>2, <2>3 DEF Kept
  <2>5. Turns(r, e) BY <1>2, <1>5, <1>8, <1>18 DEF Turns
  <2>6. Writes(r, x, e) BY <1>7, <1>9, <1>16, <2>1, <2>3 DEF Writes
  <2>7. QED BY <1>3, <1>4, <1>5, <2>4, <2>5, <2>6
<1>19. CASE L = NoRows
  <2>1. DOMAIN L = {} BY <1>19, NoRowsSome
  <2> DEFINE Ends == /\ Kept(d, clock) /\ d.phase \in {"run", "append", "commit", "close"}
                     /\ d.mine = M /\ d.owed = q.owed /\ d.new = L
  <2>2. ASSUME q.phase = "flush" PROVE Ends
    <3>1. q.at \in Nat BY <1>17, LenProperties
    <3>2. Over(e, clock) BY ONLY <1>6, <1>7, <1>15, <1>16, <1>17, <2>1, <2>2, <3>1 DEF Over
    <3>3. d = NextRun(e) BY ONLY <1>12, <2>2
    <3>4. /\ Kept(d, clock) /\ d.phase \in {"run", "append", "commit"}
          /\ d.mine = M /\ d.owed = q.owed /\ d.new = L
      BY <1>16, <3>2, <3>3, NextKept
    <3>5. QED BY <3>4
  <2>3. ASSUME q.phase = "record" PROVE Ends
    <3>1. d = [e EXCEPT !.phase = "close", !.seen = NoRows] BY ONLY <1>12, <2>3
    <3>2. d = [plan |-> q.plan, at |-> q.at, phase |-> "close", pol |-> q.pol, to |-> q.to, cand |-> q.cand,
               seen |-> NoRows, new |-> L, mine |-> M, used |-> q.used, tokens |-> q.tokens, hung |-> q.hung,
               owed |-> q.owed]
      BY ONLY <1>14, <3>1
    <3>3. InShape(d) BY ONLY <3>2 DEF InShape
    <3>4. /\ d.plan = q.plan /\ d.at = q.at /\ d.phase = "close" /\ d.pol = q.pol /\ d.to = q.to
          /\ d.cand = q.cand /\ d.seen = NoRows /\ d.new = L /\ d.mine = M /\ d.used = q.used
          /\ d.tokens = q.tokens /\ d.hung = q.hung /\ d.owed = q.owed
      BY ONLY <3>2
    <3>5. Some(NoRows, clock) /\ DOMAIN NoRows = {} BY NoRowsSome
    <3>6. Kept(d, clock) BY ONLY <1>6, <1>7, <1>17, <2>1, <3>3, <3>4, <3>5 DEF Kept, Phases
    <3>7. QED BY <3>4, <3>6
  <2>4. Ends BY <1>1, <2>2, <2>3
  <2>5. Turns(r, d) BY <1>2, <1>5, <1>11, <1>19 DEF Turns
  <2>6. Writes(r, x, d) BY <1>7, <1>9, <2>1, <2>4 DEF Writes
  <2>7. QED BY <1>3, <1>4, <1>5, <2>4, <2>5, <2>6
<1>20. QED BY <1>18, <1>19

\* The request goes on to its record, and to the locks it is written under.
Proceeds(q, w) ==
    /\ w.seen = q.seen /\ w.new = q.new /\ w.mine = q.mine /\ w.owed = q.owed
    /\ q.phase \in {"append", "chain"} /\ w.phase \in {"chain", "record", "close"}

LEMMA LockDoes ==
    ASSUME Typed, NEW r \in Busy, TakeProcess(r) \/ TakeChain(r)
    PROVE  \E w : Turns(r, w) /\ Kept(w, clock) /\ Proceeds(req[r], w)
<1> PICK q : q = req[r] OBVIOUS
<1>1. Kept(q, clock) /\ q.phase \in {"append", "chain"} BY DEF Typed, TakeProcess, TakeChain
<1>2. PICK f : /\ req' = [req EXCEPT ![r].phase = f] /\ f \in {"chain", "record", "close"}
               /\ f = "record" => q.new # NoRows
               /\ f = "close" => q.new = NoRows
    BY DEF TakeProcess, TakeChain
<1>3. PICK w : w = [q EXCEPT !.phase = f] OBVIOUS
<1>4. Turns(r, w) BY <1>2, <1>3 DEF Turns, Typed, Busy
<1>5. q = [plan |-> q.plan, at |-> q.at, phase |-> q.phase, pol |-> q.pol, to |-> q.to, cand |-> q.cand,
           seen |-> q.seen, new |-> q.new, mine |-> q.mine, used |-> q.used, tokens |-> q.tokens, hung |-> q.hung,
           owed |-> q.owed]
    BY <1>1 DEF Kept, InShape
<1>6. w = [plan |-> q.plan, at |-> q.at, phase |-> f, pol |-> q.pol, to |-> q.to, cand |-> q.cand,
           seen |-> q.seen, new |-> q.new, mine |-> q.mine, used |-> q.used, tokens |-> q.tokens, hung |-> q.hung,
           owed |-> q.owed]
    BY ONLY <1>3, <1>5
<1>7. InShape(w) BY ONLY <1>6 DEF InShape
<1>8. /\ w.plan = q.plan /\ w.at = q.at /\ w.phase = f /\ w.pol = q.pol /\ w.to = q.to /\ w.cand = q.cand
      /\ w.seen = q.seen /\ w.new = q.new /\ w.mine = q.mine /\ w.used = q.used /\ w.tokens = q.tokens
      /\ w.hung = q.hung /\ w.owed = q.owed
    BY ONLY <1>6
<1>9. Some(q.new, clock) BY <1>1 DEF Kept
<1>10. /\ w.phase = "record" => DOMAIN w.new # {}
       /\ w.phase = "close" => DOMAIN w.new = {}
    BY <1>2, <1>8, <1>9, OnlyNoRows, NoRowsSome
<1>11. w.phase \in Phases BY <1>2, <1>8 DEF Phases
<1>12. Kept(w, clock) BY <1>1, <1>2, <1>7, <1>8, <1>10, <1>11 DEF Kept
<1>13. QED BY <1>1, <1>2, <1>4, <1>8, <1>12 DEF Proceeds

\* What follows a commit: the end, or the record of an investigation.
Leaves(w) ==
    w = Unset \/ (/\ Kept(w, clock) /\ w.phase = "append" /\ w.owed = 0
                  /\ DOMAIN w.mine = {} /\ DOMAIN w.new = {} /\ DOMAIN w.seen = {})

LEMMA CommitDoes ==
    ASSUME Typed, NEW r \in Busy, CommitRun(r)
    PROVE  req[r].phase \in {"commit", "close"} /\ DOMAIN req[r].new = {} /\ \E w : Turns(r, w) /\ Leaves(w)
<1> PICK q : q = req[r] OBVIOUS
<1>1. Kept(q, clock) /\ q.phase \in {"commit", "close"} BY DEF Typed, CommitRun
<1>2. DOMAIN q.new = {} BY <1>1 DEF Kept
<1>3. PICK w : w = IF q.phase = "close" THEN Unset ELSE [q EXCEPT !.phase = "append", !.mine = NoRows, !.owed = 0]
    OBVIOUS
<1>4. Turns(r, w) BY <1>3 DEF CommitRun, Turns, Typed, Busy
<1>5. CASE q.phase = "close" BY <1>1, <1>2, <1>3, <1>4, <1>5 DEF Leaves
<1>6. CASE q.phase = "commit"
  <2>1. q = [plan |-> q.plan, at |-> q.at, phase |-> q.phase, pol |-> q.pol, to |-> q.to, cand |-> q.cand,
             seen |-> q.seen, new |-> q.new, mine |-> q.mine, used |-> q.used, tokens |-> q.tokens,
             hung |-> q.hung, owed |-> q.owed]
    BY <1>1 DEF Kept, InShape
  <2>2. w = [q EXCEPT !.phase = "append", !.mine = NoRows, !.owed = 0] BY <1>3, <1>6
  <2>3. w = [plan |-> q.plan, at |-> q.at, phase |-> "append", pol |-> q.pol, to |-> q.to, cand |-> q.cand,
             seen |-> q.seen, new |-> q.new, mine |-> NoRows, used |-> q.used, tokens |-> q.tokens,
             hung |-> q.hung, owed |-> 0]
    BY ONLY <2>1, <2>2
  <2>4. InShape(w) BY ONLY <2>3 DEF InShape
  <2>5. /\ w.plan = q.plan /\ w.at = q.at /\ w.phase = "append" /\ w.pol = q.pol /\ w.to = q.to
        /\ w.cand = q.cand /\ w.seen = q.seen /\ w.new = q.new /\ w.mine = NoRows /\ w.used = q.used
        /\ w.tokens = q.tokens /\ w.hung = q.hung /\ w.owed = 0
    BY ONLY <2>3
  <2>6. Some(NoRows, clock) /\ DOMAIN NoRows = {} BY NoRowsSome
  <2>7. Kept(w, clock) BY <1>1, <1>2, <2>4, <2>5, <2>6 DEF Kept, Phases
  <2>8. DOMAIN q.seen = {} BY <1>1, <1>6 DEF Kept
  <2>9. QED BY <1>1, <1>2, <1>4, <2>5, <2>6, <2>7, <2>8 DEF Leaves
<1>7. QED BY <1>1, <1>5, <1>6

LEMMA EditDoes ==
    ASSUME Typed, NEW r \in Requests, NEW p \in Reals, NEW c \in Configs, EditProvider(r, p, c)
    PROVE  /\ r \notin Busy
           /\ \E w : /\ Turns(r, w) /\ Kept(w, clock) /\ w.phase = "append" /\ DOMAIN w.mine = {} /\ w.owed = 0
                     /\ DOMAIN w.seen = {p} /\ DOMAIN w.new = {p} /\ w.seen[p] = row[p]
                     /\ w.new[p] \in ProviderRow /\ w.new[p].fails = row[p].fails /\ w.new[p].until = row[p].until
<1>1. p \in Rows /\ p # Usage BY AgentRunsAssumption DEF Reals, Rows
<1> PICK v : v = row[p] OBVIOUS
<1>2. v \in ProviderRow /\ v.until <= clock + Cooldown BY <1>1 DEF Typed, Some, Sound
<1> PICK u : u = [v EXCEPT !.on = c.on, !.allow = c.allow, !.serves = c.serves] OBVIOUS
<1>3. c \in Config BY AgentRunsAssumption
<1>4. u = [on |-> c.on, allow |-> c.allow, serves |-> c.serves, fails |-> v.fails, until |-> v.until, used |-> v.used]
  <2>1. u = [v EXCEPT !.on = c.on, !.allow = c.allow, !.serves = c.serves] OBVIOUS
  <2>2. v = [on |-> v.on, allow |-> v.allow, serves |-> v.serves, fails |-> v.fails, until |-> v.until, used |-> v.used]
    BY <1>2 DEF ProviderRow
  <2>3. QED BY ONLY <2>1, <2>2
<1>5. u \in ProviderRow /\ u.until = v.until /\ u.fails = v.fails BY ONLY <1>2, <1>3, <1>4 DEF ProviderRow, Config
<1>6. Sound(p, u, clock) /\ Sound(p, v, clock) BY <1>1, <1>2, <1>5 DEF Sound
<1> DEFINE S == Set(NoRows, p, v)
           N == Set(NoRows, p, u)
<1>7. PICK n : n = NewRequest(<<>>, "append") OBVIOUS
<1>8. PICK w : w = [n EXCEPT !.at = 0, !.seen = S, !.new = N] OBVIOUS
<1>9. n = [plan |-> <<>>, at |-> 1, phase |-> "append", pol |-> Unset, to |-> Unset, cand |-> <<>>, seen |-> NoRows,
           new |-> NoRows, mine |-> NoRows, used |-> Unset, tokens |-> 0, hung |-> 0, owed |-> 0]
    BY <1>7, NewIs
<1>10. Turns(r, w)
  <2>1. req' = [req EXCEPT ![r] = [NewRequest(<<>>, "append") EXCEPT !.at = 0, !.seen = Set(NoRows, p, v),
                                                                     !.new = Set(NoRows, p, u)]]
    BY DEF EditProvider
  <2>2. QED BY <2>1, <1>7, <1>8 DEF Turns
<1>11. DOMAIN S = {p} /\ S[p] = v /\ DOMAIN N = {p} /\ N[p] = u BY NoRowsSome DEF Set
<1>12. Some(S, clock) /\ Some(N, clock) BY <1>1, <1>6, NoRowsSome, SetSome
<1> HIDE DEF S, N
<1>13. w = [plan |-> <<>>, at |-> 0, phase |-> "append", pol |-> Unset, to |-> Unset, cand |-> <<>>, seen |-> S,
            new |-> N, mine |-> NoRows, used |-> Unset, tokens |-> 0, hung |-> 0, owed |-> 0]
    BY ONLY <1>8, <1>9
<1>14. InShape(w) BY ONLY <1>13 DEF InShape
<1>15. /\ w.plan = <<>> /\ w.at = 0 /\ w.phase = "append" /\ w.pol = Unset /\ w.to = Unset /\ w.cand = <<>>
       /\ w.seen = S /\ w.new = N /\ w.mine = NoRows /\ w.used = Unset /\ w.tokens = 0 /\ w.hung = 0 /\ w.owed = 0
    BY ONLY <1>13
<1>16. w.phase \in Phases /\ w.at \in 0..(Len(w.plan) + 1) BY <1>15 DEF Phases
<1>17. Kept(w, clock) BY <1>11, <1>12, <1>14, <1>15, <1>16, NoRowsSome DEF Kept, Choice
<1>18. r \notin Busy BY FreeIs DEF EditProvider
<1>19. QED BY <1>5, <1>10, <1>11, <1>15, <1>17, <1>18, NoRowsSome

LEMMA ProbedDoes ==
    ASSUME Typed, NEW r \in Busy, Probed(r)
    PROVE  \E w, p : /\ Turns(r, w) /\ Kept(w, clock) /\ p \in Reals /\ DOMAIN req[r].seen = {p}
                     /\ w.phase = "append" /\ w.owed = 0 /\ w.seen = req[r].seen /\ DOMAIN w.mine = {}
                     /\ DOMAIN w.new = {p}
                     /\ \/ w.new[p] = req[r].seen[p] /\ ill' = ill
                        \/ /\ w.new[p] \in ProviderRow /\ w.new[p].fails = 0
                           /\ w.new[p].until = req[r].seen[p].until /\ ill' = [ill EXCEPT ![p] = 0]
<1> PICK q : q = req[r] OBVIOUS
<1>1. Kept(q, clock) /\ q.phase = "probe" /\ InShape(q) BY DEF Typed, Kept, Probed
<1>2. r \in Requests BY DEF Busy
<1>3. PICK ok \in BOOLEAN, p \in DOMAIN q.seen :
          /\ req' = [req EXCEPT ![r].phase = "append",
                                ![r].new = Set(@, p, IF ok THEN [q.seen[p] EXCEPT !.fails = 0] ELSE q.seen[p])]
          /\ ill' = [ill EXCEPT ![p] = IF ok THEN 0 ELSE @]
    BY DEF Probed
<1>4. p \in Reals /\ DOMAIN q.seen = {p} /\ DOMAIN q.mine = {} /\ q.owed = 0 /\ DOMAIN q.new = {} /\ q.at = 0
    BY <1>1 DEF Kept
<1>5. p \in Rows /\ p # Usage BY <1>4, AgentRunsAssumption DEF Reals, Rows
<1>6. PICK v : v = IF ok THEN [q.seen[p] EXCEPT !.fails = 0] ELSE q.seen[p] OBVIOUS
<1>7. PICK y : y = q.seen[p] OBVIOUS
<1>8. y \in ProviderRow /\ y.until <= clock + Cooldown BY <1>1, <1>5, <1>7 DEF Kept, Some, Sound
<1>9. v \in ProviderRow /\ v.until = y.until /\ (ok => v.fails = 0) /\ (~ok => v = y)
  <2>1. CASE ~ok BY <1>6, <1>7, <1>8, <2>1
  <2>2. CASE ok
    <3>1. v = [y EXCEPT !.fails = 0] BY <1>6, <1>7, <2>2
    <3>2. y = [on |-> y.on, allow |-> y.allow, serves |-> y.serves, fails |-> y.fails, until |-> y.until,
               used |-> y.used]
      BY <1>8 DEF ProviderRow
    <3>3. v = [on |-> y.on, allow |-> y.allow, serves |-> y.serves, fails |-> 0, until |-> y.until, used |-> y.used]
      BY ONLY <3>1, <3>2
    <3>4. QED BY ONLY <1>8, <2>2, <3>3 DEF ProviderRow
  <2>3. QED BY <2>1, <2>2
<1>10. Sound(p, v, clock) BY <1>5, <1>8, <1>9 DEF Sound
<1> DEFINE N == Set(q.new, p, v)
<1>11. Some(N, clock) BY <1>1, <1>5, <1>10, SetSome DEF Kept
<1>12. DOMAIN N = {p} /\ N[p] = v BY <1>4 DEF Set
<1>13. PICK w : w = [q EXCEPT !.phase = "append", !.new = N] OBVIOUS
<1>14. Turns(r, w)
  <2>1. req' = [req EXCEPT ![r].phase = "append", ![r].new = Set(@, p, v)] BY <1>3, <1>6
  <2>2. QED BY <1>2, <1>13, <2>1 DEF Turns, Typed
<1> HIDE DEF N
<1>15. q = [plan |-> q.plan, at |-> q.at, phase |-> q.phase, pol |-> q.pol, to |-> q.to, cand |-> q.cand,
           seen |-> q.seen,
           new |-> q.new, mine |-> q.mine, used |-> q.used, tokens |-> q.tokens, hung |-> q.hung, owed |-> q.owed]
    BY <1>1 DEF InShape
<1>16. w = [plan |-> q.plan, at |-> q.at, phase |-> "append", pol |-> q.pol, to |-> q.to, cand |-> q.cand,
           seen |-> q.seen,
           new |-> N, mine |-> q.mine, used |-> q.used, tokens |-> q.tokens, hung |-> q.hung, owed |-> q.owed]
    BY ONLY <1>13, <1>15
<1>17. InShape(w) BY ONLY <1>16 DEF InShape
<1>18. /\ w.plan = q.plan /\ w.at = q.at /\ w.phase = "append" /\ w.pol = q.pol /\ w.to = q.to
       /\ w.cand = q.cand /\ w.seen = q.seen
       /\ w.new = N /\ w.mine = q.mine /\ w.used = q.used /\ w.tokens = q.tokens /\ w.hung = q.hung /\ w.owed = q.owed
    BY ONLY <1>16
<1>19. w.phase \in Phases BY <1>18 DEF Phases
<1>20. Kept(w, clock) BY <1>1, <1>4, <1>11, <1>12, <1>17, <1>18, <1>19 DEF Kept
<1>21. CASE ok
  <2>1. ill' = [ill EXCEPT ![p] = 0] BY <1>3, <1>21
  <2>2. QED BY <1>4, <1>7, <1>9, <1>12, <1>14, <1>18, <1>20, <1>21, <2>1
<1>22. CASE ~ok
  <2>1. ill' = ill BY <1>3, <1>22 DEF Typed
  <2>2. QED BY <1>4, <1>7, <1>9, <1>12, <1>14, <1>18, <1>20, <1>22, <2>1
<1>23. QED BY <1>21, <1>22

LEMMA CallDoes ==
    ASSUME Typed, NEW r \in Busy, Call(r), NEW p, p = Head(req[r].cand)
    PROVE  /\ req[r].phase = "call" /\ p \in Range(req[r].cand)
           /\ p # Sim => p \in Reals /\ p \in DOMAIN req[r].seen
           /\ \/ /\ p = Sim /\ UNCHANGED <<strays, ill, due, mixed, battered>>
                 /\ \E a, w : /\ Turns(r, w) /\ Kept(w, clock) /\ Answers(r, p, 1, a) /\ Closes(r, a, w)
                              /\ w.phase \in {"verify", "run", "append", "commit", "flush"}
                              /\ (w.phase = "verify" => w.seen = a.seen)
              \/ /\ p # Sim /\ Observe(r, p, "primary", req[r].pol, req[r].seen[p]) /\ Count(r, p, TRUE)
                 /\ \E n \in Nat : \E a, w :
                              /\ Turns(r, w) /\ Kept(w, clock) /\ Answers(r, p, n, a) /\ Closes(r, a, w)
                              /\ w.phase \in {"verify", "run", "append", "commit", "flush"}
                              /\ (w.phase = "verify" => w.seen = a.seen)
              \/ /\ p # Sim /\ Observe(r, p, "primary", req[r].pol, req[r].seen[p]) /\ Count(r, p, FALSE)
                 /\ \E w : Turns(r, w) /\ Kept(w, clock) /\ Fails(r, p, w)
<1>1. req[r].phase = "call" /\ req[r].cand # <<>> /\ r \in Requests BY DEF Call, Busy
<1>2. p \in Range(req[r].cand) /\ p \in Providers
  <2>1. req[r].cand \in Seq(Providers) BY DEF Typed, Kept
  <2>2. p = req[r].cand[1] /\ 1 \in DOMAIN req[r].cand BY <1>1, <2>1, HeadTailProperties, LenProperties
  <2>3. QED BY <2>1, <2>2, ElementOfSeq, LenProperties DEF Range
<1>3. p # Sim => p \in Reals /\ p \in DOMAIN req[r].seen
  <2>1. Range(req[r].cand) \ {Sim} \subseteq DOMAIN req[r].seen BY <1>1 DEF Typed, Kept
  <2>2. QED BY <1>2, <2>1 DEF Reals
<1> DEFINE ans(n) == Answering(r, p, n)
           went(n) == GoneOn(r, ans(n))
           fail(late) == [req[r] EXCEPT !.new = Set(@, p, Failed(Current(r, p))), !.cand = Tail(@), !.hung = @ + late]
<1>4. ASSUME NEW n \in Nat
      PROVE  /\ Kept(went(n), clock) /\ Answers(r, p, n, ans(n)) /\ Closes(r, ans(n), went(n))
             /\ went(n).phase \in {"verify", "run", "append", "commit", "flush"}
             /\ (went(n).phase = "verify" => went(n).seen = ans(n).seen)
  <2>1. PICK a : a = Answering(r, p, n) OBVIOUS
  <2>2. PICK w : w = GoneOn(r, a) OBVIOUS
  <2>3. /\ Kept(w, clock) /\ Answers(r, p, n, a) /\ Closes(r, a, w)
        /\ w.phase \in {"verify", "run", "append", "commit", "flush"} /\ (w.phase = "verify" => w.seen = a.seen)
    BY ONLY Typed, r \in Busy, <1>1, p = Head(req[r].cand), n \in Nat, <2>1, <2>2, AnswerDoes
  <2>4. QED BY <2>1, <2>2, <2>3
<1>5. ASSUME NEW late \in Nat, p # Sim PROVE Kept(fail(late), clock) /\ Fails(r, p, fail(late))
  <2>1. PICK w : w = fail(late) OBVIOUS
  <2>2. Kept(w, clock) /\ Fails(r, p, w) BY <1>1, <1>5, <2>1, FailureDoes
  <2>3. QED BY <2>1, <2>2
<1>6. \/ p = Sim /\ req' = [req EXCEPT ![r] = went(1)] /\ UNCHANGED <<strays, ill, due, mixed, battered>>
      \/ /\ p # Sim /\ Observe(r, p, "primary", req[r].pol, req[r].seen[p])
         /\ \E x \in Completions : /\ Count(r, p, x.ok)
                                   /\ req' = [req EXCEPT ![r] = IF x.ok THEN went(x.tokens) ELSE fail(x.late)]
  <2>1. CASE p = Sim
    <3>1. req' = [req EXCEPT ![r] = went(1)] BY <2>1 DEF Call, Answering, GoneOn
    <3>2. QED BY <2>1, <3>1 DEF Call
  <2>2. CASE p # Sim
    <3>1. /\ Observe(r, p, "primary", req[r].pol, req[r].seen[p])
          /\ \E x \in Completions : /\ Count(r, p, x.ok)
                                    /\ IF x.ok THEN req' = [req EXCEPT ![r] = went(x.tokens)]
                                       ELSE req' = [req EXCEPT ![r] = fail(x.late)]
      BY <2>2 DEF Call, Answering, GoneOn
    <3> HIDE DEF went, fail
    <3>2. QED BY <2>2, <3>1
  <2>3. QED BY <2>1, <2>2
<1> HIDE DEF ans, went, fail
<1>7. CASE p = Sim
  <2>1. Turns(r, went(1)) /\ UNCHANGED <<strays, ill, due, mixed, battered>> BY <1>1, <1>6, <1>7 DEF Turns
  <2>2. QED BY <1>1, <1>2, <1>4, <1>7, <2>1
<1>8. CASE p # Sim
  <2>1. PICK x \in Completions : /\ Count(r, p, x.ok)
                                 /\ req' = [req EXCEPT ![r] = IF x.ok THEN went(x.tokens) ELSE fail(x.late)]
    BY <1>6, <1>8
  <2>2. CASE x \in [ok : {TRUE}, tokens : Sizes, late : {0}]
    <3>1. x.ok = TRUE /\ x.tokens \in Sizes BY <2>2
    <3>2. x.tokens \in Nat BY <3>1, AgentRunsAssumption
    <3>3. Turns(r, went(x.tokens)) /\ Count(r, p, TRUE) BY <1>1, <2>1, <3>1 DEF Turns
    <3>4. PICK n \in Nat : n = x.tokens BY <3>2
    <3>5. \E a, w : /\ Turns(r, w) /\ Kept(w, clock) /\ Answers(r, p, n, a) /\ Closes(r, a, w)
                    /\ w.phase \in {"verify", "run", "append", "commit", "flush"}
                    /\ (w.phase = "verify" => w.seen = a.seen)
      BY <1>4, <3>3, <3>4
    <3>6. QED BY <1>1, <1>2, <1>3, <1>6, <1>8, <3>3, <3>5
  <2>3. CASE x \in [ok : {FALSE}, tokens : {0}, late : {0, 1}]
    <3>1. x.ok = FALSE /\ x.late \in {0, 1} BY <2>3
    <3>2. Turns(r, fail(x.late)) /\ Count(r, p, FALSE) BY <1>1, <2>1, <3>1 DEF Turns
    <3>3. \E w : Turns(r, w) /\ Kept(w, clock) /\ Fails(r, p, w) BY <1>5, <1>8, <3>1, <3>2
    <3>4. QED BY <1>1, <1>2, <1>3, <1>6, <1>8, <3>2, <3>3
  <2>4. QED BY <2>2, <2>3 DEF Completions
<1>9. QED BY <1>7, <1>8

-----------------------------------------------------------------------------
(* Types, and one writer for each row.                                     *)

LEMMA KeptLater ==
    ASSUME NEW q, NEW t \in Nat, NEW u \in Nat, t <= u, Kept(q, t)
    PROVE  Kept(q, u)
<1>1. Some(q.seen, u) /\ Some(q.new, u) /\ Some(q.mine, u) BY SomeLater DEF Kept
<1>2. QED BY <1>1 DEF Kept

\* One request goes on, alone with what it writes, or is over.
LEMMA TurnKeeps ==
    ASSUME Typed, Locked, NEW r, NEW w, Turns(r, w),
           w = Unset \/ (Kept(w, clock) /\ \A s \in Busy \ {r} : DOMAIN w.mine \cap DOMAIN req[s].mine = {}),
           clock' = clock
    PROVE  /\ req' = [s \in Requests |-> req'[s]] /\ (\A s \in Busy' : Kept(req'[s], clock')) /\ Locked'
<1>1. /\ req' = [s \in Requests |-> req'[s]] /\ req'[r] = w
      /\ \A s \in Requests \ {r} : req'[s] = req[s]
    BY Turned
<1>2. \A s \in Busy' \ {r} : s \in Busy /\ req'[s] = req[s] BY <1>1 DEF Busy
<1>3. r \in Busy' => w # Unset BY <1>1 DEF Busy
<1>4. \A s \in Busy' : Kept(req'[s], clock') BY <1>1, <1>2, <1>3 DEF Typed
<1>5. Locked'
  <2>1. ASSUME NEW s \in Busy', NEW u \in Busy', s # u PROVE DOMAIN req'[s].mine \cap DOMAIN req'[u].mine = {}
    <3>1. CASE s = r BY <1>1, <1>2, <1>3, <2>1, <3>1
    <3>2. CASE u = r BY <1>1, <1>2, <1>3, <2>1, <3>2
    <3>3. CASE s # r /\ u # r BY <1>2, <2>1, <3>3 DEF Locked
    <3>4. QED BY <3>1, <3>2, <3>3
  <2>2. QED BY <2>1 DEF Locked
<1>6. QED BY <1>1, <1>4, <1>5

LEMMA NoneWritten ==
    ASSUME Locked, NEW r \in Busy, NEW w, DOMAIN w.mine = DOMAIN req[r].mine
    PROVE  \A s \in Busy \ {r} : DOMAIN w.mine \cap DOMAIN req[s].mine = {}
BY DEF Locked

LEMMA CountTyped ==
    ASSUME Typed, NEW r, NEW p \in Reals, NEW ok \in BOOLEAN, Count(r, p, ok)
    PROVE  ill' \in [Providers -> Nat] /\ due' \in [Providers -> Nat]
<1>1. p \in Providers /\ clock + Cooldown \in Nat BY AgentRunsAssumption DEF Reals, Typed
<1>2. ill[p] \in Nat /\ ill \in [Providers -> Nat] /\ due \in [Providers -> Nat] /\ due[p] \in Nat BY <1>1 DEF Typed
<1>3. /\ ill' = [ill EXCEPT ![p] = IF ok THEN 0 ELSE @ + 1]
      /\ due' = [due EXCEPT ![p] = IF ok THEN 0 ELSE IF ill[p] + 1 >= Threshold THEN clock + Cooldown ELSE @]
    BY DEF Count
<1>4. QED BY <1>1, <1>2, <1>3

LEMMA TypedInit == RunsInit => Typed /\ Locked
<1> SUFFICES ASSUME RunsInit PROVE Typed /\ Locked OBVIOUS
<1>1. Busy = {} /\ req = [r \in Requests |-> req[r]] BY DEF RunsInit, Busy
<1>2. /\ policy \in Policies /\ off \subseteq DOMAIN Agents /\ route \in [Capabilities -> Routes]
      /\ clock \in Nat /\ owed \in Nat /\ raced \in BOOLEAN
    BY AgentRunsAssumption DEF RunsInit
<1>3. ill \in [Providers -> Nat] /\ due \in [Providers -> Nat] BY DEF RunsInit
<1>4. row = [x \in Rows |-> IF x = Usage THEN [quantity |-> 0] ELSE Fresh(Start.config[x])] /\ clock = 1
    BY DEF RunsInit
<1>5. \A x \in Rows : Sound(x, row[x], clock)
  <2>1. TAKE x \in Rows
  <2>2. CASE x = Usage BY <1>4, <2>2 DEF Sound, UsageRow
  <2>3. CASE x # Usage
    <3>1. Start.config[x] \in Config BY <2>3, AgentRunsAssumption DEF Rows
    <3>2. row[x] = Fresh(Start.config[x]) BY <1>4, <2>3
    <3>3. row[x] \in ProviderRow /\ row[x].until = 0 BY <3>1, <3>2 DEF Fresh, Config, ProviderRow
    <3>4. QED BY <1>4, <2>3, <3>3, AgentRunsAssumption DEF Sound
  <2>4. QED BY <2>2, <2>3
<1>6. DOMAIN row = Rows /\ Some(row, clock) BY <1>4, <1>5 DEF Some
<1>7. QED BY <1>1, <1>2, <1>3, <1>6 DEF Typed, Locked

LEMMA TypedNext == Typed /\ Locked /\ [RunsNext]_runVars => Typed' /\ Locked'
<1> SUFFICES ASSUME Typed, Locked, [RunsNext]_runVars PROVE Typed' /\ Locked' OBVIOUS
<1> DEFINE Still == UNCHANGED <<policy, route, off, clock, row, owed>>
           Turning == req' = [s \in Requests |-> req'[s]] /\ (\A s \in Busy' : Kept(req'[s], clock')) /\ Locked'
<1>0. /\ policy \in Policies /\ off \subseteq DOMAIN Agents /\ route \in [Capabilities -> Routes]
      /\ clock \in Nat /\ owed \in Nat /\ raced \in BOOLEAN
      /\ ill \in [Providers -> Nat] /\ due \in [Providers -> Nat]
      /\ DOMAIN row = Rows /\ Some(row, clock) /\ req = [r \in Requests |-> req[r]]
      /\ \A r \in Busy : Kept(req[r], clock)
    BY DEF Typed
<1>same. ASSUME UNCHANGED req, clock' = clock PROVE Turning
  <2>1. Busy' = Busy BY <1>same DEF Busy
  <2>2. QED BY <1>0, <1>same, <2>1 DEF Locked
<1>still. ASSUME Still, Turning, raced' \in BOOLEAN, ill' \in [Providers -> Nat], due' \in [Providers -> Nat]
          PROVE  Typed' /\ Locked'
  BY <1>0, <1>still DEF Typed
<1>1. ASSUME NEW r \in Requests, NEW kind \in DOMAIN Plans, Request(r, kind) PROVE Typed' /\ Locked'
  <2>1. PICK w : Turns(r, w) /\ Kept(w, clock) /\ DOMAIN w.mine = {} BY <1>1, RequestDoes
  <2>2. Still /\ UNCHANGED <<raced, ill, due>> BY <1>1 DEF Request, config, ghosts
  <2>3. Turning BY <2>1, <2>2, TurnKeeps
  <2>4. QED BY <1>0, <1>still, <2>2, <2>3
<1>2. ASSUME NEW r \in Requests, NEW p \in Reals, Probe(r, p) PROVE Typed' /\ Locked'
  <2>1. PICK w : Turns(r, w) /\ Kept(w, clock) /\ DOMAIN w.mine = {} BY <1>2, ProbeDoes
  <2>2. Still /\ UNCHANGED <<raced, ill, due>> BY <1>2 DEF Probe, config
  <2>3. Turning BY <2>1, <2>2, TurnKeeps
  <2>4. QED BY <1>0, <1>still, <2>2, <2>3
<1>3. ASSUME NEW r \in Requests, Invoke(r) PROVE Typed' /\ Locked'
  <2>1. r \in Busy BY <1>3 DEF Invoke
  <2>2. PICK w : Turns(r, w) /\ Kept(w, clock) /\ w.mine = req[r].mine BY <1>3, <2>1, InvokeDoes
  <2>3. Still /\ UNCHANGED <<raced, ill, due>> BY <1>3 DEF Invoke, config
  <2>4. Turning BY <2>1, <2>2, <2>3, TurnKeeps, NoneWritten
  <2>5. QED BY <1>0, <1>still, <2>3, <2>4
<1>4. ASSUME NEW r \in Requests, Call(r) PROVE Typed' /\ Locked'
  <2>1. r \in Busy BY <1>4 DEF Call
  <2>2. PICK p : p = Head(req[r].cand) OBVIOUS
  <2>3. \E w : Turns(r, w) /\ Kept(w, clock) /\ w.mine = req[r].mine
    <3>1. \A n, a, w : Answers(r, p, n, a) /\ Closes(r, a, w) => w.mine = req[r].mine BY DEF Answers, Closes
    <3>2. \A w : Fails(r, p, w) => w.mine = req[r].mine BY DEF Fails
    <3>3. \/ \E a, w : Turns(r, w) /\ Kept(w, clock) /\ Answers(r, p, 1, a) /\ Closes(r, a, w)
          \/ \E n \in Nat : \E a, w : Turns(r, w) /\ Kept(w, clock) /\ Answers(r, p, n, a) /\ Closes(r, a, w)
          \/ \E w : Turns(r, w) /\ Kept(w, clock) /\ Fails(r, p, w)
      BY <1>4, <2>1, <2>2, CallDoes
    <3>4. QED BY <3>1, <3>2, <3>3
  <2>4. PICK w : Turns(r, w) /\ Kept(w, clock) /\ w.mine = req[r].mine BY <2>3
  <2>5. Still /\ UNCHANGED raced BY <1>4 DEF Call, config
  <2>6. Turning BY <2>1, <2>4, <2>5, TurnKeeps, NoneWritten
  <2>7. \/ p = Sim /\ UNCHANGED <<ill, due>>
        \/ p \in Reals /\ \E ok \in BOOLEAN : Count(r, p, ok)
    BY <1>4, <2>1, <2>2, CallDoes
  <2>8. ill' \in [Providers -> Nat] /\ due' \in [Providers -> Nat] BY <1>0, <2>7, CountTyped
  <2>9. QED BY <1>0, <1>still, <2>5, <2>6, <2>8
<1>5. ASSUME NEW r \in Requests, Verify(r) PROVE Typed' /\ Locked'
  <2>1. r \in Busy BY <1>5 DEF Verify
  <2>2. PICK w : Turns(r, w) /\ Kept(w, clock) /\ Closes(r, req[r], w) BY <1>5, <2>1, VerifyDoes
  <2>3. w.mine = req[r].mine BY <2>2 DEF Closes
  <2>4. Still /\ UNCHANGED <<raced, ill, due>> BY <1>5 DEF Verify, config
  <2>5. Turning BY <2>1, <2>2, <2>3, <2>4, TurnKeeps, NoneWritten
  <2>6. QED BY <1>0, <1>still, <2>4, <2>5
<1>6. ASSUME NEW r \in Requests, Flush(r) PROVE Typed' /\ Locked'
  <2>1. r \in Busy BY <1>6 DEF Flush
  <2>2. PICK w, x : /\ Turns(r, w) /\ Kept(w, clock) /\ Writes(r, x, w)
                    /\ \A s \in Busy \ {r} : x \notin DOMAIN req[s].mine
                    /\ raced' = (raced \/ Races(r, x))
    BY <1>6, <2>1, FlushDoes
  <2>3. DOMAIN w.mine = DOMAIN req[r].mine \cup {x} BY <2>2 DEF Writes, Set
  <2>4. \A s \in Busy \ {r} : DOMAIN w.mine \cap DOMAIN req[s].mine = {} BY <2>1, <2>2, <2>3 DEF Locked
  <2>5. Still /\ UNCHANGED <<ill, due>> BY <1>6 DEF Flush, config
  <2>6. Turning BY <2>2, <2>4, <2>5, TurnKeeps
  <2>7. raced' \in BOOLEAN BY <1>0, <2>2 DEF Races
  <2>8. QED BY <1>0, <1>still, <2>5, <2>6, <2>7
<1>7. ASSUME NEW r \in Requests, CommitRun(r) PROVE Typed' /\ Locked'
  <2>1. r \in Busy BY <1>7 DEF CommitRun
  <2>2. PICK w : Turns(r, w) /\ Leaves(w) BY <1>7, <2>1, CommitDoes
  <2>3. Turning
    <3>1. clock' = clock BY <1>7 DEF CommitRun
    <3>2. w = Unset \/ (Kept(w, clock) /\ DOMAIN w.mine = {}) BY <2>2 DEF Leaves
    <3>3. QED BY <2>2, <3>1, <3>2, TurnKeeps
  <2>4. UNCHANGED <<policy, route, off, clock, raced, ill, due>> BY <1>7 DEF CommitRun, config
  <2>5. /\ row' = [x \in Rows |-> IF x \in DOMAIN req[r].mine THEN req[r].mine[x] ELSE row[x]]
        /\ owed' = owed + req[r].owed
    BY <1>7 DEF CommitRun
  <2>6. Some(req[r].mine, clock) /\ req[r].owed \in Nat BY <1>0, <2>1 DEF Kept
  <2>7. DOMAIN row' = Rows /\ Some(row', clock') BY <1>0, <2>4, <2>5, <2>6 DEF Some
  <2>8. owed' \in Nat BY <1>0, <2>5, <2>6
  <2>9. QED BY <1>0, <2>3, <2>4, <2>7, <2>8 DEF Typed
<1>8. ASSUME NEW r \in Requests, RollBack(r) PROVE Typed' /\ Locked'
  <2>1. Turns(r, Unset) BY <1>8 DEF RollBack, Turns
  <2>2. Still /\ UNCHANGED <<raced, ill, due>> BY <1>8 DEF RollBack, config
  <2>3. Turning BY <2>1, <2>2, TurnKeeps
  <2>4. QED BY <1>0, <1>still, <2>2, <2>3
<1>9. ASSUME NEW r \in Requests, Probed(r) PROVE Typed' /\ Locked'
  <2>1. r \in Busy BY <1>9 DEF Probed
  <2>2. PICK w, p : /\ Turns(r, w) /\ Kept(w, clock) /\ p \in Reals /\ DOMAIN w.mine = {}
                    /\ ill' = ill \/ ill' = [ill EXCEPT ![p] = 0]
    BY <1>9, <2>1, ProbedDoes
  <2>3. Still /\ UNCHANGED <<raced, due>> BY <1>9 DEF Probed, config
  <2>4. Turning BY <2>2, <2>3, TurnKeeps
  <2>5. ill' \in [Providers -> Nat] BY <1>0, <2>2 DEF Reals
  <2>6. QED BY <1>0, <1>still, <2>3, <2>4, <2>5
<1>10. ASSUME NEW r \in Requests, NEW p \in Reals, NEW c \in Configs, EditProvider(r, p, c) PROVE Typed' /\ Locked'
  <2>1. PICK w : Turns(r, w) /\ Kept(w, clock) /\ DOMAIN w.mine = {} BY <1>10, EditDoes
  <2>2. Still /\ UNCHANGED <<raced, ill, due>> BY <1>10 DEF EditProvider, config
  <2>3. Turning BY <2>1, <2>2, TurnKeeps
  <2>4. QED BY <1>0, <1>still, <2>2, <2>3
<1>lock. ASSUME NEW r \in Requests, TakeProcess(r) \/ TakeChain(r) PROVE Typed' /\ Locked'
  <2>1. r \in Busy BY <1>lock DEF TakeProcess, TakeChain
  <2>2. PICK w : Turns(r, w) /\ Kept(w, clock) /\ w.mine = req[r].mine BY <1>lock, <2>1, LockDoes DEF Proceeds
  <2>3. Still /\ UNCHANGED <<raced, ill, due>> BY <1>lock DEF TakeProcess, TakeChain, config, ghosts
  <2>4. Turning BY <2>1, <2>2, <2>3, TurnKeeps, NoneWritten
  <2>5. QED BY <1>0, <1>still, <2>3, <2>4
<1>11. ASSUME NEW pol \in Policies, SetPolicy(pol) PROVE Typed' /\ Locked'
  <2>1. UNCHANGED <<req, clock, row, route, off, owed, raced, ill, due>> /\ policy' = pol
    BY <1>11 DEF SetPolicy, ghosts
  <2>2. Turning BY <1>same, <2>1
  <2>3. QED BY <1>0, <2>1, <2>2 DEF Typed
<1>12. ASSUME NEW a \in DOMAIN Agents, SetAgent(a) PROVE Typed' /\ Locked'
  <2>1. UNCHANGED <<req, clock, row, route, policy, owed, raced, ill, due>> /\ off' \subseteq DOMAIN Agents
    BY <1>0, <1>12 DEF SetAgent, ghosts
  <2>2. Turning BY <1>same, <2>1
  <2>3. QED BY <1>0, <2>1, <2>2 DEF Typed
<1>13. ASSUME NEW c \in Capabilities, NEW to \in Routes, SetRoute(c, to) PROVE Typed' /\ Locked'
  <2>1. UNCHANGED <<req, clock, row, off, policy, owed, raced, ill, due>> /\ route' \in [Capabilities -> Routes]
    BY <1>0, <1>13 DEF SetRoute, ghosts
  <2>2. Turning BY <1>same, <2>1
  <2>3. QED BY <1>0, <2>1, <2>2 DEF Typed
<1>14. ASSUME Tick PROVE Typed' /\ Locked'
  <2>1. UNCHANGED <<req, row, off, route, policy, owed, raced, ill, due>> /\ clock' = clock + 1
    BY <1>14 DEF Tick, config, ghosts
  <2>2. Busy' = Busy BY <2>1 DEF Busy
  <2>3. clock \in Nat /\ clock' \in Nat /\ clock <= clock' BY <1>0, <2>1
  <2>4. Some(row', clock') BY <1>0, <2>1, <2>3, SomeLater
  <2>5. \A s \in Busy' : Kept(req'[s], clock') BY <1>0, <2>1, <2>2, <2>3, KeptLater
  <2>6. Locked' BY <2>1, <2>2 DEF Locked
  <2>7. QED BY <1>0, <2>1, <2>3, <2>4, <2>5, <2>6 DEF Typed
<1>15. CASE UNCHANGED runVars
  <2>1. UNCHANGED <<req, clock>> /\ UNCHANGED <<policy, route, off, row, owed, raced, ill, due>> BY <1>15 DEF runVars
  <2>2. Turning BY <1>same, <2>1
  <2>3. QED BY <1>0, <2>1, <2>2 DEF Typed
<1>16. QED
  <2>1. CASE RunsNext
    BY <2>1, <1>1, <1>2, <1>3, <1>4, <1>5, <1>6, <1>7, <1>8, <1>9, <1>10, <1>11, <1>12, <1>13, <1>14, <1>lock
       DEF RunsNext, Abort, Stop
  <2>2. QED BY <2>1, <1>15

-----------------------------------------------------------------------------
(* What leaves for a provider.                                             *)

\* What an administrator sets of a provider.
LEMMA SameSettings ==
    ASSUME NEW u \in ProviderRow, NEW v \in ProviderRow,
           [u EXCEPT !.fails = 0, !.until = 0, !.used = 0] = [v EXCEPT !.fails = 0, !.until = 0, !.used = 0]
    PROVE  u.on = v.on /\ u.allow = v.allow /\ u.serves = v.serves
<1>1. PICK w : w = [u EXCEPT !.fails = 0, !.until = 0, !.used = 0] OBVIOUS
<1>2. w = [v EXCEPT !.fails = 0, !.until = 0, !.used = 0] BY <1>1
<1>3. u = [on |-> u.on, allow |-> u.allow, serves |-> u.serves, fails |-> u.fails, until |-> u.until, used |-> u.used]
    BY DEF ProviderRow
<1>4. v = [on |-> v.on, allow |-> v.allow, serves |-> v.serves, fails |-> v.fails, until |-> v.until, used |-> v.used]
    BY DEF ProviderRow
<1>5. w = [on |-> u.on, allow |-> u.allow, serves |-> u.serves, fails |-> 0, until |-> 0, used |-> 0]
    BY ONLY <1>1, <1>3
<1>6. w = [on |-> v.on, allow |-> v.allow, serves |-> v.serves, fails |-> 0, until |-> 0, used |-> 0]
    BY ONLY <1>2, <1>4
<1>7. w.on = u.on /\ w.allow = u.allow /\ w.serves = u.serves BY ONLY <1>5
<1>8. w.on = v.on /\ w.allow = v.allow /\ w.serves = v.serves BY ONLY <1>6
<1>9. QED BY <1>7, <1>8

LEMMA RowSound ==
    ASSUME Typed, NEW p \in Reals
    PROVE  row[p] \in ProviderRow /\ row[p].until <= clock + Cooldown /\ p \in Rows /\ p # Usage
BY AgentRunsAssumption DEF Typed, Some, Sound, Reals, Rows

\* A stray call is that of a verifier and against the class of the data, or follows a change.
LEMMA StrayKept ==
    ASSUME DataStaysWithin, NEW r, NEW p, NEW role, NEW pol, NEW prow, Observe(r, p, role, pol, prow),
           \/ pol # policy
           \/ [prow EXCEPT !.fails = 0, !.until = 0, !.used = 0] # [row[p] EXCEPT !.fails = 0, !.until = 0, !.used = 0]
           \/ /\ role = "verifier"
              /\ \/ Agents[Agent(r)].cls > row[p].allow
                 \/ policy.strategy = "hybrid" /\ p \notin Private
           \/ Permitted(p, row[p], policy, Agents[Agent(r)].cls) /\ row[p].on
    PROVE  DataStaysWithin'
<1> DEFINE class == Agents[Agent(r)].cls > row[p].allow \/ (policy.strategy = "hybrid" /\ p \notin Private)
           changed == pol # policy \/ [prow EXCEPT !.fails = 0, !.until = 0, !.used = 0]
                                       # [row[p] EXCEPT !.fails = 0, !.until = 0, !.used = 0]
           good == Permitted(p, row[p], policy, Agents[Agent(r)].cls) /\ row[p].on
           new == [role |-> role, class |-> class, changed |-> changed]
<1>1. strays' = strays \cup (IF good THEN {} ELSE {new}) BY DEF Observe
<1>2. good \/ changed \/ (role = "verifier" /\ class) OBVIOUS
<1> HIDE DEF good, class, changed
<1>3. good \/ new.changed \/ (new.role = "verifier" /\ new.class) BY <1>2
<1>4. \A s \in strays' : s.changed \/ (s.role = "verifier" /\ s.class)
  <2>1. TAKE s \in strays'
  <2>2. CASE s \in strays BY <2>2 DEF DataStaysWithin
  <2>3. CASE s \notin strays
    <3>1. ~good /\ s = new BY <1>1, <2>3
    <3>2. QED BY <1>3, <3>1
  <2>4. QED BY <2>2, <2>3
<1>5. QED BY <1>4 DEF DataStaysWithin

LEMMA ModelWithin ==
    ASSUME Typed, DataStaysWithin, NEW r \in Busy, req[r].phase = "call", Cleared(req[r]),
           NEW p \in Range(req[r].cand) \cap Reals, p # Sim, p \in DOMAIN req[r].seen,
           Observe(r, p, "primary", req[r].pol, req[r].seen[p])
    PROVE  DataStaysWithin'
<1> PICK s : s = req[r].seen[p] OBVIOUS
<1>1. row[p] \in ProviderRow /\ p # Usage BY RowSound
<1>2. s \in ProviderRow BY <1>1 DEF Typed, Kept, Some, Sound
<1>3. s.on /\ Permitted(p, s, req[r].pol, Agents[Agent(r)].cls) BY DEF Cleared, Agent
<1>4. CASE /\ req[r].pol = policy
           /\ [s EXCEPT !.fails = 0, !.until = 0, !.used = 0] = [row[p] EXCEPT !.fails = 0, !.until = 0, !.used = 0]
  <2>1. s.on = row[p].on /\ s.allow = row[p].allow /\ s.serves = row[p].serves BY <1>1, <1>2, <1>4, SameSettings
  <2>2. Permitted(p, row[p], policy, Agents[Agent(r)].cls) /\ row[p].on BY <1>3, <1>4, <2>1 DEF Permitted
  <2>3. QED BY <2>2, StrayKept
<1>5. CASE ~(/\ req[r].pol = policy
             /\ [s EXCEPT !.fails = 0, !.until = 0, !.used = 0]
                  = [row[p] EXCEPT !.fails = 0, !.until = 0, !.used = 0])
  BY <1>5, StrayKept
<1>6. QED BY <1>4, <1>5

\* Whom _verify asks, and what it has found of it.
VerifierRow(r) ==
    LET v == req[r].to.verifier
    IN  IF v \in DOMAIN req[r].seen THEN Current(r, v) ELSE Read(r, v)

LEMMA Asks ==
    ASSUME Typed, NEW r \in Busy, Verify(r)
    PROVE  \/ UNCHANGED <<strays, battered>>
           \/ \E v \in Reals : /\ v = req[r].to.verifier /\ VerifierRow(r) \in ProviderRow
                               /\ VerifierRow(r).on /\ ~CircuitOpen(VerifierRow(r))
                               /\ Permitted(v, VerifierRow(r), policy, 1)
                               /\ Observe(r, v, "verifier", policy, VerifierRow(r)) /\ Batter(r, v)
<1> DEFINE v == req[r].to.verifier
           asked == /\ v \notin {Unset, Sim, req[r].used} /\ VerifierRow(r).on /\ ~CircuitOpen(VerifierRow(r))
                    /\ Allowed(v, VerifierRow(r), policy, 1, Read(r, Usage).quantity)
<1>1. IF asked THEN Observe(r, v, "verifier", policy, VerifierRow(r)) /\ Batter(r, v) ELSE UNCHANGED <<strays, battered>>
    BY DEF Verify, VerifierRow
<1>2. v \in Choice
  <2>1. Kept(req[r], clock) /\ req[r].phase = "verify" BY DEF Typed, Verify
  <2>2. req[r].to \in Routes BY <2>1 DEF Kept
  <2>3. QED BY <2>2, AgentRunsAssumption
<1>3. CASE asked
  <2>1. v \in Reals BY <1>2, <1>3 DEF Choice, Reals
  <2>2. v \in Rows /\ v # Usage BY <2>1, AgentRunsAssumption DEF Reals, Rows
  <2>3. Sound(v, VerifierRow(r), clock) BY <2>2, CurrentSound, ReadSound DEF VerifierRow
  <2>4. VerifierRow(r) \in ProviderRow BY <2>2, <2>3 DEF Sound
  <2>5. Permitted(v, VerifierRow(r), policy, 1) BY <1>3 DEF Allowed
  <2>6. QED BY <1>1, <1>3, <2>1, <2>4, <2>5
<1>4. QED BY <1>1, <1>3

LEMMA VerifierWithin ==
    ASSUME Typed, DataStaysWithin, NEW r \in Busy, Verify(r)
    PROVE  DataStaysWithin'
<1>1. CASE UNCHANGED strays BY <1>1 DEF DataStaysWithin
<1>2. ASSUME NEW v \in Reals, VerifierRow(r) \in ProviderRow, VerifierRow(r).on,
             Permitted(v, VerifierRow(r), policy, 1), Observe(r, v, "verifier", policy, VerifierRow(r))
      PROVE  DataStaysWithin'
  <2> PICK s : s = VerifierRow(r) OBVIOUS
  <2> DEFINE same == [s EXCEPT !.fails = 0, !.until = 0, !.used = 0] = [row[v] EXCEPT !.fails = 0, !.until = 0, !.used = 0]
  <2>1. row[v] \in ProviderRow BY RowSound
  <2>2. PICK c : c = Agents[Agent(r)].cls OBVIOUS
  <2>3. c \in Nat /\ row[v].allow \in Nat
    <3>1. Kept(req[r], clock) /\ req[r].phase = "verify" BY DEF Typed, Verify
    <3>2. req[r].plan \in Seq(DOMAIN Agents) /\ req[r].at \in 1..Len(req[r].plan) BY <3>1 DEF Kept
    <3>3. Agent(r) \in DOMAIN Agents BY <3>2, ElementOfSeq DEF Agent
    <3>4. QED BY <2>1, <2>2, <3>3, AgentRunsAssumption DEF ProviderRow
  <2>4. CASE same
    <3>1. s.on = row[v].on /\ s.allow = row[v].allow /\ s.serves = row[v].serves BY <1>2, <2>1, <2>4, SameSettings
    <3>2. Permitted(v, row[v], policy, 1) /\ row[v].on BY <1>2, <3>1 DEF Permitted
    <3>3. CASE c > row[v].allow \/ (policy.strategy = "hybrid" /\ v \notin Private)
      BY <1>2, <2>2, <3>3, StrayKept
    <3>4. CASE ~(c > row[v].allow \/ (policy.strategy = "hybrid" /\ v \notin Private))
      <4>1. c <= row[v].allow BY <2>3, <3>4
      <4>2. Permitted(v, row[v], policy, c) BY <3>2, <3>4, <4>1 DEF Permitted
      <4>3. QED BY <1>2, <2>2, <3>2, <4>2, StrayKept
    <3>5. QED BY <3>3, <3>4
  <2>5. CASE ~same BY <1>2, <2>5, StrayKept
  <2>6. QED BY <2>4, <2>5
<1>3. QED BY <1>1, <1>2, Asks

\* Cleared speaks of one request.
LEMMA TurnCleared ==
    ASSUME Typed, \A s \in Busy : Cleared(req[s]), NEW r, NEW w, Turns(r, w), w = Unset \/ Cleared(w)
    PROVE  \A s \in Busy' : Cleared(req'[s])
<1>1. req'[r] = w /\ \A s \in Requests \ {r} : req'[s] = req[s] BY Turned
<1>2. QED BY <1>1 DEF Busy

LEMMA DataNext ==
    ASSUME Typed, DataStaysWithin, \A s \in Busy : Cleared(req[s]), [RunsNext]_runVars
    PROVE  DataStaysWithin' /\ \A s \in Busy' : Cleared(req'[s])
<1> DEFINE Goal == DataStaysWithin' /\ \A s \in Busy' : Cleared(req'[s])
<1>kept. ASSUME UNCHANGED strays PROVE DataStaysWithin' BY <1>kept DEF DataStaysWithin
<1>same. ASSUME UNCHANGED <<strays, req>> PROVE Goal BY <1>same DEF DataStaysWithin, Busy
<1>none. \A w : w.phase # "call" => Cleared(w) BY DEF Cleared
<1>1. ASSUME NEW r \in Requests, NEW kind \in DOMAIN Plans, Request(r, kind) PROVE Goal
  <2>1. PICK w : Turns(r, w) /\ w.phase = "run" BY <1>1, RequestDoes
  <2>2. UNCHANGED strays BY <1>1 DEF Request, ghosts
  <2>3. QED BY <1>kept, <1>none, <2>1, <2>2, TurnCleared
<1>2. ASSUME NEW r \in Requests, NEW p \in Reals, Probe(r, p) PROVE Goal
  <2>1. PICK w : Turns(r, w) /\ w.phase = "probe" BY <1>2, ProbeDoes
  <2>2. UNCHANGED strays BY <1>2 DEF Probe
  <2>3. QED BY <1>kept, <1>none, <2>1, <2>2, TurnCleared
<1>3. ASSUME NEW r \in Requests, Invoke(r) PROVE Goal
  <2>1. r \in Busy BY <1>3 DEF Invoke
  <2>2. PICK w : Turns(r, w) /\ (w.phase \in {"run", "append", "commit"} \/ Chosen(r, w)) BY <1>3, <2>1, InvokeDoes
  <2>3. Chosen(r, w) => Cleared(w) BY DEF Chosen, Cleared
  <2>4. UNCHANGED strays BY <1>3 DEF Invoke
  <2>5. QED BY <1>kept, <1>none, <2>2, <2>3, <2>4, TurnCleared
<1>4. ASSUME NEW r \in Requests, Call(r) PROVE Goal
  <2>1. r \in Busy BY <1>4 DEF Call
  <2>2. PICK p : p = Head(req[r].cand) OBVIOUS
  <2>3. req[r].phase = "call" /\ p \in Range(req[r].cand) /\ (p # Sim => p \in Reals /\ p \in DOMAIN req[r].seen)
    BY <1>4, <2>1, <2>2, CallDoes
  <2>4. \/ UNCHANGED strays
        \/ p # Sim /\ Observe(r, p, "primary", req[r].pol, req[r].seen[p])
    BY <1>4, <2>1, <2>2, CallDoes
  <2>5. DataStaysWithin' BY <1>kept, <2>1, <2>3, <2>4, ModelWithin
  <2>6. \/ \E w : Turns(r, w) /\ w.phase \in {"verify", "run", "append", "commit", "flush"}
        \/ \E w : Turns(r, w) /\ Fails(r, p, w)
    BY <1>4, <2>1, <2>2, CallDoes
  <2>7. ASSUME NEW w, Fails(r, p, w) PROVE Cleared(w)
    <3>1. Cleared(req[r]) BY <2>1
    <3>2. QED BY <2>3, <2>7, <3>1 DEF Fails, Cleared
  <2>8. QED BY <1>none, <2>5, <2>6, <2>7, TurnCleared
<1>5. ASSUME NEW r \in Requests, Verify(r) PROVE Goal
  <2>1. r \in Busy BY <1>5 DEF Verify
  <2>2. PICK w : Turns(r, w) /\ w.phase \in {"run", "append", "commit", "flush"} BY <1>5, <2>1, VerifyDoes
  <2>3. QED BY <1>5, <1>none, <2>1, <2>2, VerifierWithin, TurnCleared
<1>6. ASSUME NEW r \in Requests, Flush(r) PROVE Goal
  <2>1. r \in Busy BY <1>6 DEF Flush
  <2>2. PICK w, x : Turns(r, w) /\ Writes(r, x, w) BY <1>6, <2>1, FlushDoes
  <2>3. w.phase # "call" BY <2>2 DEF Writes
  <2>4. UNCHANGED strays BY <1>6 DEF Flush
  <2>5. QED BY <1>kept, <1>none, <2>2, <2>3, <2>4, TurnCleared
<1>7. ASSUME NEW r \in Requests, CommitRun(r) PROVE Goal
  <2>1. r \in Busy BY <1>7 DEF CommitRun
  <2>2. PICK w : Turns(r, w) /\ Leaves(w) BY <1>7, <2>1, CommitDoes
  <2>3. w = Unset \/ w.phase # "call" BY <2>2 DEF Leaves
  <2>4. UNCHANGED strays BY <1>7 DEF CommitRun
  <2>5. QED BY <1>kept, <1>none, <2>2, <2>3, <2>4, TurnCleared
<1>back. ASSUME NEW r \in Requests, RollBack(r) PROVE Goal
  <2>1. Turns(r, Unset) /\ UNCHANGED strays BY <1>back DEF RollBack, Turns
  <2>2. QED BY <1>kept, <2>1, TurnCleared
<1>lock. ASSUME NEW r \in Requests, TakeProcess(r) \/ TakeChain(r) PROVE Goal
  <2>1. r \in Busy BY <1>lock DEF TakeProcess, TakeChain
  <2>2. PICK w : Turns(r, w) /\ Proceeds(req[r], w) BY <1>lock, <2>1, LockDoes
  <2>3. w.phase # "call" BY <2>2 DEF Proceeds
  <2>4. UNCHANGED strays BY <1>lock DEF TakeProcess, TakeChain, ghosts
  <2>5. QED BY <1>kept, <1>none, <2>2, <2>3, <2>4, TurnCleared
<1>8. ASSUME NEW r \in Requests, Probed(r) PROVE Goal
  <2>1. r \in Busy BY <1>8 DEF Probed
  <2>2. PICK w : Turns(r, w) /\ w.phase = "append" BY <1>8, <2>1, ProbedDoes
  <2>3. UNCHANGED strays BY <1>8 DEF Probed
  <2>4. QED BY <1>kept, <1>none, <2>2, <2>3, TurnCleared
<1>9. ASSUME NEW r \in Requests, NEW p \in Reals, NEW c \in Configs, EditProvider(r, p, c) PROVE Goal
  <2>1. PICK w : Turns(r, w) /\ w.phase = "append" BY <1>9, EditDoes
  <2>2. UNCHANGED strays BY <1>9 DEF EditProvider
  <2>3. QED BY <1>kept, <1>none, <2>1, <2>2, TurnCleared
<1>10. ASSUME NEW pol \in Policies, SetPolicy(pol) PROVE Goal BY <1>10, <1>same DEF SetPolicy, ghosts
<1>11. ASSUME NEW a \in DOMAIN Agents, SetAgent(a) PROVE Goal BY <1>11, <1>same DEF SetAgent, ghosts
<1>12. ASSUME NEW c \in Capabilities, NEW to \in Routes, SetRoute(c, to) PROVE Goal
  BY <1>12, <1>same DEF SetRoute, ghosts
<1>13. ASSUME Tick PROVE Goal BY <1>13, <1>same DEF Tick, ghosts
<1>14. CASE UNCHANGED runVars BY <1>14, <1>same DEF runVars
<1>15. QED
  <2>1. CASE RunsNext
    BY <2>1, <1>1, <1>2, <1>3, <1>4, <1>5, <1>6, <1>7, <1>8, <1>9, <1>10, <1>11, <1>12, <1>13, <1>back, <1>lock
       DEF RunsNext, Abort, Stop
  <2>2. QED BY <2>1, <1>14

-----------------------------------------------------------------------------
(* The tokens metered.                                                     *)

LEMMA Quantities ==
    ASSUME Typed, NEW r \in Busy
    PROVE  /\ row[Usage] \in UsageRow /\ row[Usage].quantity \in Nat /\ Read(r, Usage) \in UsageRow
           /\ Read(r, Usage).quantity \in Nat
           /\ owed \in Nat /\ req[r].owed \in Nat
           /\ Usage \in DOMAIN req[r].new => /\ Usage \in DOMAIN req[r].seen /\ req[r].new[Usage] \in UsageRow
                                             /\ req[r].seen[Usage] \in UsageRow
                                             /\ req[r].new[Usage].quantity \in Nat
                                             /\ req[r].seen[Usage].quantity \in Nat
           /\ Usage \in DOMAIN req[r].mine => req[r].mine[Usage] \in UsageRow /\ req[r].mine[Usage].quantity \in Nat
<1>1. Kept(req[r], clock) /\ Some(row, clock) /\ DOMAIN row = Rows /\ Usage \in Rows BY DEF Typed, Rows
<1>2. row[Usage] \in UsageRow /\ Read(r, Usage) \in UsageRow BY <1>1, ReadSound DEF Some, Sound
<1>3. /\ Usage \in DOMAIN req[r].new => /\ Usage \in DOMAIN req[r].seen /\ req[r].new[Usage] \in UsageRow
                                        /\ req[r].seen[Usage] \in UsageRow
      /\ Usage \in DOMAIN req[r].mine => req[r].mine[Usage] \in UsageRow
    BY <1>1 DEF Kept, Some, Sound
<1>4. \A u \in UsageRow : u.quantity \in Nat BY DEF UsageRow
<1>5. QED BY <1>1, <1>2, <1>3, <1>4 DEF Kept, Typed

\* Paid for one request at a time.
LEMMA TurnPaid ==
    ASSUME Typed, Metered, NEW r, NEW w, Turns(r, w), w = Unset \/ Paid(w, owed, ~raced'),
           row'[Usage] = row[Usage], owed' = owed, raced \in BOOLEAN, raced => raced'
    PROVE  Metered'
<1>1. req'[r] = w /\ \A s \in Requests \ {r} : req'[s] = req[s] BY Turned
<1>2. TokensMetered' BY DEF Metered, TokensMetered
<1>3. \A q, e, f : Paid(q, owed, e) /\ (f => e) => Paid(q, owed, f) BY DEF Paid
<1>4. \A s \in Busy' : Paid(req'[s], owed', ~raced')
  <2>1. TAKE s \in Busy'
  <2>2. CASE s = r BY <1>1, <2>2 DEF Busy
  <2>3. CASE s # r
    <3>1. s \in Busy /\ req'[s] = req[s] BY <1>1, <2>3 DEF Busy
    <3>2. Paid(req[s], owed, ~raced) BY <3>1 DEF Metered
    <3>3. Paid(req[s], owed, ~raced') BY <1>3, <3>2
    <3>4. QED BY <3>1, <3>3
  <2>4. QED BY <2>2, <2>3
<1>5. QED BY <1>2, <1>4 DEF Metered

\* A run that ends adds its tokens to what it reads.
LEMMA ClosePaid ==
    ASSUME Typed, Metered, NEW r \in Busy, req[r].phase \in {"call", "verify"}, NEW q, NEW w, Closes(r, q, w),
           q.mine = req[r].mine, q.owed = req[r].owed
    PROVE  Paid(w, owed, ~raced)
<1>1. Usage \notin DOMAIN req[r].new BY DEF Typed, Kept
<1>2. Adds(req[r]) = 0 /\ Paid(req[r], owed, ~raced) BY <1>1 DEF Adds, Metered
<1>3. w.mine = req[r].mine BY DEF Closes
<1>4. CASE Usage \notin DOMAIN w.new /\ w.owed = q.owed
  <2>1. Adds(w) = 0 BY <1>4 DEF Adds
  <2>2. QED BY <1>2, <1>3, <1>4, <2>1 DEF Paid
<1>5. CASE \E n \in Nat : /\ Usage \in DOMAIN w.new /\ w.seen[Usage] = Read(r, Usage)
                          /\ w.new[Usage].quantity = Read(r, Usage).quantity + n
                          /\ w.owed = q.owed + n
  <2>1. PICK n \in Nat : /\ Usage \in DOMAIN w.new /\ w.seen[Usage] = Read(r, Usage)
                         /\ w.new[Usage].quantity = Read(r, Usage).quantity + n
                         /\ w.owed = q.owed + n
    BY <1>5
  <2>2. PICK c : c = Read(r, Usage).quantity OBVIOUS
  <2>3. c \in Nat /\ owed \in Nat /\ req[r].owed \in Nat BY <2>2, Quantities
  <2>4. Adds(w) = n BY <2>1, <2>2, <2>3 DEF Adds
  <2>5. w.seen[Usage].quantity <= w.new[Usage].quantity BY <2>1, <2>2, <2>3
  <2>6. CASE Usage \in DOMAIN req[r].mine
    <3>1. Read(r, Usage) = req[r].mine[Usage] BY <2>6 DEF Read
    <3>2. c = req[r].mine[Usage].quantity BY <2>2, <3>1
    <3>3. c <= owed + req[r].owed /\ (~raced => c = owed + req[r].owed) BY <1>2, <2>3, <2>6, <3>2 DEF Paid
    <3>4. w.mine[Usage].quantity + Adds(w) = c + n BY <1>3, <2>4, <3>2
    <3>5. c + n <= owed + w.owed /\ (~raced => c + n = owed + w.owed) BY <2>1, <2>3, <3>3
    <3>6. QED BY <1>3, <2>1, <2>5, <2>6, <3>1, <3>4, <3>5 DEF Paid
  <2>7. CASE Usage \notin DOMAIN req[r].mine
    <3>1. Read(r, Usage) = row[Usage] BY <2>7 DEF Read
    <3>2. w.seen[Usage].quantity <= owed BY <2>1, <3>1 DEF Metered, TokensMetered
    <3>3. req[r].owed = 0 BY <1>2, <2>7 DEF Paid
    <3>4. w.owed = Adds(w) BY <2>1, <2>3, <2>4, <3>3
    <3>5. QED BY <1>3, <2>5, <2>7, <3>2, <3>4 DEF Paid
  <2>8. QED BY <2>6, <2>7
<1>6. QED BY <1>4, <1>5 DEF Closes

\* A request that has made nothing of the counter.
LEMMA NonePaid ==
    ASSUME NEW w, Usage \notin DOMAIN w.new, Usage \notin DOMAIN w.mine, w.owed = 0, NEW o, NEW e
    PROVE  Paid(w, o, e)
BY DEF Paid, Adds

LEMMA FlushPaid ==
    ASSUME Typed, Metered, NEW r \in Busy, NEW x \in DOMAIN req[r].new, NEW w, Writes(r, x, w),
           raced' = (raced \/ Races(r, x))
    PROVE  Paid(w, owed, ~raced')
<1> PICK q : q = req[r] OBVIOUS
<1>1. /\ row[Usage].quantity \in Nat /\ Read(r, Usage) \in UsageRow /\ Read(r, Usage).quantity \in Nat
      /\ owed \in Nat /\ q.owed \in Nat
    BY Quantities
<1>2. Paid(q, owed, ~raced) BY DEF Metered
<1>3. w.owed = q.owed BY DEF Writes
<1>4. row[Usage].quantity <= owed /\ (~raced => row[Usage].quantity = owed) BY DEF Metered, TokensMetered
<1>5. CASE x = Usage
  <2>1. PICK m : m = Merged(Read(r, x), q.seen[x], q.new[x]) OBVIOUS
  <2>2. /\ q.new[Usage] \in UsageRow /\ q.seen[Usage] \in UsageRow
        /\ q.new[Usage].quantity \in Nat /\ q.seen[Usage].quantity \in Nat
    BY <1>5, Quantities
  <2>3. m.quantity = IF q.new[Usage].quantity # q.seen[Usage].quantity THEN q.new[Usage].quantity
                     ELSE Read(r, Usage).quantity
    BY <1>1, <1>5, <2>1, <2>2, MergedUsage
  <2>4. PICK f, t, c : f = q.new[Usage].quantity /\ t = q.seen[Usage].quantity /\ c = Read(r, Usage).quantity OBVIOUS
  <2>5. f \in Nat /\ t \in Nat /\ c \in Nat /\ t <= f /\ Adds(q) = f - t /\ m.quantity = IF f # t THEN f ELSE c
    BY <1>1, <1>2, <1>5, <2>2, <2>3, <2>4 DEF Paid, Adds
  <2>6. w.mine = Set(q.mine, Usage, m) /\ Usage \notin DOMAIN w.new BY <1>5, <2>1 DEF Writes
  <2>7. Usage \in DOMAIN w.mine /\ w.mine[Usage] = m BY <2>6 DEF Set
  <2>8. Adds(w) = 0 BY <2>6 DEF Adds
  <2>9. m.quantity <= owed + q.owed /\ (~raced' => m.quantity = owed + q.owed)
    <3>1. CASE Usage \in DOMAIN q.mine
      <4>1. Read(r, Usage) = q.mine[Usage] /\ q.seen[Usage] = q.mine[Usage] BY <1>2, <1>5, <3>1 DEF Read, Paid
      <4>2. c = t /\ q.mine[Usage].quantity = c BY <2>4, <4>1
      <4>3. c + (f - t) <= owed + q.owed /\ (~raced => c + (f - t) = owed + q.owed)
        BY <1>2, <2>5, <3>1, <4>2 DEF Paid
      <4>4. m.quantity = c + (f - t) BY <2>5, <4>2
      <4>5. QED BY <4>3, <4>4
    <3>2. CASE Usage \notin DOMAIN q.mine
      <4>1. Read(r, Usage) = row[Usage] BY <3>2 DEF Read
      <4>2. q.owed = f - t BY <1>2, <2>5, <3>2 DEF Paid
      <4>3. t <= owed BY <1>2, <1>5, <2>4, <3>2 DEF Paid
      <4>4. c <= owed /\ (~raced => c = owed) BY <1>4, <2>4, <4>1
      <4>5. ~raced' => ~raced /\ (f # t => c = t) BY <1>5, <2>4 DEF Races
      <4>6. m.quantity <= owed + q.owed BY <1>1, <2>5, <4>2, <4>3, <4>4
      <4>7. ASSUME ~raced' PROVE m.quantity = owed + q.owed
        <5>1. c = owed BY <4>4, <4>5, <4>7
        <5>2. CASE f = t BY <1>1, <2>5, <4>2, <5>1, <5>2
        <5>3. CASE f # t
          <6>1. c = t BY <4>5, <4>7, <5>3
          <6>2. QED BY <1>1, <2>5, <4>2, <5>1, <5>3, <6>1
        <5>4. QED BY <5>2, <5>3
      <4>8. QED BY <4>6, <4>7
    <3>3. QED BY <3>1, <3>2
  <2>10. m.quantity \in Nat BY <2>5
  <2>11. m.quantity + Adds(w) = m.quantity BY <2>8, <2>10
  <2>12. QED BY <1>3, <2>6, <2>7, <2>9, <2>11 DEF Paid
<1>6. CASE x # Usage
  <2>1. /\ Usage \in DOMAIN w.mine <=> Usage \in DOMAIN q.mine
        /\ Usage \in DOMAIN q.mine => w.mine[Usage] = q.mine[Usage]
    BY <1>6 DEF Writes, Set
  <2>2. /\ Usage \in DOMAIN w.new <=> Usage \in DOMAIN q.new
        /\ Usage \in DOMAIN w.new => w.new[Usage] = q.new[Usage] /\ w.seen = q.seen
    BY <1>6 DEF Writes
  <2>3. Adds(w) = Adds(q) BY <2>2 DEF Adds
  <2>4. ~raced' => ~raced OBVIOUS
  <2>5. QED BY <1>2, <1>3, <2>1, <2>2, <2>3, <2>4 DEF Paid
<1>7. QED BY <1>5, <1>6

LEMMA MeteredInit == RunsInit => Metered
BY DEF RunsInit, Metered, TokensMetered, Busy, Rows

LEMMA MeteredNext == Typed /\ Locked /\ Metered /\ [RunsNext]_runVars => Metered'
<1> SUFFICES ASSUME Typed, Locked, Metered, [RunsNext]_runVars PROVE Metered' OBVIOUS
<1>0. raced \in BOOLEAN BY DEF Typed
<1>same. ASSUME UNCHANGED <<req, owed, raced>>, row'[Usage] = row[Usage] PROVE Metered'
  BY <1>same DEF Metered, TokensMetered, Busy
<1>turn. ASSUME NEW r, NEW w, Turns(r, w), w = Unset \/ Paid(w, owed, ~raced), UNCHANGED <<row, owed, raced>> PROVE Metered'
  BY <1>turn, <1>0, TurnPaid
<1>1. ASSUME NEW r \in Requests, NEW kind \in DOMAIN Plans, Request(r, kind) PROVE Metered'
  <2>1. PICK w : Turns(r, w) /\ Kept(w, clock) /\ w.phase = "run" /\ DOMAIN w.mine = {} /\ w.owed = 0
      BY <1>1, RequestDoes
  <2>2. Usage \notin DOMAIN w.new /\ Usage \notin DOMAIN w.mine BY <2>1 DEF Kept
  <2>3. Paid(w, owed, ~raced) BY <2>1, <2>2, NonePaid
  <2>4. UNCHANGED <<row, owed, raced>> BY <1>1 DEF Request, ghosts
  <2>5. QED BY <1>turn, <2>1, <2>3, <2>4
<1>2. ASSUME NEW r \in Requests, NEW p \in Reals, Probe(r, p) PROVE Metered'
  <2>1. PICK w : Turns(r, w) /\ Kept(w, clock) /\ w.phase = "probe" /\ DOMAIN w.mine = {} /\ w.owed = 0
      BY <1>2, ProbeDoes
  <2>2. Usage \notin DOMAIN w.new /\ Usage \notin DOMAIN w.mine BY <2>1 DEF Kept
  <2>3. Paid(w, owed, ~raced) BY <2>1, <2>2, NonePaid
  <2>4. UNCHANGED <<row, owed, raced>> BY <1>2 DEF Probe
  <2>5. QED BY <1>turn, <2>1, <2>3, <2>4
<1>3. ASSUME NEW r \in Requests, Invoke(r) PROVE Metered'
  <2>1. r \in Busy /\ req[r].phase = "run" BY <1>3 DEF Invoke
  <2>2. PICK w : Turns(r, w) /\ w.mine = req[r].mine /\ w.owed = req[r].owed /\ DOMAIN w.new = {}
    BY <1>3, <2>1, InvokeDoes
  <2>3. DOMAIN req[r].new = {} BY <2>1 DEF Typed, Kept
  <2>4. Adds(w) = 0 /\ Adds(req[r]) = 0 BY <2>2, <2>3 DEF Adds
  <2>5. Paid(req[r], owed, ~raced) BY <2>1 DEF Metered
  <2>6. Paid(w, owed, ~raced) BY <2>2, <2>4, <2>5 DEF Paid
  <2>7. UNCHANGED <<row, owed, raced>> BY <1>3 DEF Invoke
  <2>8. QED BY <1>turn, <2>2, <2>6, <2>7
<1>4. ASSUME NEW r \in Requests, Call(r) PROVE Metered'
  <2>1. r \in Busy /\ req[r].phase = "call" BY <1>4 DEF Call
  <2>2. PICK p : p = Head(req[r].cand) OBVIOUS
  <2>3. \/ \E n, a, w : Turns(r, w) /\ Answers(r, p, n, a) /\ Closes(r, a, w)
        \/ \E w : Turns(r, w) /\ Kept(w, clock) /\ Fails(r, p, w)
    <3>1. \/ \E a, w : Turns(r, w) /\ Answers(r, p, 1, a) /\ Closes(r, a, w)
          \/ \E n \in Nat : \E a, w : Turns(r, w) /\ Answers(r, p, n, a) /\ Closes(r, a, w)
          \/ \E w : Turns(r, w) /\ Kept(w, clock) /\ Fails(r, p, w)
      BY <1>4, <2>1, <2>2, CallDoes
    <3>2. QED BY <3>1
  <2>4. UNCHANGED <<row, owed, raced>> BY <1>4 DEF Call
  <2>5. CASE \E n, a, w : Turns(r, w) /\ Answers(r, p, n, a) /\ Closes(r, a, w)
    <3>1. PICK n, a, w : Turns(r, w) /\ Answers(r, p, n, a) /\ Closes(r, a, w) BY <2>5
    <3>2. a.mine = req[r].mine /\ a.owed = req[r].owed BY <3>1 DEF Answers
    <3>3. Paid(w, owed, ~raced) BY <2>1, <3>1, <3>2, ClosePaid
    <3>4. QED BY <1>turn, <2>4, <3>1, <3>3
  <2>6. CASE \E w : Turns(r, w) /\ Kept(w, clock) /\ Fails(r, p, w)
    <3>1. PICK w : Turns(r, w) /\ Kept(w, clock) /\ Fails(r, p, w) BY <2>6
    <3>2. w.mine = req[r].mine /\ w.owed = req[r].owed /\ w.phase = "call" BY <3>1 DEF Fails
    <3>3. Usage \notin DOMAIN w.new /\ Usage \notin DOMAIN req[r].new BY <2>1, <3>1, <3>2 DEF Kept, Typed
    <3>4. Adds(w) = 0 /\ Adds(req[r]) = 0 BY <3>3 DEF Adds
    <3>5. Paid(req[r], owed, ~raced) BY <2>1 DEF Metered
    <3>6. Paid(w, owed, ~raced) BY <3>2, <3>3, <3>4, <3>5 DEF Paid
    <3>7. QED BY <1>turn, <2>4, <3>1, <3>6
  <2>7. QED BY <2>3, <2>5, <2>6
<1>5. ASSUME NEW r \in Requests, Verify(r) PROVE Metered'
  <2>1. r \in Busy /\ req[r].phase = "verify" BY <1>5 DEF Verify
  <2>2. PICK w : Turns(r, w) /\ Closes(r, req[r], w) BY <1>5, <2>1, VerifyDoes
  <2>3. Paid(w, owed, ~raced) BY <2>1, <2>2, ClosePaid
  <2>4. UNCHANGED <<row, owed, raced>> BY <1>5 DEF Verify
  <2>5. QED BY <1>turn, <2>2, <2>3, <2>4
<1>6. ASSUME NEW r \in Requests, Flush(r) PROVE Metered'
  <2>1. r \in Busy BY <1>6 DEF Flush
  <2>2. PICK w, x : /\ Turns(r, w) /\ Writes(r, x, w) /\ x \in DOMAIN req[r].new
                    /\ raced' = (raced \/ Races(r, x))
    BY <1>6, <2>1, FlushDoes
  <2>3. Paid(w, owed, ~raced') BY <2>1, <2>2, FlushPaid
  <2>4. UNCHANGED <<row, owed>> BY <1>6 DEF Flush
  <2>5. raced => raced' BY <2>2
  <2>6. QED BY <1>0, <2>2, <2>3, <2>4, <2>5, TurnPaid
<1>7. ASSUME NEW r \in Requests, CommitRun(r) PROVE Metered'
  <2>1. r \in Busy BY <1>7 DEF CommitRun
  <2>2. PICK w : Turns(r, w) /\ Leaves(w) BY <1>7, <2>1, CommitDoes
  <2>3. /\ owed' = owed + req[r].owed /\ raced' = raced
        /\ row' = [x \in Rows |-> IF x \in DOMAIN req[r].mine THEN req[r].mine[x] ELSE row[x]]
    BY <1>7 DEF CommitRun
  <2>4. Adds(req[r]) = 0
    <3>1. DOMAIN req[r].new = {} BY <1>7, <2>1, CommitDoes
    <3>2. QED BY <3>1 DEF Adds
  <2>5. Paid(req[r], owed, ~raced) BY <2>1 DEF Metered
  <2>6. req'[r] = w /\ \A s \in Requests \ {r} : req'[s] = req[s] BY <2>2, Turned
  <2>7. w = Unset \/ Paid(w, owed', ~raced') BY <2>2, NonePaid DEF Leaves
  <2>8. \A s \in Busy' \ {r} : s \in Busy /\ req'[s] = req[s] BY <2>6 DEF Busy
  <2>9. r \in Busy' => w # Unset BY <2>6 DEF Busy
  <2>10. owed \in Nat /\ req[r].owed \in Nat BY <2>1, Quantities
  <2>11. CASE Usage \in DOMAIN req[r].mine
    <3>1. row'[Usage] = req[r].mine[Usage] /\ req[r].mine[Usage].quantity \in Nat
      BY <2>1, <2>3, <2>11, Quantities DEF Rows
    <3>2. TokensMetered' BY <2>3, <2>4, <2>5, <2>10, <2>11, <3>1 DEF TokensMetered, Paid
    <3>3. ASSUME NEW s \in Busy' \ {r} PROVE Paid(req'[s], owed', ~raced')
      <4>1. s \in Busy /\ s # r /\ req'[s] = req[s] BY <2>8
      <4>2. Paid(req[s], owed, ~raced) BY <4>1 DEF Metered
      <4>3. Usage \notin DOMAIN req[s].mine BY <2>1, <2>11, <4>1 DEF Locked
      <4>4. Usage \in DOMAIN req[s].new => req[s].seen[Usage].quantity <= owed'
        <5>1. SUFFICES ASSUME Usage \in DOMAIN req[s].new PROVE req[s].seen[Usage].quantity <= owed' OBVIOUS
        <5>2. req[s].seen[Usage].quantity <= owed /\ req[s].seen[Usage].quantity \in Nat
          BY <4>1, <4>2, <4>3, <5>1, Quantities DEF Paid
        <5>3. QED BY <2>3, <2>10, <5>2
      <4>5. QED BY <4>1, <4>2, <4>3, <4>4, <2>3 DEF Paid
    <3>4. \A s \in Busy' : Paid(req'[s], owed', ~raced') BY <2>6, <2>7, <2>9, <3>3
    <3>5. QED BY <3>2, <3>4 DEF Metered
  <2>12. CASE Usage \notin DOMAIN req[r].mine
    <3>1. row'[Usage] = row[Usage] BY <2>3, <2>12 DEF Rows
    <3>2. owed' = owed BY <2>3, <2>4, <2>5, <2>10, <2>12 DEF Paid
    <3>3. w = Unset \/ Paid(w, owed, ~raced') BY <2>2, NonePaid DEF Leaves
    <3>4. QED BY <1>0, <2>2, <2>3, <3>1, <3>2, <3>3, TurnPaid
  <2>13. QED BY <2>11, <2>12
<1>8. ASSUME NEW r \in Requests, RollBack(r) PROVE Metered'
  <2>1. Turns(r, Unset) /\ UNCHANGED <<row, owed, raced>> BY <1>8 DEF RollBack, Turns
  <2>2. QED BY <1>turn, <2>1
<1>9. ASSUME NEW r \in Requests, Probed(r) PROVE Metered'
  <2>1. r \in Busy BY <1>9 DEF Probed
  <2>2. PICK w, p : Turns(r, w) /\ p \in Reals /\ w.owed = 0 /\ DOMAIN w.mine = {} /\ DOMAIN w.new = {p}
    BY <1>9, <2>1, ProbedDoes
  <2>3. Usage \notin DOMAIN w.new BY <2>2, RowSound
  <2>4. Paid(w, owed, ~raced) BY <2>2, <2>3, NonePaid
  <2>5. UNCHANGED <<row, owed, raced>> BY <1>9 DEF Probed
  <2>6. QED BY <1>turn, <2>2, <2>4, <2>5
<1>10. ASSUME NEW r \in Requests, NEW p \in Reals, NEW c \in Configs, EditProvider(r, p, c) PROVE Metered'
  <2>1. PICK w : Turns(r, w) /\ w.owed = 0 /\ DOMAIN w.mine = {} /\ DOMAIN w.new = {p} BY <1>10, EditDoes
  <2>2. Usage \notin DOMAIN w.new BY <2>1, RowSound
  <2>3. Paid(w, owed, ~raced) BY <2>1, <2>2, NonePaid
  <2>4. UNCHANGED <<row, owed, raced>> BY <1>10 DEF EditProvider
  <2>5. QED BY <1>turn, <2>1, <2>3, <2>4
<1>lock. ASSUME NEW r \in Requests, TakeProcess(r) \/ TakeChain(r) PROVE Metered'
  <2>1. r \in Busy BY <1>lock DEF TakeProcess, TakeChain
  <2>2. PICK w : Turns(r, w) /\ Proceeds(req[r], w) BY <1>lock, <2>1, LockDoes
  <2>3. Paid(req[r], owed, ~raced) BY <2>1 DEF Metered
  <2>4. Paid(w, owed, ~raced) BY <2>2, <2>3 DEF Proceeds, Paid, Adds
  <2>5. UNCHANGED <<row, owed, raced>> BY <1>lock DEF TakeProcess, TakeChain, ghosts
  <2>6. QED BY <1>turn, <2>2, <2>4, <2>5
<1>11. ASSUME NEW pol \in Policies, SetPolicy(pol) PROVE Metered' BY <1>11, <1>same DEF SetPolicy, ghosts
<1>12. ASSUME NEW a \in DOMAIN Agents, SetAgent(a) PROVE Metered' BY <1>12, <1>same DEF SetAgent, ghosts
<1>13. ASSUME NEW c \in Capabilities, NEW to \in Routes, SetRoute(c, to) PROVE Metered'
  BY <1>13, <1>same DEF SetRoute, ghosts
<1>14. ASSUME Tick PROVE Metered' BY <1>14, <1>same DEF Tick, ghosts
<1>15. CASE UNCHANGED runVars BY <1>15, <1>same DEF runVars
<1>16. QED
  <2>1. CASE RunsNext
    BY <2>1, <1>1, <1>2, <1>3, <1>4, <1>5, <1>6, <1>7, <1>8, <1>9, <1>10, <1>11, <1>12, <1>13, <1>14, <1>lock
       DEF RunsNext, Abort, Stop
  <2>2. QED BY <2>1, <1>15

-----------------------------------------------------------------------------
(* The circuit breaker.                                                    *)

\* The rows of a provider that a request has.
LEMMA RowsOf ==
    ASSUME Typed, NEW r \in Busy, NEW p \in Reals
    PROVE  /\ p \in DOMAIN req[r].seen => req[r].seen[p] \in ProviderRow
           /\ p \in DOMAIN req[r].new => req[r].new[p] \in ProviderRow /\ p \in DOMAIN req[r].seen
           /\ p \in DOMAIN req[r].mine => req[r].mine[p] \in ProviderRow
           /\ row[p] \in ProviderRow /\ p # Usage /\ p # Sim
           /\ ill[p] \in Nat /\ due[p] \in Nat /\ clock \in Nat
<1>1. Kept(req[r], clock) BY DEF Typed
<1>2. row[p] \in ProviderRow /\ p # Usage BY RowSound
<1>3. p \in Providers /\ p # Sim BY DEF Reals
<1>4. ill[p] \in Nat /\ due[p] \in Nat /\ clock \in Nat BY <1>3 DEF Typed
<1>5. /\ p \in DOMAIN req[r].seen => req[r].seen[p] \in ProviderRow
      /\ p \in DOMAIN req[r].new => req[r].new[p] \in ProviderRow /\ p \in DOMAIN req[r].seen
      /\ p \in DOMAIN req[r].mine => req[r].mine[p] \in ProviderRow
    BY <1>1, <1>2 DEF Kept, Some, Sound
<1>6. QED BY <1>2, <1>3, <1>4, <1>5

LEMMA RowFields == ASSUME NEW v \in ProviderRow PROVE v.fails \in Nat /\ v.until \in Nat
BY DEF ProviderRow

\* The same, for a request as it becomes.
LEMMA KeptRows ==
    ASSUME NEW q, NEW t, Kept(q, t), NEW p \in Reals
    PROVE  /\ p \in DOMAIN q.seen => q.seen[p] \in ProviderRow
           /\ p \in DOMAIN q.new => q.new[p] \in ProviderRow /\ p \in DOMAIN q.seen
           /\ p \in DOMAIN q.mine => q.mine[p] \in ProviderRow
<1>1. p # Usage BY AgentRunsAssumption DEF Reals
<1>2. QED BY <1>1 DEF Kept, Some, Sound

LEMMA LandedRow ==
    ASSUME NEW q, NEW t, Kept(q, t), NEW p \in Reals, NEW now \in ProviderRow
    PROVE  Landed(q, p, now) \in ProviderRow
<1>1. PICK mine : mine = IF p \in DOMAIN q.mine THEN q.mine[p] ELSE now OBVIOUS
<1>2. mine \in ProviderRow BY <1>1, KeptRows
<1>3. CASE p \in DOMAIN q.new
  <2>1. q.seen[p] \in ProviderRow /\ q.new[p] \in ProviderRow BY <1>3, KeptRows
  <2>2. Landed(q, p, now) = Merged(mine, q.seen[p], q.new[p]) BY <1>1, <1>3 DEF Landed
  <2>3. QED BY <1>2, <2>1, <2>2, MergedRow
<1>4. CASE p \notin DOMAIN q.new
  <2>1. Landed(q, p, now) = mine BY <1>1, <1>4 DEF Landed
  <2>2. QED BY <1>2, <2>1
<1>5. QED BY <1>3, <1>4

\* With fewer failures counted there is less to tell.
LEMMA CountedLess ==
    ASSUME NEW q, NEW u, Kept(q, u), NEW p \in Reals, NEW n \in Nat, NEW m \in Nat, m <= n, NEW t,
           NEW now \in ProviderRow, Counted(q, p, n, t, now)
    PROVE  Counted(q, p, m, t, now)
<1>1. \A v \in ProviderRow : Tells(v, n, t) => Tells(v, m, t)
  <2>1. TAKE v \in ProviderRow
  <2>2. v.fails \in Nat BY RowFields
  <2>3. QED BY <2>2 DEF Tells
<1>2. Landed(q, p, now) \in ProviderRow BY LandedRow
<1>3. p \in DOMAIN q.seen => q.seen[p] \in ProviderRow BY KeptRows
<1>4. p \in DOMAIN q.new => q.new[p].fails \in Nat BY KeptRows, RowFields
<1>5. QED BY <1>1, <1>2, <1>3, <1>4 DEF Counted

\* Who holds p holds it alone.
LEMMA Alone ==
    ASSUME NEW p, Watched(p), NEW r \in Busy, Holds(req[r], p)
    PROVE  \A s \in Busy \ {r} : ~Holds(req[s], p)
BY DEF Watched

\* r goes on, and p's row and time are as they were.
LEMMA TurnWatched ==
    ASSUME Typed, NEW r, NEW w, Turns(r, w), NEW p \in Reals, Watched(p),
           row'[p] = row[p], due'[p] = due[p], ill'[p] \in Nat, ill'[p] <= ill[p],
           w # Unset => /\ Counted(w, p, ill'[p], due[p], row[p])
                        /\ Holds(w, p) => \A s \in Busy \ {r} : ~Holds(req[s], p),
           r \in Busy /\ p \in DOMAIN req[r].new \cup DOMAIN req[r].mine
              => w # Unset /\ p \in DOMAIN w.new \cup DOMAIN w.mine
    PROVE  Watched(p)'
<1>1. req'[r] = w /\ \A s \in Requests \ {r} : req'[s] = req[s] BY Turned
<1>2. \A s \in Busy' \ {r} : s \in Busy \ {r} /\ req'[s] = req[s] BY <1>1 DEF Busy
<1>3. r \in Busy' => w # Unset BY <1>1 DEF Busy
<1>4. \A s \in Busy \ {r} : s \in Busy' BY <1>1 DEF Busy
<1>5. row[p] \in ProviderRow /\ ill[p] \in Nat BY RowSound DEF Typed, Reals
<1>6. \A s \in Busy' : Counted(req'[s], p, ill'[p], due'[p], row'[p])
  <2>1. TAKE s \in Busy'
  <2>2. CASE s = r BY <1>1, <1>3, <2>2
  <2>3. CASE s # r
    <3>1. s \in Busy /\ req'[s] = req[s] BY <1>2, <2>3
    <3>2. Counted(req[s], p, ill[p], due[p], row[p]) /\ Kept(req[s], clock) BY <3>1 DEF Watched, Typed
    <3>3. Counted(req[s], p, ill'[p], due[p], row[p]) BY <1>5, <3>2, CountedLess
    <3>4. QED BY <3>1, <3>3
  <2>4. QED BY <2>2, <2>3
<1>7. ASSUME NEW s \in Busy', NEW u \in Busy', Holds(req'[s], p), Holds(req'[u], p) PROVE s = u
  <2>1. CASE s = r /\ u # r BY <1>1, <1>2, <1>3, <1>7, <2>1
  <2>2. CASE s # r /\ u = r BY <1>1, <1>2, <1>3, <1>7, <2>2
  <2>3. CASE s # r /\ u # r BY <1>2, <1>7, <2>3 DEF Watched
  <2>4. QED BY <2>1, <2>2, <2>3
<1>8. ASSUME \A s \in Busy' : p \notin DOMAIN req'[s].new \cup DOMAIN req'[s].mine
      PROVE  Tells(row'[p], ill'[p], due'[p])
  <2>1. ASSUME NEW s \in Busy PROVE p \notin DOMAIN req[s].new \cup DOMAIN req[s].mine
    <3>1. CASE s # r BY <1>1, <1>4, <1>8, <2>1, <3>1 DEF Busy
    <3>2. CASE s = r
      <4>1. SUFFICES ASSUME p \in DOMAIN req[r].new \cup DOMAIN req[r].mine PROVE FALSE BY <3>2
      <4>2. w # Unset /\ p \in DOMAIN w.new \cup DOMAIN w.mine BY <2>1, <3>2, <4>1
      <4>3. r \in Busy' BY <1>1, <4>2 DEF Busy, Turns
      <4>4. QED BY <1>1, <1>8, <4>2, <4>3
    <3>3. QED BY <3>1, <3>2
  <2>2. Tells(row[p], ill[p], due[p]) BY <2>1 DEF Watched
  <2>3. row[p].fails \in Nat BY <1>5, RowFields
  <2>4. QED BY <1>5, <2>2, <2>3 DEF Tells
<1>9. QED BY <1>6, <1>7, <1>8 DEF Watched

\* r changes p, which nobody else has read.
LEMMA AloneWatched ==
    ASSUME Typed, NEW r, NEW w, Turns(r, w), w # Unset, NEW p \in Reals, p \in DOMAIN w.new,
           \A s \in Busy \ {r} : p \notin DOMAIN req[s].seen \cup DOMAIN req[s].mine,
           Counted(w, p, ill'[p], due'[p], row'[p])
    PROVE  Watched(p)'
<1>1. req'[r] = w /\ \A s \in Requests \ {r} : req'[s] = req[s] BY Turned
<1>2. \A s \in Busy' \ {r} : s \in Busy \ {r} /\ req'[s] = req[s] BY <1>1 DEF Busy
<1>3. r \in Busy' BY <1>1 DEF Busy, Turns
<1>4. \A s \in Busy' \ {r} : p \notin DOMAIN req'[s].seen \cup DOMAIN req'[s].mine \cup DOMAIN req'[s].new
    BY <1>2 DEF Typed, Kept
<1>5. \A s \in Busy' : Counted(req'[s], p, ill'[p], due'[p], row'[p])
  <2>1. TAKE s \in Busy'
  <2>2. CASE s = r BY <1>1, <2>2
  <2>3. CASE s # r BY <1>4, <2>3 DEF Counted
  <2>4. QED BY <2>2, <2>3
<1>6. \A s \in Busy' \ {r} : ~Holds(req'[s], p) BY <1>4 DEF Holds
<1>7. QED BY <1>1, <1>3, <1>5, <1>6 DEF Watched

\* What a run that ends keeps of p.
LEMMA CloseCounted ==
    ASSUME NEW r, NEW q, NEW w, Closes(r, q, w), NEW p \in Reals, NEW n, NEW t, NEW now,
           q.phase \in {"call", "verify"},
           w.phase \in {"verify", "run", "append", "commit", "flush"}, w.phase = "verify" => w.seen = q.seen,
           q.phase \in {"call", "verify"} /\ p \in DOMAIN q.seen \ DOMAIN q.new => Tells(q.seen[p], n, t),
           q.phase \in {"call", "verify"} /\ p \in DOMAIN q.new => t <= q.new[p].until,
           p \in DOMAIN q.new \cup DOMAIN q.mine => Tells(Landed(q, p, now), n, t)
    PROVE  /\ Counted(w, p, n, t, now)
           /\ p \in DOMAIN w.new \cup DOMAIN w.mine <=> p \in DOMAIN q.new \cup DOMAIN q.mine
           /\ Holds(w, p) => p \in DOMAIN q.new \cup DOMAIN q.mine
<1>1. p \in Providers BY DEF Reals
<1>2. w.mine = q.mine BY DEF Closes
<1>3. p \in DOMAIN w.new <=> p \in DOMAIN q.new BY <1>1 DEF Closes
<1>4. p \in DOMAIN q.new => w.new[p] = q.new[p] /\ w.seen[p] = q.seen[p] BY <1>1 DEF Closes
<1>5. Landed(w, p, now) = Landed(q, p, now) BY <1>2, <1>3, <1>4 DEF Landed
<1>6. w.phase # "probe" /\ w.phase # "call" OBVIOUS
<1>7. Counted(w, p, n, t, now) BY <1>2, <1>3, <1>4, <1>5, <1>6 DEF Counted
<1>8. QED BY <1>2, <1>3, <1>6, <1>7 DEF Holds

\* A provider called, or asked to verify, is not waiting for its time.
LEMMA NotBattered ==
    ASSUME Typed, Breaker, NEW r \in Busy, NEW v \in Reals, Batter(r, v),
           v \notin mixed /\ ~Overlap(r, v) => due[v] <= clock
    PROVE  battered' = {}
<1>1. due[v] \in Nat /\ clock \in Nat BY DEF Typed, Reals
<1>2. ~(due[v] > clock /\ v \notin mixed /\ ~Overlap(r, v)) BY <1>1
<1>3. battered = {} BY DEF Breaker
<1>4. QED BY <1>2, <1>3 DEF Batter

LEMMA NoOverlap ==
    ASSUME Typed, NEW r, NEW p, ~Overlap(r, p)
    PROVE  \A s \in Busy \ {r} : /\ p \notin DOMAIN req[s].seen \cup DOMAIN req[s].mine
                                 /\ p \notin DOMAIN req[s].new /\ ~Holds(req[s], p)
<1>1. \A s \in Busy \ {r} : p \notin DOMAIN req[s].seen \cup DOMAIN req[s].mine BY DEF Overlap
<1>2. QED BY <1>1 DEF Typed, Kept, Holds

\* What r would read of p, which nobody else holds, tells of all failures.
LEMMA ReadTells ==
    ASSUME Typed, NEW r \in Busy, NEW p \in Reals, Watched(p), p \notin DOMAIN req[r].new,
           \A s \in Busy \ {r} : p \notin DOMAIN req[s].new \cup DOMAIN req[s].mine
    PROVE  Tells(Read(r, p), ill[p], due[p])
<1>1. CASE p \in DOMAIN req[r].mine
  <2>1. Tells(Landed(req[r], p, row[p]), ill[p], due[p]) BY <1>1 DEF Watched, Counted
  <2>2. Landed(req[r], p, row[p]) = req[r].mine[p] BY <1>1 DEF Landed
  <2>3. QED BY <1>1, <2>1, <2>2 DEF Read
<1>2. CASE p \notin DOMAIN req[r].mine
  <2>1. \A s \in Busy : p \notin DOMAIN req[s].new \cup DOMAIN req[s].mine BY <1>2
  <2>2. QED BY <1>2, <2>1 DEF Read, Watched
<1>3. QED BY <1>1, <1>2

LEMMA AskedInTime ==
    ASSUME Typed, Breaker, NEW r \in Busy, Verify(r)
    PROVE  battered' = {}
<1>1. CASE UNCHANGED battered BY <1>1 DEF Breaker
<1>2. ASSUME NEW v \in Reals, v = req[r].to.verifier, VerifierRow(r) \in ProviderRow, ~CircuitOpen(VerifierRow(r)),
             Batter(r, v)
      PROVE  battered' = {}
  <2>1. VerifierRow(r).until <= clock
    <3>1. VerifierRow(r).until \in Nat /\ clock \in Nat BY <1>2, RowFields DEF Typed
    <3>2. QED BY <1>2, <3>1 DEF CircuitOpen
  <2>2. ASSUME v \notin mixed, ~Overlap(r, v) PROVE due[v] <= VerifierRow(r).until
    <3>1. Watched(v) BY <2>2 DEF Breaker
    <3>2. Counted(req[r], v, ill[v], due[v], row[v]) /\ req[r].phase = "verify" BY <3>1 DEF Watched, Verify
    <3>3. CASE v \in DOMAIN req[r].seen /\ v \in DOMAIN req[r].new
      <4>1. VerifierRow(r) = req[r].new[v] BY <1>2, <3>3 DEF VerifierRow, Current
      <4>2. QED BY <3>2, <3>3, <4>1 DEF Counted
    <3>4. CASE v \in DOMAIN req[r].seen /\ v \notin DOMAIN req[r].new
      <4>1. VerifierRow(r) = req[r].seen[v] BY <1>2, <3>4 DEF VerifierRow, Current
      <4>2. QED BY <3>2, <3>4, <4>1 DEF Counted, Tells
    <3>5. CASE v \notin DOMAIN req[r].seen
      <4>1. VerifierRow(r) = Read(r, v) BY <1>2, <3>5 DEF VerifierRow
      <4>2. v \notin DOMAIN req[r].new BY <3>5, RowsOf
      <4>3. \A s \in Busy \ {r} : v \notin DOMAIN req[s].new \cup DOMAIN req[s].mine BY <2>2, NoOverlap
      <4>4. Tells(Read(r, v), ill[v], due[v]) BY <3>1, <4>2, <4>3, ReadTells
      <4>5. QED BY <4>1, <4>4 DEF Tells
    <3>6. QED BY <3>3, <3>4, <3>5
  <2>3. v \notin mixed /\ ~Overlap(r, v) => due[v] <= clock
    <3>1. VerifierRow(r).until \in Nat /\ clock \in Nat /\ due[v] \in Nat BY <1>2, RowFields DEF Typed, Reals
    <3>2. QED BY <2>1, <2>2, <3>1
  <2>4. QED BY <1>2, <2>3, NotBattered
<1>3. QED BY <1>1, <1>2, Asks

\* The tables of r after p has failed.
LEMMA FailureCounted ==
    ASSUME Typed, Breaker, NEW r \in Busy, req[r].phase = "call", NEW p \in Reals, p \in DOMAIN req[r].seen,
           p \in Range(req[r].cand), p \notin mixed, ~Overlap(r, p), Count(r, p, FALSE),
           NEW w, Kept(w, clock), Fails(r, p, w), row'[p] = row[p]
    PROVE  Counted(w, p, ill'[p], due'[p], row'[p])
<1> PICK q : q = req[r] OBVIOUS
<1> PICK n, t, now, cur : n = ill[p] /\ t = due[p] /\ now = row[p] /\ cur = Current(r, p) OBVIOUS
<1> PICK k : k = clock + Cooldown OBVIOUS
<1>1. /\ n \in Nat /\ t \in Nat /\ clock \in Nat /\ k \in Nat /\ clock < k /\ now \in ProviderRow /\ t <= k
      /\ q.seen[p] \in ProviderRow
    BY RowsOf, AgentRunsAssumption DEF Breaker
<1>2. Counted(q, p, n, t, now) BY DEF Breaker, Watched
<1>3. cur \in ProviderRow /\ cur.until <= k
  <2>1. Sound(p, cur, clock) BY CurrentSound
  <2>2. QED BY <2>1, RowsOf DEF Sound
<1>4. q.seen[p].until <= clock BY RowsOf DEF Breaker, Ready
<1>5. Tells(cur, n, t) /\ q.seen[p].fails <= cur.fails
  <2>0. q.seen[p].fails \in Nat BY <1>1, RowFields
  <2>1. CASE p \in DOMAIN q.new
    <3>1. cur = q.new[p] BY <2>1 DEF Current
    <3>2. cur.fails \in Nat BY <1>3, RowFields
    <3>3. QED BY <1>2, <2>0, <2>1, <3>1, <3>2 DEF Counted, Tells
  <2>2. CASE p \notin DOMAIN q.new
    <3>1. cur = q.seen[p] BY <2>2 DEF Current
    <3>2. QED BY <1>2, <2>0, <2>2, <3>1 DEF Counted
  <2>3. QED BY <2>1, <2>2
<1> PICK new : new = Failed(cur) OBVIOUS
<1>6. new \in ProviderRow /\ new.fails = cur.fails + 1 /\ new.until = IF cur.fails + 1 >= Threshold THEN k ELSE cur.until
    BY <1>1, <1>3, FailedIs
<1>7. ill'[p] = n + 1 /\ due'[p] = IF n + 1 >= Threshold THEN k ELSE t BY DEF Count, Typed, Reals
<1>8. Threshold \in Nat /\ cur.fails \in Nat /\ cur.until \in Nat /\ q.seen[p].fails \in Nat /\ q.seen[p].until \in Nat
    BY <1>1, <1>3, RowFields, AgentRunsAssumption
<1>9. ill'[p] <= new.fails /\ q.seen[p].fails < new.fails BY <1>1, <1>5, <1>6, <1>7, <1>8 DEF Tells
<1>10. due'[p] <= new.until BY <1>1, <1>5, <1>6, <1>7, <1>8 DEF Tells
<1>11. w.seen = q.seen /\ w.mine = q.mine /\ w.phase = "call" /\ p \in DOMAIN w.new /\ w.new[p] = new
    BY DEF Fails, Set
<1> PICK mine : mine = IF p \in DOMAIN q.mine THEN q.mine[p] ELSE now OBVIOUS
<1>12. mine \in ProviderRow /\ mine.fails \in Nat /\ mine.until \in Nat BY <1>1, RowsOf, RowFields
<1>13. Landed(w, p, now) = Merged(mine, q.seen[p], new) BY <1>11 DEF Landed
<1>14. /\ Landed(w, p, now).fails = IF new.fails # q.seen[p].fails THEN new.fails ELSE mine.fails
       /\ Landed(w, p, now).until = IF new.until # q.seen[p].until THEN new.until ELSE mine.until
    BY <1>1, <1>6, <1>12, <1>13, MergedRow
<1>15. Landed(w, p, now).fails = new.fails BY <1>8, <1>6, <1>9, <1>14
<1>16. due'[p] <= Landed(w, p, now).until
  <2>1. CASE new.until # q.seen[p].until BY <1>10, <1>14, <2>1
  <2>2. CASE new.until = q.seen[p].until
    <3>1. new.until # k BY <1>1, <1>4, <1>8, <2>2
    <3>2. ~(cur.fails + 1 >= Threshold) /\ cur.until = q.seen[p].until BY <1>6, <2>2, <3>1
    <3>3. ~(n + 1 >= Threshold) BY <1>1, <1>5, <1>8, <3>2 DEF Tells
    <3>4. due'[p] = t BY <1>7, <3>3
    <3>5. t <= mine.until
      <4>1. CASE p \in DOMAIN q.new
        <5>1. Landed(q, p, now) = Merged(mine, q.seen[p], q.new[p]) BY <4>1 DEF Landed
        <5>2. cur = q.new[p] BY <4>1 DEF Current
        <5>3. Landed(q, p, now).until = mine.until BY <1>1, <1>3, <1>12, <3>2, <5>1, <5>2, MergedRow
        <5>4. t <= Landed(q, p, now).until BY <1>2, <4>1 DEF Counted, Tells
        <5>5. QED BY <5>3, <5>4
      <4>2. CASE p \notin DOMAIN q.new
        <5>1. \A s \in Busy \ {r} : p \notin DOMAIN req[s].new \cup DOMAIN req[s].mine BY NoOverlap
        <5>2. Watched(p) BY DEF Breaker
        <5>3. Tells(Read(r, p), n, t) BY <4>2, <5>1, <5>2, ReadTells
        <5>4. Read(r, p) = mine BY DEF Read
        <5>5. QED BY <5>3, <5>4 DEF Tells
      <4>3. QED BY <4>1, <4>2
    <3>6. Landed(w, p, now).until = mine.until BY <1>14, <2>2
    <3>7. QED BY <3>4, <3>5, <3>6
  <2>3. QED BY <2>1, <2>2
<1>17. Tells(Landed(w, p, now), ill'[p], due'[p]) BY <1>9, <1>15, <1>16 DEF Tells
<1>18. QED BY <1>9, <1>10, <1>11, <1>17 DEF Counted

\* The tables of r after p has answered.
LEMMA AnswerCounted ==
    ASSUME Typed, NEW r \in Busy, req[r].phase = "call", NEW p \in Reals, p \in DOMAIN req[r].seen,
           NEW n \in Nat, NEW a, Answers(r, p, n, a), NEW w, Kept(w, clock), Closes(r, a, w),
           w.phase \in {"verify", "run", "append", "commit", "flush"}, w.phase = "verify" => w.seen = a.seen
    PROVE  p \in DOMAIN w.new /\ Counted(w, p, 0, 0, row[p])
<1>1. p # Sim /\ p \in Providers /\ row[p] \in ProviderRow BY RowsOf DEF Reals
<1>2. p \in DOMAIN a.new BY <1>1 DEF Answers, Set
<1>3. p \in DOMAIN w.new BY <1>1, <1>2 DEF Closes
<1>4. Landed(w, p, row[p]) \in ProviderRow /\ w.new[p] \in ProviderRow BY <1>1, <1>3, LandedRow, KeptRows
<1>5. Tells(Landed(w, p, row[p]), 0, 0) /\ 0 <= w.new[p].until BY <1>4, RowFields DEF Tells
<1>6. QED BY <1>3, <1>5 DEF Counted

LEMMA TurnReady ==
    ASSUME Typed, Breaker, NEW r, NEW w, Turns(r, w), w = Unset \/ Ready(w, clock), clock' = clock
    PROVE  \A s \in Busy' : Ready(req'[s], clock')
<1>1. req'[r] = w /\ \A s \in Requests \ {r} : req'[s] = req[s] BY Turned
<1>2. QED BY <1>1 DEF Busy, Breaker

\* r goes on and no call is counted.
LEMMA TurnBreaker ==
    ASSUME Typed, Breaker, NEW r, NEW w, Turns(r, w), w = Unset \/ Ready(w, clock),
           UNCHANGED <<clock, due, ill>>, battered' = {}, mixed \subseteq mixed',
           \A p \in Reals \ mixed' : row'[p] = row[p],
           \A p \in Reals \ mixed' :
              /\ w # Unset => /\ Counted(w, p, ill[p], due[p], row[p])
                              /\ Holds(w, p) => \A s \in Busy \ {r} : ~Holds(req[s], p)
              /\ r \in Busy /\ p \in DOMAIN req[r].new \cup DOMAIN req[r].mine
                    => w # Unset /\ p \in DOMAIN w.new \cup DOMAIN w.mine
    PROVE  Breaker'
<1>1. \A s \in Busy' : Ready(req'[s], clock') BY TurnReady
<1>2. \A p \in Reals : due'[p] <= clock' + Cooldown BY DEF Breaker
<1>3. ASSUME NEW p \in Reals \ mixed' PROVE Watched(p)'
  <2>1. Watched(p) BY DEF Breaker
  <2>2. row'[p] = row[p] /\ due'[p] = due[p] /\ ill'[p] = ill[p] /\ ill[p] \in Nat BY <1>3 DEF Typed, Reals
  <2>3. ill'[p] \in Nat /\ ill'[p] <= ill[p] BY <2>2
  <2>4. QED BY <2>1, <2>2, <2>3, TurnWatched
<1>4. QED BY <1>1, <1>2, <1>3 DEF Breaker

\* A request that has no rows.
LEMMA EmptyCounted ==
    ASSUME NEW w, NEW p, p \notin DOMAIN w.new \cup DOMAIN w.mine, w.phase \notin {"call", "verify"}, NEW n, NEW t, NEW now
    PROVE  Counted(w, p, n, t, now)
BY DEF Counted

LEMMA InvokeBreaker == ASSUME Typed, Breaker, NEW r \in Busy, Invoke(r) PROVE Breaker'
<1> PICK q : q = req[r] OBVIOUS
<1>1. PICK w : /\ Turns(r, w) /\ Kept(w, clock) /\ w.mine = q.mine /\ DOMAIN w.new = {}
               /\ (w.phase \in {"run", "append", "commit"} /\ mixed' = mixed) \/ Chosen(r, w)
    BY InvokeDoes
<1>2. DOMAIN q.new = {} /\ q.phase = "run" BY DEF Invoke, Typed, Kept
<1>3. UNCHANGED <<clock, due, ill, row, battered>> BY DEF Invoke
<1>4. battered' = {} BY <1>3 DEF Breaker
<1>5. mixed \subseteq mixed' BY <1>1 DEF Chosen
<1>6. Ready(w, clock) BY <1>1 DEF Chosen, Ready
<1>7. ASSUME NEW p \in Reals \ mixed'
      PROVE  /\ Counted(w, p, ill[p], due[p], row[p])
             /\ Holds(w, p) => \A s \in Busy \ {r} : ~Holds(req[s], p)
             /\ p \in DOMAIN q.new \cup DOMAIN q.mine => p \in DOMAIN w.new \cup DOMAIN w.mine
  <2>1. Watched(p) BY <1>5 DEF Breaker
  <2>2. w.phase # "probe" BY <1>1 DEF Chosen
  <2>3. Holds(w, p) => Holds(q, p) BY <1>1, <2>2 DEF Holds
  <2>4. Holds(w, p) => \A s \in Busy \ {r} : ~Holds(req[s], p) BY <2>1, <2>3, Alone
  <2>5. p \in DOMAIN w.mine => Tells(Landed(w, p, row[p]), ill[p], due[p])
    <3>1. Landed(w, p, row[p]) = Landed(q, p, row[p]) BY <1>1, <1>2 DEF Landed
    <3>2. p \in DOMAIN q.mine => Tells(Landed(q, p, row[p]), ill[p], due[p]) BY <2>1 DEF Watched, Counted
    <3>3. QED BY <1>1, <3>1, <3>2
  <2>6. w.phase \in {"call", "verify"} /\ p \in DOMAIN w.seen => Tells(w.seen[p], ill[p], due[p])
    <3>1. SUFFICES ASSUME w.phase \in {"call", "verify"}, p \in DOMAIN w.seen PROVE Tells(w.seen[p], ill[p], due[p])
      OBVIOUS
    <3>2. Chosen(r, w) BY <1>1, <3>1
    <3>3. w.seen[p] = Read(r, p) /\ p \notin Pending(r) BY <1>7, <3>1, <3>2 DEF Chosen
    <3>4. \A s \in Busy \ {r} : p \notin DOMAIN req[s].new \cup DOMAIN req[s].mine BY <3>3 DEF Pending
    <3>5. p \notin DOMAIN req[r].new BY <1>2
    <3>6. Tells(Read(r, p), ill[p], due[p]) BY <2>1, <3>4, <3>5, ReadTells
    <3>7. QED BY <3>3, <3>6
  <2>7. Counted(w, p, ill[p], due[p], row[p]) BY <1>1, <2>5, <2>6 DEF Counted
  <2>8. QED BY <1>1, <1>2, <2>4, <2>7
<1>8. w # Unset BY <1>1, IsInFlight
<1>9. QED BY <1>1, <1>3, <1>4, <1>5, <1>6, <1>7, <1>8, TurnBreaker

\* r keeps what it has of p, be it at the end of a run or in another call.
LEMMA CloseWatches ==
    ASSUME Typed, NEW p \in Reals, Watched(p), NEW r \in Busy, req[r].phase \in {"call", "verify"},
           NEW q, q.phase = req[r].phase, q.mine = req[r].mine, q.seen = req[r].seen,
           p \in DOMAIN q.new <=> p \in DOMAIN req[r].new, p \in DOMAIN q.new => q.new[p] = req[r].new[p],
           NEW w, Closes(r, q, w), w.phase \in {"verify", "run", "append", "commit", "flush"},
           w.phase = "verify" => w.seen = q.seen
    PROVE  /\ Counted(w, p, ill[p], due[p], row[p])
           /\ Holds(w, p) => \A s \in Busy \ {r} : ~Holds(req[s], p)
           /\ p \in DOMAIN req[r].new \cup DOMAIN req[r].mine => p \in DOMAIN w.new \cup DOMAIN w.mine
<1>1. Counted(req[r], p, ill[p], due[p], row[p]) BY DEF Watched
<1>2. Landed(q, p, row[p]) = Landed(req[r], p, row[p]) BY DEF Landed
<1>3. /\ q.phase \in {"call", "verify"} /\ p \in DOMAIN q.seen \ DOMAIN q.new => Tells(q.seen[p], ill[p], due[p])
      /\ q.phase \in {"call", "verify"} /\ p \in DOMAIN q.new => due[p] <= q.new[p].until
      /\ p \in DOMAIN q.new \cup DOMAIN q.mine => Tells(Landed(q, p, row[p]), ill[p], due[p])
    BY <1>1, <1>2 DEF Counted
<1>4. /\ Counted(w, p, ill[p], due[p], row[p])
      /\ p \in DOMAIN w.new \cup DOMAIN w.mine <=> p \in DOMAIN q.new \cup DOMAIN q.mine
      /\ Holds(w, p) => p \in DOMAIN q.new \cup DOMAIN q.mine
    BY <1>3, CloseCounted
<1>5. Holds(w, p) => Holds(req[r], p) BY <1>4 DEF Holds
<1>6. QED BY <1>4, <1>5, Alone

LEMMA VerifyBreaker == ASSUME Typed, Breaker, NEW r \in Busy, Verify(r) PROVE Breaker'
<1>1. PICK w : Turns(r, w) /\ Kept(w, clock) /\ Closes(r, req[r], w) /\ w.phase \in {"run", "append", "commit", "flush"}
    BY VerifyDoes
<1>2. UNCHANGED <<clock, due, ill, row, mixed>> BY DEF Verify
<1>3. battered' = {} BY AskedInTime
<1>4. Ready(w, clock) BY <1>1 DEF Ready
<1>5. w # Unset BY <1>1, IsInFlight
<1>6. req[r].phase = "verify" BY DEF Verify
<1>7. ASSUME NEW p \in Reals \ mixed'
      PROVE  /\ Counted(w, p, ill[p], due[p], row[p])
             /\ Holds(w, p) => \A s \in Busy \ {r} : ~Holds(req[s], p)
             /\ p \in DOMAIN req[r].new \cup DOMAIN req[r].mine => p \in DOMAIN w.new \cup DOMAIN w.mine
  <2>1. Watched(p) BY <1>2 DEF Breaker
  <2>2. QED BY <1>1, <1>6, <2>1, CloseWatches
<1>8. QED BY <1>1, <1>2, <1>3, <1>4, <1>5, <1>7, TurnBreaker

\* What the call of p leaves of another provider.
LEMMA OthersKept ==
    ASSUME Typed, NEW r \in Busy, req[r].phase = "call", NEW p, NEW o \in Reals, o # p, Watched(o),
           NEW n, NEW a, Answers(r, p, n, a), NEW w, Closes(r, a, w),
           w.phase \in {"verify", "run", "append", "commit", "flush"}, w.phase = "verify" => w.seen = a.seen
    PROVE  /\ Counted(w, o, ill[o], due[o], row[o])
           /\ Holds(w, o) => \A s \in Busy \ {r} : ~Holds(req[s], o)
           /\ o \in DOMAIN req[r].new \cup DOMAIN req[r].mine => o \in DOMAIN w.new \cup DOMAIN w.mine
<1>1. a.phase = "call" /\ a.mine = req[r].mine /\ a.seen = req[r].seen BY DEF Answers
<1>2. /\ o \in DOMAIN a.new <=> o \in DOMAIN req[r].new
      /\ o \in DOMAIN a.new => a.new[o] = req[r].new[o]
  <2>1. CASE p = Sim BY <2>1 DEF Answers
  <2>2. CASE p # Sim BY <2>2 DEF Answers, Set
  <2>3. QED BY <2>1, <2>2
<1>3. QED BY <1>1, <1>2, CloseWatches

LEMMA OthersAfterFailure ==
    ASSUME Typed, NEW r \in Busy, req[r].phase = "call", NEW p, NEW o \in Reals, o # p, Watched(o),
           NEW w, Fails(r, p, w)
    PROVE  /\ Counted(w, o, ill[o], due[o], row[o])
           /\ Holds(w, o) => \A s \in Busy \ {r} : ~Holds(req[s], o)
           /\ o \in DOMAIN req[r].new \cup DOMAIN req[r].mine => o \in DOMAIN w.new \cup DOMAIN w.mine
<1>1. w.phase = "call" /\ w.mine = req[r].mine /\ w.seen = req[r].seen BY DEF Fails
<1>2. /\ o \in DOMAIN w.new <=> o \in DOMAIN req[r].new
      /\ o \in DOMAIN w.new => w.new[o] = req[r].new[o]
    BY DEF Fails, Set
<1>3. Counted(req[r], o, ill[o], due[o], row[o]) BY DEF Watched
<1>4. Landed(w, o, row[o]) = Landed(req[r], o, row[o]) BY <1>1, <1>2 DEF Landed
<1>5. Counted(w, o, ill[o], due[o], row[o]) BY <1>1, <1>2, <1>3, <1>4 DEF Counted
<1>6. Holds(w, o) => Holds(req[r], o) BY <1>1, <1>2 DEF Holds
<1>7. QED BY <1>1, <1>2, <1>5, <1>6, Alone

LEMMA CallBreaker == ASSUME Typed, Breaker, NEW r \in Busy, Call(r) PROVE Breaker'
<1> PICK p : p = Head(req[r].cand) OBVIOUS
<1>1. /\ req[r].phase = "call" /\ p \in Range(req[r].cand)
      /\ p # Sim => p \in Reals /\ p \in DOMAIN req[r].seen
    BY CallDoes
<1>2. UNCHANGED <<clock, row>> BY DEF Call
<1>3. CASE p = Sim
  <2>1. /\ UNCHANGED <<ill, due, mixed, battered>>
        /\ \E a, w : /\ Turns(r, w) /\ Kept(w, clock) /\ Answers(r, p, 1, a) /\ Closes(r, a, w)
                     /\ w.phase \in {"verify", "run", "append", "commit", "flush"}
                     /\ (w.phase = "verify" => w.seen = a.seen)
    BY <1>3, CallDoes
  <2>2. PICK a, w : /\ Turns(r, w) /\ Kept(w, clock) /\ Answers(r, p, 1, a) /\ Closes(r, a, w)
                    /\ w.phase \in {"verify", "run", "append", "commit", "flush"}
                    /\ (w.phase = "verify" => w.seen = a.seen)
    BY <2>1
  <2>3. battered' = {} BY <2>1 DEF Breaker
  <2>4. Ready(w, clock) /\ w # Unset BY <2>2, IsInFlight DEF Ready
  <2>5. ASSUME NEW o \in Reals \ mixed'
        PROVE  /\ Counted(w, o, ill[o], due[o], row[o])
               /\ Holds(w, o) => \A s \in Busy \ {r} : ~Holds(req[s], o)
               /\ o \in DOMAIN req[r].new \cup DOMAIN req[r].mine => o \in DOMAIN w.new \cup DOMAIN w.mine
    <3>1. Watched(o) /\ o # p BY <1>3, <2>1 DEF Breaker, Reals
    <3>2. QED BY <1>1, <2>2, <3>1, OthersKept
  <2>6. QED BY <1>2, <2>1, <2>2, <2>3, <2>4, <2>5, TurnBreaker
<1>4. CASE p # Sim
  <2>1. p \in Reals /\ p \in DOMAIN req[r].seen BY <1>1, <1>4
  <2>0. \/ /\ Count(r, p, TRUE)
           /\ \E n \in Nat : \E a, w : /\ Turns(r, w) /\ Kept(w, clock) /\ Answers(r, p, n, a) /\ Closes(r, a, w)
                                       /\ w.phase \in {"verify", "run", "append", "commit", "flush"}
                                       /\ (w.phase = "verify" => w.seen = a.seen)
        \/ Count(r, p, FALSE) /\ \E w : Turns(r, w) /\ Kept(w, clock) /\ Fails(r, p, w)
    BY <1>4, CallDoes
  <2>11. PICK ok \in BOOLEAN :
           /\ Count(r, p, ok)
           /\ ok => \E n \in Nat : \E a, w : /\ Turns(r, w) /\ Kept(w, clock) /\ Answers(r, p, n, a) /\ Closes(r, a, w)
                                             /\ w.phase \in {"verify", "run", "append", "commit", "flush"}
                                             /\ (w.phase = "verify" => w.seen = a.seen)
           /\ ~ok => \E w : Turns(r, w) /\ Kept(w, clock) /\ Fails(r, p, w)
    <3>1. CASE /\ Count(r, p, TRUE)
               /\ \E n \in Nat : \E a, w : /\ Turns(r, w) /\ Kept(w, clock) /\ Answers(r, p, n, a) /\ Closes(r, a, w)
                                           /\ w.phase \in {"verify", "run", "append", "commit", "flush"}
                                           /\ (w.phase = "verify" => w.seen = a.seen)
      <4>1. WITNESS TRUE \in BOOLEAN
      <4>2. QED BY <3>1
    <3>2. CASE Count(r, p, FALSE) /\ \E w : Turns(r, w) /\ Kept(w, clock) /\ Fails(r, p, w)
      <4>1. WITNESS FALSE \in BOOLEAN
      <4>2. QED BY <3>2
    <3>3. QED BY <2>0, <3>1, <3>2
  <2>2. Count(r, p, ok) BY <2>11
  <2>3. mixed \subseteq mixed' /\ (p \notin mixed' => p \notin mixed /\ ~Overlap(r, p)) BY <2>2 DEF Count
  <2>4. /\ \A o \in Reals \ {p} : ill'[o] = ill[o] /\ due'[o] = due[o] /\ ill[o] \in Nat
        /\ due'[p] = IF ok THEN 0 ELSE IF ill[p] + 1 >= Threshold THEN clock + Cooldown ELSE due[p]
    BY <2>1, <2>2 DEF Count, Typed, Reals
  <2>5. \A o \in Reals : due'[o] <= clock' + Cooldown
    <3>1. clock + Cooldown \in Nat BY AgentRunsAssumption DEF Typed
    <3>2. \A o \in Reals : due[o] <= clock + Cooldown BY DEF Breaker
    <3>3. QED BY <1>2, <2>1, <2>4, <3>1, <3>2
  <2>6. battered' = {}
    <3>1. CASE p \in DOMAIN req[r].new BY <2>2, <3>1 DEF Count, Breaker
    <3>2. CASE p \notin DOMAIN req[r].new
      <4>1. Batter(r, p) BY <2>2, <3>2 DEF Count
      <4>2. ASSUME p \notin mixed PROVE due[p] <= clock
        <5>1. Counted(req[r], p, ill[p], due[p], row[p]) BY <2>1, <4>2 DEF Breaker, Watched
        <5>2. due[p] <= req[r].seen[p].until BY <1>1, <2>1, <3>2, <5>1 DEF Counted, Tells
        <5>3. req[r].seen[p].until <= clock BY <1>1, <1>4 DEF Breaker, Ready
        <5>4. req[r].seen[p].until \in Nat /\ due[p] \in Nat /\ clock \in Nat BY <2>1, RowsOf, RowFields
        <5>5. QED BY <5>2, <5>3, <5>4
      <4>3. QED BY <2>1, <4>1, <4>2, NotBattered
    <3>3. QED BY <3>1, <3>2
  <2>7. ASSUME NEW w, Turns(r, w), w # Unset, Ready(w, clock),
               \A o \in Reals \ (mixed' \cup {p}) :
                  /\ Counted(w, o, ill[o], due[o], row[o])
                  /\ Holds(w, o) => \A s \in Busy \ {r} : ~Holds(req[s], o)
                  /\ o \in DOMAIN req[r].new \cup DOMAIN req[r].mine => o \in DOMAIN w.new \cup DOMAIN w.mine,
               p \notin mixed' => p \in DOMAIN w.new /\ Counted(w, p, ill'[p], due'[p], row'[p])
        PROVE  Breaker'
    <3>1. \A s \in Busy' : Ready(req'[s], clock') BY <1>2, <2>7, TurnReady
    <3>2. ASSUME NEW o \in Reals \ mixed' PROVE Watched(o)'
      <4>1. CASE o = p
        <5>1. \A s \in Busy \ {r} : p \notin DOMAIN req[s].seen \cup DOMAIN req[s].mine
          BY <2>3, <3>2, <4>1, NoOverlap
        <5>2. Watched(p)' BY <2>1, <2>7, <3>2, <4>1, <5>1, AloneWatched
        <5>3. QED BY <4>1, <5>2
      <4>2. CASE o # p
        <5>1. Watched(o) BY <2>3, <3>2 DEF Breaker
        <5>2. row'[o] = row[o] /\ due'[o] = due[o] /\ ill'[o] = ill[o] /\ ill'[o] \in Nat /\ ill'[o] <= ill[o]
          BY <1>2, <2>4, <4>2
        <5>3. QED BY <2>7, <4>2, <5>1, <5>2, TurnWatched
      <4>3. QED BY <4>1, <4>2
    <3>3. QED BY <2>5, <2>6, <3>1, <3>2 DEF Breaker
  <2>8. CASE ok
    <3>1. PICK n \in Nat : \E a, w : /\ Turns(r, w) /\ Kept(w, clock) /\ Answers(r, p, n, a) /\ Closes(r, a, w)
                                     /\ w.phase \in {"verify", "run", "append", "commit", "flush"}
                                     /\ (w.phase = "verify" => w.seen = a.seen)
      BY <2>8, <2>11
    <3>2. PICK a, w : /\ Turns(r, w) /\ Kept(w, clock) /\ Answers(r, p, n, a) /\ Closes(r, a, w)
                      /\ w.phase \in {"verify", "run", "append", "commit", "flush"}
                      /\ (w.phase = "verify" => w.seen = a.seen)
      BY <3>1
    <3>3. Ready(w, clock) /\ w # Unset BY <3>2, IsInFlight DEF Ready
    <3>4. p \in DOMAIN w.new /\ Counted(w, p, 0, 0, row[p]) BY <1>1, <2>1, <3>2, AnswerCounted
    <3>5. ill'[p] = 0 /\ due'[p] = 0 BY <2>1, <2>2, <2>8 DEF Count, Typed, Reals
    <3>6. ASSUME NEW o \in Reals \ (mixed' \cup {p})
          PROVE  /\ Counted(w, o, ill[o], due[o], row[o])
                 /\ Holds(w, o) => \A s \in Busy \ {r} : ~Holds(req[s], o)
                 /\ o \in DOMAIN req[r].new \cup DOMAIN req[r].mine => o \in DOMAIN w.new \cup DOMAIN w.mine
      <4>1. Watched(o) /\ o # p BY <2>3, <3>6 DEF Breaker
      <4>2. QED BY <1>1, <3>2, <3>6, <4>1, OthersKept
    <3>7. QED BY <1>2, <2>7, <3>2, <3>3, <3>4, <3>5, <3>6
  <2>9. CASE ~ok
    <3>2. PICK w : Turns(r, w) /\ Kept(w, clock) /\ Fails(r, p, w) BY <2>9, <2>11
    <3>3. Ready(w, clock)
      <4>1. Ready(req[r], clock) BY DEF Breaker
      <4>2. QED BY <1>1, <3>2, <4>1 DEF Ready, Fails
    <3>4. p \notin mixed' => p \in DOMAIN w.new /\ Counted(w, p, ill'[p], due'[p], row'[p])
      <4>1. SUFFICES ASSUME p \notin mixed' PROVE p \in DOMAIN w.new /\ Counted(w, p, ill'[p], due'[p], row'[p])
        OBVIOUS
      <4>2. p \notin mixed /\ ~Overlap(r, p) /\ Count(r, p, FALSE) /\ row'[p] = row[p] BY <1>2, <2>2, <2>3, <2>9, <4>1
      <4>3. Counted(w, p, ill'[p], due'[p], row'[p]) BY <1>1, <2>1, <3>2, <4>2, FailureCounted
      <4>4. p \in DOMAIN w.new BY <3>2 DEF Fails, Set
      <4>5. QED BY <4>3, <4>4
    <3>5. ASSUME NEW o \in Reals \ (mixed' \cup {p})
          PROVE  /\ Counted(w, o, ill[o], due[o], row[o])
                 /\ Holds(w, o) => \A s \in Busy \ {r} : ~Holds(req[s], o)
                 /\ o \in DOMAIN req[r].new \cup DOMAIN req[r].mine => o \in DOMAIN w.new \cup DOMAIN w.mine
      <4>1. Watched(o) /\ o # p BY <2>3, <3>5 DEF Breaker
      <4>2. QED BY <1>1, <3>2, <3>5, <4>1, OthersAfterFailure
    <3>6. w # Unset BY <3>2, IsInFlight
    <3>7. QED BY <2>7, <3>2, <3>3, <3>4, <3>5, <3>6
  <2>10. QED BY <2>8, <2>9
<1>5. QED BY <1>3, <1>4

LEMMA FlushBreaker == ASSUME Typed, Locked, Breaker, NEW r \in Busy, Flush(r) PROVE Breaker'
<1> PICK q : q = req[r] OBVIOUS
<1>1. PICK w, x : Turns(r, w) /\ Kept(w, clock) /\ Writes(r, x, w) /\ x \in DOMAIN q.new BY FlushDoes
<1>2. UNCHANGED <<clock, due, ill, row, mixed, battered>> BY DEF Flush
<1>3. battered' = {} BY <1>2 DEF Breaker
<1>4. w.phase \in {"run", "append", "commit", "flush", "record", "close"} BY <1>1 DEF Writes
<1>5. Ready(w, clock) /\ w # Unset BY <1>1, <1>4, IsInFlight DEF Ready
<1>6. ASSUME NEW p \in Reals \ mixed'
      PROVE  /\ Counted(w, p, ill[p], due[p], row[p])
             /\ Holds(w, p) => \A s \in Busy \ {r} : ~Holds(req[s], p)
             /\ p \in DOMAIN q.new \cup DOMAIN q.mine => p \in DOMAIN w.new \cup DOMAIN w.mine
  <2>1. Watched(p) BY <1>2 DEF Breaker
  <2>2. p \in DOMAIN w.new \cup DOMAIN w.mine <=> p \in DOMAIN q.new \cup DOMAIN q.mine
    <3>1. DOMAIN w.new = DOMAIN q.new \ {x} /\ DOMAIN w.mine = DOMAIN q.mine \cup {x} BY <1>1 DEF Writes, Set
    <3>2. QED BY <1>1, <3>1
  <2>3. Holds(w, p) => Holds(q, p) BY <1>4, <2>2 DEF Holds
  <2>4. Holds(w, p) => \A s \in Busy \ {r} : ~Holds(req[s], p) BY <2>1, <2>3, Alone
  <2>5. p \in DOMAIN q.new \cup DOMAIN q.mine => Landed(w, p, row[p]) = Landed(q, p, row[p])
    <3>1. CASE p = x
      <4>1. p \notin DOMAIN w.new BY <1>1, <3>1 DEF Writes
      <4>2. p \in DOMAIN w.mine /\ w.mine[p] = Merged(Read(r, p), q.seen[p], q.new[p]) BY <1>1, <3>1 DEF Writes, Set
      <4>3. Landed(w, p, row[p]) = Merged(Read(r, p), q.seen[p], q.new[p]) BY <4>1, <4>2 DEF Landed
      <4>4. Landed(q, p, row[p]) = Merged(Read(r, p), q.seen[p], q.new[p]) BY <1>1, <3>1 DEF Landed, Read
      <4>5. QED BY <4>3, <4>4
    <3>2. CASE p # x
      <4>1. /\ p \in DOMAIN w.mine <=> p \in DOMAIN q.mine
            /\ p \in DOMAIN q.mine => w.mine[p] = q.mine[p]
        BY <1>1, <3>2 DEF Writes, Set
      <4>2. /\ p \in DOMAIN w.new <=> p \in DOMAIN q.new
            /\ p \in DOMAIN w.new => w.new[p] = q.new[p] /\ w.seen = q.seen
        BY <1>1, <3>2 DEF Writes
      <4>3. QED BY <4>1, <4>2 DEF Landed
    <3>3. QED BY <3>1, <3>2
  <2>6. p \in DOMAIN q.new \cup DOMAIN q.mine => Tells(Landed(q, p, row[p]), ill[p], due[p])
    BY <2>1 DEF Watched, Counted
  <2>7. Counted(w, p, ill[p], due[p], row[p])
    <3>1. w.phase \notin {"call", "verify"} BY <1>4
    <3>2. p \in DOMAIN w.new \cup DOMAIN w.mine => Tells(Landed(w, p, row[p]), ill[p], due[p]) BY <2>2, <2>5, <2>6
    <3>3. QED BY <3>1, <3>2 DEF Counted
  <2>8. QED BY <2>2, <2>4, <2>7
<1>7. QED BY <1>1, <1>2, <1>3, <1>5, <1>6, TurnBreaker

LEMMA CommitBreaker == ASSUME Typed, Breaker, NEW r \in Busy, CommitRun(r) PROVE Breaker'
<1> PICK q : q = req[r] OBVIOUS
<1> PICK w : Turns(r, w) /\ Leaves(w) BY CommitDoes
<1>1. /\ UNCHANGED <<clock, due, ill, mixed, battered>>
      /\ row' = [x \in Rows |-> IF x \in DOMAIN q.mine THEN q.mine[x] ELSE row[x]]
    BY DEF CommitRun
<1>2. DOMAIN q.new = {} /\ q.phase \in {"commit", "close"} BY CommitDoes
<1>3. req'[r] = w /\ \A s \in Requests \ {r} : req'[s] = req[s] BY Turned
<1>4. \A s \in Busy' \ {r} : s \in Busy \ {r} /\ req'[s] = req[s] BY <1>3 DEF Busy
<1>5. \A s \in Busy \ {r} : s \in Busy' /\ req'[s] = req[s] BY <1>3 DEF Busy
<1>rest. r \in Busy' => /\ req'[r].phase = "append" /\ DOMAIN req'[r].new = {} /\ DOMAIN req'[r].mine = {}
                       /\ \A p : ~Holds(req'[r], p)
  <2>1. r \in Busy' => w # Unset BY <1>3 DEF Busy
  <2>2. QED BY <1>3, <2>1 DEF Leaves, Holds
<1>6. \A s \in Busy' : Ready(req'[s], clock')
  <2>1. w = Unset \/ Ready(w, clock) BY DEF Leaves, Ready
  <2>2. QED BY <1>1, <2>1, TurnReady
<1>7. ASSUME NEW p \in Reals \ mixed' PROVE Watched(p)'
  <2>1. Watched(p) BY <1>1 DEF Breaker
  <2>2. p \in Rows BY RowSound
  <2>3. UNCHANGED <<ill, due>> BY <1>1
  <2>4. ASSUME NEW s \in Busy', NEW u \in Busy', Holds(req'[s], p), Holds(req'[u], p) PROVE s = u
    <3>1. s # r /\ u # r BY <1>rest, <2>4
    <3>2. QED BY <1>4, <2>1, <2>4, <3>1 DEF Watched
  <2>5. CASE p \in DOMAIN q.mine
    <3>1. \A s \in Busy \ {r} : ~Holds(req[s], p) BY <2>1, <2>5, Alone DEF Holds
    <3>2. row'[p] = q.mine[p] /\ Landed(q, p, row[p]) = q.mine[p] BY <1>1, <1>2, <2>2, <2>5 DEF Landed
    <3>3. Tells(row'[p], ill'[p], due'[p]) BY <2>1, <2>3, <2>5, <3>2 DEF Watched, Counted
    <3>4. \A s \in Busy' : Counted(req'[s], p, ill'[p], due'[p], row'[p])
      <4>1. TAKE s \in Busy'
      <4>2. CASE s = r BY <1>rest, <4>2, EmptyCounted
      <4>3. CASE s # r
        <5>1. s \in Busy /\ req'[s] = req[s] /\ ~Holds(req[s], p) BY <1>4, <3>1, <4>3
        <5>2. Counted(req[s], p, ill[p], due[p], row[p]) BY <2>1, <5>1 DEF Watched
        <5>3. p \notin DOMAIN req[s].new \cup DOMAIN req[s].mine BY <5>1 DEF Holds
        <5>4. QED BY <2>3, <5>1, <5>2, <5>3 DEF Counted
      <4>4. QED BY <4>2, <4>3
    <3>5. QED BY <2>4, <3>3, <3>4 DEF Watched
  <2>6. CASE p \notin DOMAIN q.mine
    <3>1. row'[p] = row[p] BY <1>1, <2>2, <2>6
    <3>2. \A s \in Busy' : Counted(req'[s], p, ill'[p], due'[p], row'[p])
      <4>1. TAKE s \in Busy'
      <4>2. CASE s = r BY <1>rest, <4>2, EmptyCounted
      <4>3. CASE s # r BY <1>4, <2>1, <2>3, <3>1, <4>3 DEF Watched
      <4>4. QED BY <4>2, <4>3
    <3>3. ASSUME \A s \in Busy' : p \notin DOMAIN req'[s].new \cup DOMAIN req'[s].mine
          PROVE  Tells(row'[p], ill'[p], due'[p])
      <4>1. \A s \in Busy : p \notin DOMAIN req[s].new \cup DOMAIN req[s].mine BY <1>2, <1>5, <2>6, <3>3
      <4>2. QED BY <2>1, <2>3, <3>1, <4>1 DEF Watched
    <3>4. QED BY <2>4, <3>2, <3>3 DEF Watched
  <2>7. QED BY <2>5, <2>6
<1>8. QED BY <1>1, <1>6, <1>7 DEF Breaker

LEMMA RollBackBreaker == ASSUME Typed, Breaker, NEW r \in Requests, RollBack(r) PROVE Breaker'
<1>1. /\ Turns(r, Unset) /\ UNCHANGED <<clock, due, ill, row, battered>>
      /\ mixed' = mixed \cup ((DOMAIN req[r].mine \cup DOMAIN req[r].new) \cap Reals)
    BY DEF RollBack, Turns
<1>2. battered' = {} BY <1>1 DEF Breaker
<1>3. \A p \in Reals \ mixed' : p \notin DOMAIN req[r].new \cup DOMAIN req[r].mine BY <1>1
<1>4. QED BY <1>1, <1>2, <1>3, TurnBreaker

LEMMA StartBreaker ==
    ASSUME Typed, Breaker, NEW r \in Requests, r \notin Busy, NEW w, Turns(r, w), Kept(w, clock),
           w.phase \in {"run", "probe"}, DOMAIN w.mine = {},
           UNCHANGED <<clock, due, ill, row, battered>>, mixed \subseteq mixed',
           \A p \in Reals \ mixed' : w.phase = "probe" /\ p \in DOMAIN w.seen => ~Overlap(r, p)
    PROVE  Breaker'
<1>1. DOMAIN w.new = {} BY DEF Kept
<1>2. battered' = {} BY DEF Breaker
<1>3. Ready(w, clock) BY DEF Ready
<1>4. ASSUME NEW p \in Reals \ mixed'
      PROVE  /\ Counted(w, p, ill[p], due[p], row[p])
             /\ Holds(w, p) => \A s \in Busy \ {r} : ~Holds(req[s], p)
  <2>1. Counted(w, p, ill[p], due[p], row[p]) BY <1>1, EmptyCounted
  <2>2. Holds(w, p) => ~Overlap(r, p) BY <1>1 DEF Holds
  <2>3. QED BY <2>1, <2>2, NoOverlap
<1>5. QED BY <1>2, <1>3, <1>4, TurnBreaker

LEMMA ProbedBreaker == ASSUME Typed, Breaker, NEW r \in Busy, Probed(r) PROVE Breaker'
<1> PICK q : q = req[r] OBVIOUS
<1>1. PICK w, o : /\ Turns(r, w) /\ Kept(w, clock) /\ o \in Reals /\ DOMAIN q.seen = {o}
                  /\ w.phase = "append" /\ w.seen = q.seen /\ DOMAIN w.mine = {} /\ DOMAIN w.new = {o}
                  /\ \/ w.new[o] = q.seen[o] /\ ill' = ill
                     \/ /\ w.new[o] \in ProviderRow /\ w.new[o].fails = 0
                        /\ w.new[o].until = q.seen[o].until /\ ill' = [ill EXCEPT ![o] = 0]
    BY ProbedDoes
<1>2. q.phase = "probe" /\ DOMAIN q.new = {} /\ DOMAIN q.mine = {} BY DEF Probed, Typed, Kept
<1>3. UNCHANGED <<clock, due, row, mixed, battered>> BY DEF Probed
<1>4. battered' = {} BY <1>3 DEF Breaker
<1>5. w # Unset /\ Ready(w, clock) BY <1>1, IsInFlight DEF Ready
<1>6. \A s \in Busy' : Ready(req'[s], clock') BY <1>1, <1>3, <1>5, TurnReady
<1>7. ASSUME NEW p \in Reals \ mixed' PROVE Watched(p)'
  <2>1. Watched(p) BY <1>3 DEF Breaker
  <2>2. ill[p] \in Nat /\ ill'[p] \in Nat /\ ill'[p] <= ill[p]
    <3>1. ill \in [Providers -> Nat] /\ o \in Providers /\ p \in Providers BY <1>1 DEF Typed, Reals
    <3>2. QED BY <1>1, <3>1
  <2>3. CASE p # o
    <3>1. p \notin DOMAIN w.new \cup DOMAIN w.mine /\ ~Holds(w, p) BY <1>1, <2>3 DEF Holds
    <3>2. Counted(w, p, ill'[p], due[p], row[p]) BY <1>1, <3>1, EmptyCounted
    <3>3. row'[p] = row[p] /\ due'[p] = due[p] BY <1>3
    <3>4. QED BY <1>1, <1>2, <2>1, <2>2, <3>1, <3>2, <3>3, TurnWatched
  <2>4. CASE p = o
    <3>1. Holds(q, p) BY <1>1, <1>2, <2>4 DEF Holds
    <3>2. \A s \in Busy \ {r} : ~Holds(req[s], p) BY <2>1, <3>1, Alone
    <3>3. \A s \in Busy : p \notin DOMAIN req[s].new \cup DOMAIN req[s].mine BY <1>2, <3>2 DEF Holds
    <3>4. Tells(row[p], ill[p], due[p]) BY <2>1, <3>3 DEF Watched
    <3>5. row[p] \in ProviderRow /\ q.seen[p] \in ProviderRow /\ w.new[p] \in ProviderRow
      BY <1>1, <2>4, RowsOf, KeptRows
    <3>6. Landed(w, p, row[p]) = Merged(row[p], q.seen[p], w.new[p]) BY <1>1, <2>4 DEF Landed
    <3>7. /\ Landed(w, p, row[p]).fails = IF w.new[p].fails # q.seen[p].fails THEN w.new[p].fails ELSE row[p].fails
          /\ Landed(w, p, row[p]).until = IF w.new[p].until # q.seen[p].until THEN w.new[p].until ELSE row[p].until
      BY <3>5, <3>6, MergedRow
    <3>8. w.new[p].until = q.seen[p].until BY <1>1, <2>4
    <3>9. due[p] <= Landed(w, p, row[p]).until BY <3>4, <3>7, <3>8 DEF Tells
    <3>10. ill'[p] <= Landed(w, p, row[p]).fails
      <4>1. CASE w.new[o] = q.seen[o] /\ ill' = ill
        <5>1. Landed(w, p, row[p]).fails = row[p].fails BY <2>4, <3>7, <4>1
        <5>2. QED BY <3>4, <4>1, <5>1 DEF Tells
      <4>2. CASE ill' = [ill EXCEPT ![o] = 0]
        <5>1. ill'[p] = 0 BY <1>1, <2>4, <4>2 DEF Typed, Reals
        <5>2. Landed(w, p, row[p]) \in ProviderRow BY <1>1, <3>5, LandedRow
        <5>3. QED BY <5>1, <5>2, RowFields
      <4>3. QED BY <1>1, <4>1, <4>2
    <3>11. Tells(Landed(w, p, row[p]), ill'[p], due[p]) BY <3>9, <3>10 DEF Tells
    <3>12. Counted(w, p, ill'[p], due[p], row[p]) BY <1>1, <3>11 DEF Counted
    <3>13. p \in DOMAIN w.new BY <1>1, <2>4
    <3>14. row'[p] = row[p] /\ due'[p] = due[p] BY <1>3
    <3>15. QED BY <1>1, <1>5, <2>1, <2>2, <3>2, <3>12, <3>13, <3>14, TurnWatched
  <2>5. QED BY <2>3, <2>4
<1>8. \A p \in Reals : due'[p] <= clock' + Cooldown BY <1>3 DEF Breaker
<1>9. QED BY <1>4, <1>6, <1>7, <1>8 DEF Breaker

\* An administrator's change leaves the columns of the breaker alone.
LEMMA EditBreaker ==
    ASSUME Typed, Breaker, NEW r \in Requests, NEW o \in Reals, NEW c \in Configs, EditProvider(r, o, c)
    PROVE  Breaker'
<1>1. r \notin Busy BY EditDoes
<1>2. PICK w : /\ Turns(r, w) /\ Kept(w, clock) /\ w.phase = "append" /\ DOMAIN w.mine = {} /\ w.owed = 0
               /\ DOMAIN w.seen = {o} /\ DOMAIN w.new = {o} /\ w.seen[o] = row[o]
               /\ w.new[o] \in ProviderRow /\ w.new[o].fails = row[o].fails /\ w.new[o].until = row[o].until
    BY EditDoes
<1>3. UNCHANGED <<clock, due, ill, row, battered>> /\ mixed' = mixed \cup (IF Overlap(r, o) THEN {o} ELSE {})
    BY DEF EditProvider
<1>4. w # Unset /\ Ready(w, clock) BY <1>2, IsInFlight DEF Ready
<1>5. ASSUME NEW p \in Reals \ mixed'
      PROVE  /\ Counted(w, p, ill[p], due[p], row[p])
             /\ Holds(w, p) => \A s \in Busy \ {r} : ~Holds(req[s], p)
  <2>1. CASE p # o
    <3>1. p \notin DOMAIN w.new \cup DOMAIN w.mine /\ ~Holds(w, p) BY <1>2, <2>1 DEF Holds
    <3>2. QED BY <1>2, <3>1, EmptyCounted
  <2>2. CASE p = o
    <3>1. ~Overlap(r, p) /\ Watched(p) BY <1>3, <2>2 DEF Breaker
    <3>2. \A s \in Busy : p \notin DOMAIN req[s].new \cup DOMAIN req[s].mine BY <1>1, <3>1, NoOverlap
    <3>3. Tells(row[p], ill[p], due[p]) BY <3>1, <3>2 DEF Watched
    <3>4. row[p] \in ProviderRow BY RowSound
    <3>5. Landed(w, p, row[p]) = Merged(row[p], row[p], w.new[p]) BY <1>2, <2>2 DEF Landed
    <3>6. /\ Landed(w, p, row[p]).fails = IF w.new[p].fails # row[p].fails THEN w.new[p].fails ELSE row[p].fails
          /\ Landed(w, p, row[p]).until = IF w.new[p].until # row[p].until THEN w.new[p].until ELSE row[p].until
      BY <1>2, <2>2, <3>4, <3>5, MergedRow
    <3>7. Tells(Landed(w, p, row[p]), ill[p], due[p]) BY <1>2, <2>2, <3>3, <3>6 DEF Tells
    <3>8. Counted(w, p, ill[p], due[p], row[p]) BY <1>2, <3>7 DEF Counted
    <3>9. QED BY <3>1, <3>8, NoOverlap
  <2>3. QED BY <2>1, <2>2
<1>6. battered' = {} /\ mixed \subseteq mixed' BY <1>3 DEF Breaker
<1>7. QED BY <1>1, <1>2, <1>3, <1>4, <1>5, <1>6, TurnBreaker

LEMMA LockBreaker ==
    ASSUME Typed, Breaker, NEW r \in Busy, TakeProcess(r) \/ TakeChain(r)
    PROVE  Breaker'
<1> PICK q : q = req[r] OBVIOUS
<1>1. PICK w : Turns(r, w) /\ Kept(w, clock) /\ Proceeds(q, w) BY LockDoes
<1>2. UNCHANGED <<clock, due, ill, row, mixed, battered>> BY DEF TakeProcess, TakeChain, ghosts
<1>3. w # Unset /\ Ready(w, clock) BY <1>1, IsInFlight DEF Ready, Proceeds
<1>4. ASSUME NEW p \in Reals \ mixed'
      PROVE  /\ Counted(w, p, ill[p], due[p], row[p])
             /\ Holds(w, p) => \A s \in Busy \ {r} : ~Holds(req[s], p)
             /\ p \in DOMAIN q.new \cup DOMAIN q.mine => p \in DOMAIN w.new \cup DOMAIN w.mine
  <2>1. Watched(p) BY <1>2 DEF Breaker
  <2>2. Holds(w, p) => Holds(q, p) BY <1>1 DEF Proceeds, Holds
  <2>3. Holds(w, p) => \A s \in Busy \ {r} : ~Holds(req[s], p) BY <2>1, <2>2, Alone
  <2>4. Landed(w, p, row[p]) = Landed(q, p, row[p]) BY <1>1 DEF Proceeds, Landed
  <2>5. Counted(q, p, ill[p], due[p], row[p]) BY <2>1 DEF Watched
  <2>6. Counted(w, p, ill[p], due[p], row[p]) BY <1>1, <2>4, <2>5 DEF Proceeds, Counted
  <2>7. QED BY <1>1, <2>3, <2>6 DEF Proceeds
<1>5. battered' = {} BY <1>2 DEF Breaker
<1>6. QED BY <1>1, <1>2, <1>3, <1>4, <1>5, TurnBreaker

LEMMA TickBreaker == ASSUME Typed, Breaker, Tick PROVE Breaker'
<1>1. UNCHANGED <<req, due, ill, row, mixed, battered>> /\ clock' = clock + 1 BY DEF Tick, ghosts
<1>2. Busy' = Busy BY <1>1 DEF Busy
<1>3. clock \in Nat /\ Cooldown \in Nat BY AgentRunsAssumption DEF Typed
<1>4. ASSUME NEW p \in Reals PROVE due'[p] <= clock' + Cooldown
  <2>1. due[p] \in Nat /\ due[p] <= clock + Cooldown BY DEF Breaker, Typed, Reals
  <2>2. QED BY <1>1, <1>3, <2>1
<1>5. ASSUME NEW s \in Busy' PROVE Ready(req'[s], clock')
  <2>1. s \in Busy /\ req'[s] = req[s] /\ Kept(req[s], clock) BY <1>1, <1>2 DEF Typed
  <2>2. SUFFICES ASSUME req[s].phase = "call", NEW p \in Range(req[s].cand) \ {Sim}
                 PROVE  req[s].seen[p].until <= clock'
    BY <2>1 DEF Ready
  <2>3. req[s].seen[p].until <= clock BY <2>1, <2>2 DEF Breaker, Ready
  <2>4. p \in Reals /\ p \in DOMAIN req[s].seen
    <3>1. req[s].cand \in Seq(Providers) /\ p \in DOMAIN req[s].seen BY <2>1, <2>2 DEF Kept
    <3>2. Range(req[s].cand) \subseteq Providers BY <3>1, ElementOfSeq, LenProperties DEF Range
    <3>3. QED BY <3>1, <3>2 DEF Reals
  <2>5. req[s].seen[p].until \in Nat BY <2>1, <2>4, RowsOf, RowFields
  <2>6. QED BY <1>1, <1>3, <2>3, <2>5
<1>6. ASSUME NEW p \in Reals \ mixed PROVE Watched(p)'
  <2>1. Watched(p) BY DEF Breaker
  <2>2. QED BY <1>1, <1>2, <2>1 DEF Watched
<1>7. battered' = {} BY <1>1 DEF Breaker
<1>8. QED BY <1>1, <1>4, <1>5, <1>6, <1>7 DEF Breaker

LEMMA BreakerSame == ASSUME Breaker, UNCHANGED <<req, clock, due, ill, row, mixed, battered>> PROVE Breaker'
<1>1. Busy' = Busy BY DEF Busy
<1>2. \A p \in Reals \ mixed : Watched(p)' BY <1>1 DEF Breaker, Watched
<1>3. QED BY <1>1, <1>2 DEF Breaker

LEMMA BreakerInit == RunsInit => Breaker
<1> SUFFICES ASSUME RunsInit PROVE Breaker OBVIOUS
<1>1. Busy = {} /\ battered = {} /\ clock = 1 BY DEF RunsInit, Busy
<1>2. \A p \in Reals : ill[p] = 0 /\ due[p] = 0 /\ row[p].fails = 0 /\ row[p].until = 0
  <2>1. TAKE p \in Reals
  <2>2. p \in Providers /\ p \in Rows /\ p # Usage BY AgentRunsAssumption DEF Reals, Rows
  <2>3. ill[p] = 0 /\ due[p] = 0 /\ row[p] = Fresh(Start.config[p]) BY <2>2 DEF RunsInit
  <2>4. QED BY <2>3 DEF Fresh
<1>3. \A p \in Reals : due[p] <= clock + Cooldown BY <1>1, <1>2, AgentRunsAssumption
<1>4. \A p \in Reals : Watched(p) BY <1>1, <1>2 DEF Watched, Tells
<1>5. QED BY <1>1, <1>3, <1>4 DEF Breaker

LEMMA BreakerNext == Typed /\ Locked /\ Breaker /\ [RunsNext]_runVars => Breaker'
<1> SUFFICES ASSUME Typed, Locked, Breaker, [RunsNext]_runVars PROVE Breaker' OBVIOUS
<1>1. ASSUME NEW r \in Requests, NEW kind \in DOMAIN Plans, Request(r, kind) PROVE Breaker'
  <2>1. r \notin Busy BY <1>1, RequestDoes
  <2>2. PICK w : Turns(r, w) /\ Kept(w, clock) /\ w.phase = "run" /\ DOMAIN w.mine = {} BY <1>1, RequestDoes
  <2>3. UNCHANGED <<clock, due, ill, row, mixed, battered>> BY <1>1 DEF Request, ghosts
  <2>4. w.phase \in {"run", "probe"} /\ w.phase # "probe" /\ mixed \subseteq mixed' BY <2>2, <2>3
  <2>5. QED BY <2>1, <2>2, <2>3, <2>4, StartBreaker
<1>2. ASSUME NEW r \in Requests, NEW p \in Reals, Probe(r, p) PROVE Breaker'
  <2>1. r \notin Busy BY <1>2, ProbeDoes
  <2>2. PICK w : /\ Turns(r, w) /\ Kept(w, clock) /\ w.phase = "probe" /\ DOMAIN w.mine = {} /\ DOMAIN w.seen = {p}
    BY <1>2, ProbeDoes
  <2>3. UNCHANGED <<clock, due, ill, row, battered>> /\ mixed' = mixed \cup (IF Overlap(r, p) THEN {p} ELSE {})
    BY <1>2 DEF Probe
  <2>4. \A o \in Reals \ mixed' : o \in DOMAIN w.seen => ~Overlap(r, o) BY <2>2, <2>3
  <2>5. w.phase \in {"run", "probe"} /\ mixed \subseteq mixed' BY <2>2, <2>3
  <2>6. QED BY <2>1, <2>2, <2>3, <2>4, <2>5, StartBreaker
<1>3. ASSUME NEW r \in Requests, Invoke(r) PROVE Breaker'
  <2>1. r \in Busy BY <1>3 DEF Invoke
  <2>2. QED BY <1>3, <2>1, InvokeBreaker
<1>4. ASSUME NEW r \in Requests, Call(r) PROVE Breaker'
  <2>1. r \in Busy BY <1>4 DEF Call
  <2>2. QED BY <1>4, <2>1, CallBreaker
<1>5. ASSUME NEW r \in Requests, Verify(r) PROVE Breaker'
  <2>1. r \in Busy BY <1>5 DEF Verify
  <2>2. QED BY <1>5, <2>1, VerifyBreaker
<1>6. ASSUME NEW r \in Requests, Flush(r) PROVE Breaker'
  <2>1. r \in Busy BY <1>6 DEF Flush
  <2>2. QED BY <1>6, <2>1, FlushBreaker
<1>7. ASSUME NEW r \in Requests, CommitRun(r) PROVE Breaker'
  <2>1. r \in Busy BY <1>7 DEF CommitRun
  <2>2. QED BY <1>7, <2>1, CommitBreaker
<1>8. ASSUME NEW r \in Requests, RollBack(r) PROVE Breaker' BY <1>8, RollBackBreaker
<1>9. ASSUME NEW r \in Requests, Probed(r) PROVE Breaker'
  <2>1. r \in Busy BY <1>9 DEF Probed
  <2>2. QED BY <1>9, <2>1, ProbedBreaker
<1>10. ASSUME NEW r \in Requests, NEW p \in Reals, NEW c \in Configs, EditProvider(r, p, c) PROVE Breaker'
  BY <1>10, EditBreaker
<1>lock. ASSUME NEW r \in Requests, TakeProcess(r) \/ TakeChain(r) PROVE Breaker'
  <2>1. r \in Busy BY <1>lock DEF TakeProcess, TakeChain
  <2>2. QED BY <1>lock, <2>1, LockBreaker
<1>11. ASSUME NEW pol \in Policies, SetPolicy(pol) PROVE Breaker' BY <1>11, BreakerSame DEF SetPolicy, ghosts
<1>12. ASSUME NEW a \in DOMAIN Agents, SetAgent(a) PROVE Breaker' BY <1>12, BreakerSame DEF SetAgent, ghosts
<1>13. ASSUME NEW c \in Capabilities, NEW to \in Routes, SetRoute(c, to) PROVE Breaker'
  BY <1>13, BreakerSame DEF SetRoute, ghosts
<1>14. ASSUME Tick PROVE Breaker' BY <1>14, TickBreaker
<1>15. CASE UNCHANGED runVars BY <1>15, BreakerSame DEF runVars
<1>16. QED
  <2>1. CASE RunsNext
    BY <2>1, <1>1, <1>2, <1>3, <1>4, <1>5, <1>6, <1>7, <1>8, <1>9, <1>10, <1>11, <1>12, <1>13, <1>14, <1>lock
       DEF RunsNext, Abort, Stop
  <2>2. QED BY <2>1, <1>15

-----------------------------------------------------------------------------
(* Theorems.                                                               *)

LEMMA RunsGoverned == RunsSpec => []Governed
<1>1. RunsInit => Governed
  <2> SUFFICES ASSUME RunsInit PROVE Governed OBVIOUS
  <2>1. DataStaysWithin /\ Busy = {} BY DEF RunsInit, DataStaysWithin, Busy
  <2>2. QED BY <2>1, TypedInit, MeteredInit, BreakerInit DEF Governed
<1>2. Governed /\ [RunsNext]_runVars => Governed'
  <2> SUFFICES ASSUME Governed, [RunsNext]_runVars PROVE Governed' OBVIOUS
  <2>1. /\ Typed /\ Locked /\ DataStaysWithin /\ (\A r \in Busy : Cleared(req[r])) /\ Metered /\ Breaker
    BY DEF Governed
  <2>2. Typed' /\ Locked' BY <2>1, TypedNext
  <2>3. DataStaysWithin' /\ \A s \in Busy' : Cleared(req'[s]) BY <2>1, DataNext
  <2>4. Metered' BY <2>1, MeteredNext
  <2>5. Breaker' BY <2>1, BreakerNext
  <2>6. QED BY <2>2, <2>3, <2>4, <2>5 DEF Governed
<1>3. QED BY <1>1, <1>2, PTL DEF RunsSpec

\* The rows stay rows of their kind, no circuit stays open longer than the
\* cooldown, and an uncommitted row has one writer (RunsTypeOK).
THEOREM RunsTypeCorrect == RunsSpec => []RunsTypeOK
<1>1. Governed => RunsTypeOK
  <2> SUFFICES ASSUME Governed PROVE RunsTypeOK OBVIOUS
  <2>1. Typed /\ Locked BY DEF Governed
  <2>2. /\ policy \in Policies /\ off \subseteq DOMAIN Agents /\ DOMAIN row = Rows
        /\ \A c \in Capabilities : route[c] \in Routes
    BY <2>1 DEF Typed
  <2>3. ASSUME NEW p \in Providers
        PROVE  row[p].fails \in Nat /\ row[p].until \in 0..(clock + Cooldown) /\ row[p].used \in Nat
    <3>1. p \in Rows /\ p # Usage BY AgentRunsAssumption DEF Rows
    <3>2. row[p] \in ProviderRow /\ row[p].until <= clock + Cooldown BY <2>1, <3>1 DEF Typed, Some, Sound
    <3>3. clock + Cooldown \in Nat BY <2>1, AgentRunsAssumption DEF Typed
    <3>4. QED BY <3>2, <3>3 DEF ProviderRow
  <2>4. ASSUME NEW r \in Busy
        PROVE  /\ req[r] \in InFlight /\ req[r].at <= Len(req[r].plan) + 1
               /\ DOMAIN req[r].new \subseteq DOMAIN req[r].seen
    <3>1. Kept(req[r], clock) BY <2>1 DEF Typed
    <3>2. req[r].at \in 0..(Len(req[r].plan) + 1) /\ Len(req[r].plan) \in Nat BY <3>1, LenProperties DEF Kept
    <3>3. req[r] \in InFlight BY <3>1, IsInFlight
    <3>4. DOMAIN req[r].new \subseteq DOMAIN req[r].seen BY <3>1 DEF Kept
    <3>5. req[r].at <= Len(req[r].plan) + 1 BY <3>2
    <3>6. QED BY <3>3, <3>4, <3>5
  <2>5. QED BY <2>1, <2>2, <2>3, <2>4 DEF RunsTypeOK, Locked
<1>2. QED BY <1>1, RunsGoverned, PTL

\* What leaves for a provider is within the rules in force, but for changes
\* after the choice of models and for the verifier's class (gateway.invoke).
THEOREM DataIsKept == RunsSpec => []DataStaysWithin
<1>1. Governed => DataStaysWithin BY DEF Governed
<1>2. QED BY <1>1, RunsGoverned, PTL

\* The counter of the month holds the tokens of the answers that committed
\* runs used, and never more (metering.add_usage).
THEOREM TokensCounted == RunsSpec => []TokensMetered
<1>1. Governed => TokensMetered BY DEF Governed, Metered
<1>2. QED BY <1>1, RunsGoverned, PTL

\* A provider that failed Threshold times in a row is left alone until its
\* cooldown is over (gateway._record_usage, _circuit_open).
THEOREM CircuitsHold == RunsSpec => []BreakerHolds
<1>1. Governed => BreakerHolds BY DEF Governed, Breaker, BreakerHolds
<1>2. QED BY <1>1, RunsGoverned, PTL
=============================================================================
