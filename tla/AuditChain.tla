----------------------------- MODULE AuditChain -----------------------------
(***************************************************************************)
(* services/audit.py: the keyed hash chain every state change is written   *)
(* to.  Request handlers run on the thread pool of one API process or      *)
(* replica; each opens one database transaction, calls record() some       *)
(* number of times and commits, or is rolled back when it raises.          *)
(*                                                                         *)
(* record() holds two locks with different lifetimes: the process-wide     *)
(* _APPEND_LOCK, released when record() returns, and on PostgreSQL the     *)
(* advisory transaction lock, released only when the transaction ends.     *)
(* A row is private to its transaction until the commit.  On SQLite there  *)
(* is no advisory lock; the file has a single writer, and an INSERT that   *)
(* waits for it gives up after the driver's timeout.                       *)
(***************************************************************************)
EXTENDS Naturals, FiniteSets

CONSTANTS
    Txs,          \* request handlers, each with a transaction of its own
    Procs,        \* API processes
    HomeOf,       \* HomeOf[t]: the process that runs t
    Budget,       \* Budget[t]: the number of records t makes at most
    Dialects,     \* databases the deployment may use
    Batch,        \* page size of verify_audit_chain
    None          \* neither a transaction nor a hash

ASSUME AuditAssumption ==
    /\ HomeOf \in [Txs -> Procs]
    /\ Budget \in [Txs -> Nat \ {0}]
    /\ Dialects \subseteq {"postgresql", "sqlite"}
    /\ Batch \in Nat \ {0}
    /\ None \notin Txs

VARIABLES
    dialect,      \* the database in use
    table,        \* committed audit_events: a function from seq to row
    pending,      \* pending[t]: rows t has flushed and not committed
    appendLock,   \* appendLock[p]: holder of p's _APPEND_LOCK, or None
    xactLock,     \* holder of the PostgreSQL advisory lock, or None
    writer,       \* SQLite: the transaction that holds the write lock
    pc,           \* pc[t]: where t stands
    last,         \* last[t]: the newest row t read inside record()
    walk          \* the running verify_audit_chain

locks == <<appendLock, xactLock, writer>>
vars  == <<dialect, table, pending, locks, pc, last, walk>>

-----------------------------------------------------------------------------
(* Rows.  A hash is a term over what it signs: equal hashes sign equal     *)
(* contents, and no other value is a hash of anything.                     *)

Sign(seq, body, prev) == <<seq, body, prev>>

NoRow == [seq |-> 0, body |-> <<None, 0>>, prev |-> None, hash |-> None]

Row(seq, body, prev) ==
    [seq |-> seq, body |-> body, prev |-> prev, hash |-> Sign(seq, body, prev)]

Empty == [s \in {} |-> NoRow]

\* All rows of f and of g.
Together(f, g) ==
    [s \in DOMAIN f \cup DOMAIN g |-> IF s \in DOMAIN g THEN g[s] ELSE f[s]]

Newest(f) ==
    IF DOMAIN f = {} THEN NoRow
    ELSE f[CHOOSE s \in DOMAIN f : \A r \in DOMAIN f : r <= s]

\* What t's own queries return: the committed rows and its own.
Visible(t) == Together(table, pending[t])

\* In SQLite mode a single process serves every request.
Home(t) == IF dialect = "sqlite" THEN CHOOSE p \in Procs : TRUE ELSE HomeOf[t]

-----------------------------------------------------------------------------
(* The walk of verify_audit_chain: where it is, and whether it has found   *)
(* a break.                                                                *)

WalkStart == [lastSeq |-> 0, prev |-> None, expected |-> 1, broken |-> FALSE]

\* The sequence numbers of the next page, at most n rows above w.lastSeq.
Page(f, w, n) ==
    {s \in DOMAIN f :
        /\ s > w.lastSeq
        /\ Cardinality({r \in DOMAIN f : w.lastSeq < r /\ r <= s}) <= n}

Rank(pg, s) == Cardinality({r \in pg : r <= s})

HashBefore(f, w, pg, s) ==
    LET below == {r \in pg : r < s}
    IN  IF below = {} THEN w.prev
        ELSE f[CHOOSE r \in below : \A q \in below : q <= r].hash

\* Mutant of BreakAt: only the links and the numbering are compared.
BreakAtUnsigned(f, w, pg, s) ==
    \/ f[s].seq # w.expected + Rank(pg, s) - 1
    \/ f[s].prev # HashBefore(f, w, pg, s)

\* A gap, a wrong link, or a content its signature does not match.
BreakAt(f, w, pg, s) ==
    \/ f[s].seq # w.expected + Rank(pg, s) - 1
    \/ f[s].prev # HashBefore(f, w, pg, s)
    \/ f[s].hash # Sign(f[s].seq, f[s].body, f[s].prev)

\* Mutant of Walk: a new page starts without the last hash of the one before.
WalkForgetting(f, w, n) ==
    LET pg  == Page(f, w, n)
        top == CHOOSE s \in pg : \A r \in pg : r <= s
    IN  IF \E s \in pg : BreakAt(f, w, pg, s)
        THEN [w EXCEPT !.broken = TRUE]
        ELSE [w EXCEPT !.lastSeq  = top,
                       !.expected = w.expected + Cardinality(pg)]

\* One page further, when there is one.
Walk(f, w, n) ==
    LET pg  == Page(f, w, n)
        top == CHOOSE s \in pg : \A r \in pg : r <= s
    IN  IF \E s \in pg : BreakAt(f, w, pg, s)
        THEN [w EXCEPT !.broken = TRUE]
        ELSE [w EXCEPT !.lastSeq  = top,
                       !.prev     = f[top].hash,
                       !.expected = w.expected + Cardinality(pg)]

\* The report for a table that nobody writes to meanwhile.
Verified(f) ==
    LET pg == DOMAIN f
    IN  ~ \E s \in pg : BreakAt(f, WalkStart, pg, s)

-----------------------------------------------------------------------------
Init ==
    /\ dialect \in Dialects
    /\ table = Empty
    /\ pending = [t \in Txs |-> Empty]
    /\ appendLock = [p \in Procs |-> None]
    /\ xactLock = None
    /\ writer = None
    /\ pc = [t \in Txs |-> "open"]
    /\ last = [t \in Txs |-> NoRow]
    /\ walk = WalkStart

\* The handler flushes a change of its own first: on SQLite that takes the
\* write lock for the rest of the transaction.
FlushOther(t) ==
    /\ pc[t] = "open" /\ dialect = "sqlite" /\ writer = None
    /\ writer' = t
    /\ UNCHANGED <<dialect, table, pending, appendLock, xactLock, pc, last, walk>>

\* The handler calls record(): from here it cannot give up by itself.
CallRecord(t) ==
    /\ pc[t] = "open"
    /\ Cardinality(DOMAIN pending[t]) < Budget[t]
    /\ pc' = [pc EXCEPT ![t] = "waiting"]
    /\ UNCHANGED <<dialect, table, pending, locks, last, walk>>

\* with _APPEND_LOCK
EnterRecord(t) ==
    /\ pc[t] = "waiting"
    /\ appendLock[Home(t)] = None
    /\ appendLock' = [appendLock EXCEPT ![Home(t)] = t]
    /\ pc' = [pc EXCEPT ![t] = IF dialect = "postgresql" THEN "locking" ELSE "reading"]
    /\ UNCHANGED <<dialect, table, pending, xactLock, writer, last, walk>>

\* Mutant of TakeXactLock: the call does not wait.
TakeXactLockNoWait(t) ==
    /\ pc[t] = "locking"
    /\ xactLock' = t
    /\ pc' = [pc EXCEPT ![t] = "reading"]
    /\ UNCHANGED <<dialect, table, pending, appendLock, writer, last, walk>>

\* SELECT pg_advisory_xact_lock, re-entrant for the transaction that has it.
TakeXactLock(t) ==
    /\ pc[t] = "locking"
    /\ xactLock \in {None, t}
    /\ xactLock' = t
    /\ pc' = [pc EXCEPT ![t] = "reading"]
    /\ UNCHANGED <<dialect, table, pending, appendLock, writer, last, walk>>

\* The newest row by seq, as this transaction sees the table.
ReadLast(t) ==
    /\ pc[t] = "reading"
    /\ last' = [last EXCEPT ![t] = Newest(Visible(t))]
    /\ pc' = [pc EXCEPT ![t] = "inserting"]
    /\ UNCHANGED <<dialect, table, pending, locks, walk>>

\* Mutant of NextRow: the link skips the row just read.
NextRowUnlinked(t) ==
    Row(last[t].seq + 1, <<t, Cardinality(DOMAIN pending[t]) + 1>>, last[t].prev)

NextRow(t) ==
    Row(last[t].seq + 1, <<t, Cardinality(DOMAIN pending[t]) + 1>>, last[t].hash)

Taken(t) == NextRow(t).seq \in DOMAIN Visible(t)

\* The unique index makes an INSERT wait for another transaction's
\* uncommitted row; SQLite makes it wait for any other writer.
MayInsert(t) ==
    /\ \A u \in Txs \ {t} : NextRow(t).seq \notin DOMAIN pending[u]
    /\ dialect = "sqlite" => writer \in {None, t}

\* db.flush(), then the process lock is released.
Insert(t) ==
    /\ pc[t] = "inserting" /\ MayInsert(t) /\ ~Taken(t)
    /\ pending' = [pending EXCEPT ![t] =
                      Together(@, [s \in {NextRow(t).seq} |-> NextRow(t)])]
    /\ writer' = IF dialect = "sqlite" THEN t ELSE writer
    /\ appendLock' = [appendLock EXCEPT ![Home(t)] = None]
    /\ pc' = [pc EXCEPT ![t] = "open"]
    /\ UNCHANGED <<dialect, table, xactLock, last, walk>>

\* The flush raises: the number is taken (IntegrityError), or SQLite's busy
\* timeout ends the wait for the writer ("database is locked").
InsertFails(t) ==
    /\ pc[t] = "inserting"
    /\ \/ MayInsert(t) /\ Taken(t)
       \/ dialect = "sqlite" /\ ~MayInsert(t)
    /\ appendLock' = [appendLock EXCEPT ![Home(t)] = None]
    /\ pc' = [pc EXCEPT ![t] = "failed"]
    /\ UNCHANGED <<dialect, table, pending, xactLock, writer, last, walk>>

\* The end of t's transaction gives back what the database held for it.
Release(t) ==
    /\ xactLock' = IF xactLock = t THEN None ELSE xactLock
    /\ writer' = IF writer = t THEN None ELSE writer

\* Mutant of Commit: each record is committed by itself and the handler goes on.
CommitAndGoOn(t) ==
    /\ pc[t] = "open" /\ DOMAIN pending[t] # {}
    /\ table' = Visible(t)
    /\ pending' = [pending EXCEPT ![t] = Empty]
    /\ Release(t)
    /\ UNCHANGED <<dialect, appendLock, pc, last, walk>>

Commit(t) ==
    /\ pc[t] = "open" /\ DOMAIN pending[t] # {}
    /\ table' = Visible(t)
    /\ pending' = [pending EXCEPT ![t] = Empty]
    /\ pc' = [pc EXCEPT ![t] = "done"]
    /\ Release(t)
    /\ UNCHANGED <<dialect, appendLock, last, walk>>

\* Mutant of Rollback: the lock outlives a transaction that is rolled back.
RollbackKeepingLock(t) ==
    /\ pc[t] \in {"open", "failed"}
    /\ pending' = [pending EXCEPT ![t] = Empty]
    /\ pc' = [pc EXCEPT ![t] = "done"]
    /\ UNCHANGED <<dialect, table, locks, last, walk>>

\* The handler raises (an HTTPException, or the failed flush): closing the
\* session rolls the transaction back.
Rollback(t) ==
    /\ pc[t] \in {"open", "failed"}
    /\ pending' = [pending EXCEPT ![t] = Empty]
    /\ pc' = [pc EXCEPT ![t] = "done"]
    /\ Release(t)
    /\ UNCHANGED <<dialect, table, appendLock, last, walk>>

\* The process dies with every request it was serving; the database ends
\* their transactions when the connections drop.
Crash(p) ==
    LET lost == {t \in Txs : Home(t) = p /\ pc[t] # "done"}
    IN  /\ lost # {}
        /\ pending' = [t \in Txs |-> IF t \in lost THEN Empty ELSE pending[t]]
        /\ pc' = [t \in Txs |-> IF t \in lost THEN "done" ELSE pc[t]]
        /\ appendLock' = [appendLock EXCEPT ![p] = None]
        /\ xactLock' = IF xactLock \in lost THEN None ELSE xactLock
        /\ writer' = IF writer \in lost THEN None ELSE writer
        /\ UNCHANGED <<dialect, table, last, walk>>

\* GET /audit/verify reads the table page by page, each page a new snapshot.
VerifyPage ==
    /\ ~walk.broken /\ Page(table, walk, Batch) # {}
    /\ walk' = Walk(table, walk, Batch)
    /\ UNCHANGED <<dialect, table, pending, locks, pc, last>>

\* Nothing above the last row: the report is returned, the next call starts.
VerifyEnd ==
    /\ walk.broken \/ Page(table, walk, Batch) = {}
    /\ walk' = WalkStart
    /\ UNCHANGED <<dialect, table, pending, locks, pc, last>>

RequestStep(t) ==
    \/ FlushOther(t) \/ CallRecord(t)
    \/ EnterRecord(t) \/ TakeXactLock(t) \/ ReadLast(t)
    \/ Insert(t) \/ InsertFails(t)
    \/ Commit(t) \/ Rollback(t)

Next ==
    \/ \E t \in Txs : RequestStep(t)
    \/ \E p \in Procs : Crash(p)
    \/ VerifyPage \/ VerifyEnd

Spec == Init /\ [][Next]_vars

\* Threads are scheduled and handlers run to their end; a lock is not handed
\* over in any particular order, which is no matter for finitely many requests.
FairSpec == Spec /\ \A t \in Txs : WF_vars(RequestStep(t))

-----------------------------------------------------------------------------
PcValues == {"open", "waiting", "locking", "reading", "inserting", "failed", "done"}

IsRow(r) ==
    /\ DOMAIN r = {"seq", "body", "prev", "hash"}
    /\ r.seq \in Nat /\ r.body \in (Txs \cup {None}) \X Nat

\* Type invariant: tables are functions from sequence numbers to rows, and
\* each lock is free or held by a request of this system.
TypeOK ==
    /\ dialect \in {"postgresql", "sqlite"}
    /\ DOMAIN table \subseteq Nat \ {0}
    /\ \A s \in DOMAIN table : IsRow(table[s]) /\ table[s].seq = s
    /\ DOMAIN pending = Txs /\ DOMAIN last = Txs
    /\ \A t \in Txs :
          /\ DOMAIN pending[t] \subseteq Nat \ {0}
          /\ \A s \in DOMAIN pending[t] : IsRow(pending[t][s]) /\ pending[t][s].seq = s
          /\ IsRow(last[t])
    /\ appendLock \in [Procs -> Txs \cup {None}]
    /\ xactLock \in Txs \cup {None}
    /\ writer \in Txs \cup {None}
    /\ pc \in [Txs -> PcValues]

\* The rows of f are numbered from 1 without a gap, each linked to the one
\* before it and signed.
Chained(f) ==
    \A s \in DOMAIN f :
        /\ s > 1 => s - 1 \in DOMAIN f
        /\ f[s].prev = IF s = 1 THEN None ELSE f[s - 1].hash
        /\ f[s].hash = Sign(s, f[s].body, f[s].prev)

\* No interleaving of requests, rollbacks and crashes forks the committed
\* chain, leaves a gap in it or breaks a link (audit.py 74-90).
ChainIntact == Chained(table)

\* The two locks make appends on PostgreSQL wait for each other: a record
\* is never refused because another request took its sequence number.
AppendsSerialised == dialect = "postgresql" => \A t \in Txs : pc[t] # "failed"

\* verify_audit_chain reads page by page while requests commit, and still
\* never reports a break in a chain that nobody tampered with.
NoFalseAlarm == ~walk.broken

\* f without its row s, with the rows above it renumbered to close the gap.
Closed(f, s) ==
    [r \in DOMAIN f \ {Cardinality(DOMAIN f)} |->
        IF r < s THEN f[r] ELSE [f[r + 1] EXCEPT !.seq = r]]

\* The tables one edit away from f by someone who cannot sign: a content or
\* a hash replaced by another row's, two rows exchanged, an inner row
\* deleted, or deleted with the gap closed.
Altered(f) ==
    LET rowsOf == DOMAIN f
        inner == rowsOf \ {Cardinality(rowsOf)}
        pairs == {p \in rowsOf \X rowsOf : p[1] # p[2]}
    IN  {[f EXCEPT ![p[1]].body = f[p[2]].body] : p \in pairs}
        \cup {[f EXCEPT ![p[1]].hash = f[p[2]].hash] : p \in pairs}
        \cup {[f EXCEPT ![p[1]].body = f[p[2]].body, ![p[2]].body = f[p[1]].body] : p \in pairs}
        \cup {[r \in rowsOf \ {s} |-> f[r]] : s \in inner}
        \cup {Closed(f, s) : s \in inner}

\* verify_audit_chain reports every such edit of any chain the system can
\* have written (audit.py 113-121).  Deleting the newest rows is not among
\* them: nothing outside the table says how long the chain was.
AlterationDetected == \A g \in Altered(table) : ~Verified(g)

\* Readers see the log of AuditLog: whole transactions, in one order.
LogView == [s \in DOMAIN table |-> table[s].body]
Abstract == INSTANCE AuditLog WITH log <- LogView
WholeTransactions == Abstract!Spec

\* A request that started ends: a record() waiting for its turn gets it.
RequestsEnd == \A t \in Txs : <>(pc[t] = "done")
=============================================================================
