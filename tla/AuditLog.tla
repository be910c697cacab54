------------------------------ MODULE AuditLog ------------------------------
(***************************************************************************)
(* What the audit trail promises its readers: one growing log in which     *)
(* each finished transaction appears either completely, its records side   *)
(* by side in the order it made them, or not at all.                       *)
(* services/audit.py, with its locks and hashes, must implement this.      *)
(***************************************************************************)
EXTENDS Naturals, Sequences

CONSTANTS Txs,       \* the transactions that may write audit records
          Budget     \* Budget[t]: how many records t makes at most

VARIABLE log         \* what a reader of the table sees, in order

\* The k-th record of transaction t.
Entry(t, k) == <<t, k>>

Init == log = << >>

\* t finishes having made n records.
Finish(t, n) ==
    /\ \A i \in DOMAIN log : log[i][1] # t
    /\ log' = log \o [k \in 1..n |-> Entry(t, k)]

Next == \E t \in Txs : \E n \in 1..Budget[t] : Finish(t, n)

Spec == Init /\ [][Next]_log
=============================================================================
