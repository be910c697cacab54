---------------------------- MODULE MC_Accounts -----------------------------
(* Instances of Accounts for TLC.                                          *)
EXTENDS Accounts, TLC

CONSTANTS r1, r2

\* The slots are interchangeable.
Slots == Permutations({r1, r2})
=============================================================================
