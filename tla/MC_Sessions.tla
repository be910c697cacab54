---------------------------- MODULE MC_Sessions -----------------------------
(***************************************************************************)
(* The instance of Sessions for TLC.  Sessions and request slots are       *)
(* interchangeable, which Symmetric tells TLC.                             *)
(***************************************************************************)
EXTENDS Sessions, TLC

CONSTANTS s1, s2, r1, r2

Symmetric == Permutations({s1, s2}) \cup Permutations({r1, r2})
=============================================================================
