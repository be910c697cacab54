--------------------------- MODULE MC_LiveEvents ---------------------------
(* An instance of LiveEvents for TLC.                                      *)
EXTENDS LiveEvents, TLC

TheHome == [a |-> "p", b |-> "q"]
=============================================================================
