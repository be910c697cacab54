--------------------------- MODULE MC_Operations ---------------------------
(* An instance of Operations for TLC.                                      *)
EXTENDS Operations, TLC

\* Minutes to acknowledge and resolve.
TheSla == [medium |-> [ack |-> 2, resolve |-> 2], high |-> [ack |-> 1, resolve |-> 2]]

TheEvents == {[about |-> {"host"}, rule |-> "high"], [about |-> {"host"}, rule |-> "medium"]}
=============================================================================
