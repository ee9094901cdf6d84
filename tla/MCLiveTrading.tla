--------------------------- MODULE MCLiveTrading ---------------------------
(* Small instances of LiveTrading: two markets of one event or of two. *)
EXTENDS LiveTrading

MCTicker == {"m1", "m2"}
MCEvent == {"e1"}
MCEventOf == [t \in MCTicker |-> "e1"]

MCTwoTicker == MCTicker
MCTwoEvent == {"e1", "e2"}
MCTwoEventOf == [t \in MCTicker |-> IF t = "m1" THEN "e1" ELSE "e2"]
=============================================================================
