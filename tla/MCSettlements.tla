--------------------------- MODULE MCSettlements ---------------------------
(* Small instances of Settlements: two markets of two events. *)
EXTENDS Settlements

MCTicker == {"m1", "m2"}
MCEvent == {"e1", "e2"}
MCEventOf == [t \in MCTicker |-> IF t = "m1" THEN "e1" ELSE "e2"]

MCPrice == {30}
MCTwoPrices == {30, 60}
=============================================================================
