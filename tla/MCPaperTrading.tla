--------------------------- MODULE MCPaperTrading ---------------------------
(* Small instances of PaperTrading: three markets, two of them in one event. *)
EXTENDS PaperTrading

MCTicker == {"m1", "m2", "m3"}
MCEvent == {"e1", "e2"}
MCEventOf == [t \in MCTicker |-> IF t = "m3" THEN "e2" ELSE "e1"]

\* Two markets of two events, for the runs with two traders.
MCTwoTicker == {"m1", "m2"}
MCTwoEventOf == [t \in MCTwoTicker |-> IF t = "m2" THEN "e2" ELSE "e1"]
=============================================================================
