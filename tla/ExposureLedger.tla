--------------------------- MODULE ExposureLedger ---------------------------
(***************************************************************************)
(* What the trading bot promises about its exposure, without ticks, tables *)
(* or failures: a market is entered at most once, by at most the requested *)
(* size, only inside the three caps, and an entry is never taken back.     *)
(***************************************************************************)
EXTENDS RiskLimits

VARIABLE exposure   \* the portfolio held

LedgerInit == exposure = NoPositions

\* One entry into market t.
Enter(t, n) ==
  /\ exposure.perTicker[t] = 0
  /\ n <= Requested
  /\ exposure' = With(exposure, t, n)
  /\ WithinCaps(exposure')

LedgerNext == \E t \in Ticker, n \in 1..Requested : Enter(t, n)

LedgerSpec == LedgerInit /\ [][LedgerNext]_exposure
=============================================================================
