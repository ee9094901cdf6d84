----------------------------- MODULE RiskLimits -----------------------------
(***************************************************************************)
(* The pre-trade gates of risk/limits.py and the sizing rule of            *)
(* execution/sizing.py, as operators on a portfolio.  A portfolio is the   *)
(* PortfolioState dataclass: contracts held per market, per event and in   *)
(* total, and the day's realized P&L in cents.  A contract pays at most    *)
(* one dollar, so contracts and dollars of notional are the same unit.     *)
(***************************************************************************)
EXTENDS Sums

CONSTANTS
  Ticker,          \* markets the bot may trade
  Event,           \* the events (city and day) those markets belong to
  EventOf,         \* the event of each market
  FlatSize,        \* trading.flat_size
  MaxPerMarket,    \* risk.max_contracts_per_market
  MaxPerEvent,     \* risk.max_notional_per_event
  MaxTotal,        \* risk.max_total_notional
  MaxDailyLossUsd  \* risk.max_daily_loss_usd

\* The market payload's event_ticker and event_from_ticker (broker.py:50) name
\* the same event: a weather ticker is <event>-<suffix>.
ASSUME MarketsAssumption == EventOf \in [Ticker -> Event]

\* Pydantic only checks that these are integers; a flat size may be anything.
ASSUME CapsAssumption ==
  /\ FlatSize \in Int
  /\ MaxPerMarket \in Nat
  /\ MaxPerEvent \in Nat
  /\ MaxTotal \in Nat
  /\ MaxDailyLossUsd \in Nat

Portfolio ==
  [perTicker: [Ticker -> Int], perEvent: [Event -> Int], total: Int, dailyPnl: Int]

NoPositions ==
  [perTicker |-> [t \in Ticker |-> 0], perEvent |-> [e \in Event |-> 0],
   total |-> 0, dailyPnl |-> 0]

\* The contracts of a set of fills: the sum of their counts.
Contracts(rows) == SumOf([r \in rows |-> r.count], rows)

Lesser(a, b) == IF a <= b THEN a ELSE b

\* execution/sizing.py: the configured size, never above the market cap.
Requested == IF MaxPerMarket <= 0 THEN 0 ELSE Lesser(FlatSize, MaxPerMarket)

RefuseReason ==
  {"non_positive_size", "daily_loss_breached", "position_filled",
   "per_market_cap_reached", "per_event_cap_reached", "total_notional_reached"}

Refuse(why) == [size |-> 0, reason |-> why]

RoomMarket(s, t) == MaxPerMarket - s.perTicker[t]
RoomEvent(s, t) == MaxPerEvent - s.perEvent[EventOf[t]]
RoomTotal(s) == MaxTotal - s.total

Grant(requested, room) ==
  [size |-> Lesser(requested, room),
   reason |-> IF room >= requested THEN "approved" ELSE "clamped"]

\* Mutant: the event gate is forgotten.
ApproveWithoutEventCap(t, requested, s) ==
  IF s.perTicker[t] >= requested THEN Refuse("position_filled")
  ELSE IF RoomTotal(s) <= 0 THEN Refuse("total_notional_reached")
  ELSE Grant(requested, Lesser(RoomMarket(s, t), RoomTotal(s)))

\* Mutant: a filled position is topped up.
ApproveTopUp(t, requested, s) ==
  IF RoomMarket(s, t) <= 0 THEN Refuse("per_market_cap_reached")
  ELSE IF RoomEvent(s, t) <= 0 THEN Refuse("per_event_cap_reached")
  ELSE IF RoomTotal(s) <= 0 THEN Refuse("total_notional_reached")
  ELSE Grant(requested, Lesser(RoomMarket(s, t), Lesser(RoomEvent(s, t), RoomTotal(s))))

\* Mutant: the request is granted whole when any room is left.
ApproveUnclamped(t, requested, s) ==
  IF s.perTicker[t] >= requested THEN Refuse("position_filled")
  ELSE IF RoomEvent(s, t) <= 0 THEN Refuse("per_event_cap_reached")
  ELSE IF RoomTotal(s) <= 0 THEN Refuse("total_notional_reached")
  ELSE Grant(requested, requested)

\* Mutant: no gate refuses when the room is used up, so a clamp grants nothing.
ApproveUngated(t, requested, s) ==
  IF s.perTicker[t] >= requested THEN Refuse("position_filled")
  ELSE Grant(requested, Lesser(RoomMarket(s, t), Lesser(RoomEvent(s, t), RoomTotal(s))))

\* approve_order: the first gate that closes gives the reason; otherwise the
\* request is clamped to the least room that is left.
ApproveOrder(t, requested, s) ==
  IF requested <= 0 THEN Refuse("non_positive_size")
  ELSE IF -s.dailyPnl >= MaxDailyLossUsd * 100 THEN Refuse("daily_loss_breached")
  ELSE IF s.perTicker[t] >= requested THEN Refuse("position_filled")
  ELSE IF RoomMarket(s, t) <= 0 THEN Refuse("per_market_cap_reached")
  ELSE IF RoomEvent(s, t) <= 0 THEN Refuse("per_event_cap_reached")
  ELSE IF RoomTotal(s) <= 0 THEN Refuse("total_notional_reached")
  ELSE Grant(requested, Lesser(RoomMarket(s, t), Lesser(RoomEvent(s, t), RoomTotal(s))))

\* Portfolio s with n more contracts in market t.
With(s, t, n) ==
  [perTicker |-> [s.perTicker EXCEPT ![t] = @ + n],
   perEvent |-> [s.perEvent EXCEPT ![EventOf[t]] = @ + n],
   total |-> s.total + n,
   dailyPnl |-> s.dailyPnl]

\* Mutant: the event's sum is not bumped.
ApplyFillForgetsEvent(s, t, n) == [With(s, t, n) EXCEPT !.perEvent = s.perEvent]

\* apply_fill: the tick's portfolio takes a new long position.
ApplyFill(s, t, n) == With(s, t, n)

\* The three caps, as a predicate on a portfolio.
WithinCaps(s) ==
  /\ \A t \in Ticker : s.perTicker[t] <= MaxPerMarket
  /\ \A e \in Event : s.perEvent[e] <= MaxPerEvent
  /\ s.total <= MaxTotal
=============================================================================
