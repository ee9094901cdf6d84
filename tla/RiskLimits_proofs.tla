-------------------------- MODULE RiskLimits_proofs --------------------------
(***************************************************************************)
(* Lemmas that the proofs of both trading modules rest on: the contracts   *)
(* of a set of fills, and what the gates of RiskLimits grant.              *)
(***************************************************************************)
EXTENDS RiskLimits, Sums_proofs

\* The contracts of a set of fills.
LEMMA ContractsType ==
  ASSUME NEW rows, IsFiniteSet(rows), \A r \in rows : r.count \in Nat
  PROVE  Contracts(rows) \in Nat
<1>1. NatOn([r \in rows |-> r.count], rows)
  BY DEF NatOn
<1>2. QED
  BY <1>1, SumType DEF Contracts

LEMMA ContractsEmpty == Contracts({}) = 0
  BY SumEmpty DEF Contracts

LEMMA ContractsAdd ==
  ASSUME NEW rows, IsFiniteSet(rows), \A r \in rows : r.count \in Nat,
         NEW s, s.count \in Nat, s \notin rows
  PROVE  Contracts(rows \cup {s}) = Contracts(rows) + s.count
<1> DEFINE f == [r \in rows |-> r.count]
           g == [r \in rows \cup {s} |-> r.count]
<1>1. NatOn(g, rows) /\ g[s] = s.count
  BY DEF NatOn
<1>2. SumOf(g, rows \cup {s}) = SumOf(g, rows) + g[s]
  BY <1>1, SumAdd
<1>3. SumOf(f, rows) = SumOf(g, rows)
  BY SumSame
<1>4. QED
  BY <1>1, <1>2, <1>3 DEF Contracts

-----------------------------------------------------------------------------
\* approve_order on any portfolio: it grants nothing negative, and what it
\* grants fits the request and every room, to an unfilled market; it grants
\* less than the request only when the event or the total has no room left
\* beyond it, or the market has not.
LEMMA ApproveSound ==
  ASSUME NEW s \in Portfolio, NEW t \in Ticker, NEW q \in Int
  PROVE  LET d == ApproveOrder(t, q, s)
         IN /\ d.size \in Nat
            /\ d.size = 0 => d.reason \in RefuseReason
            /\ d.size # 0 =>
                 /\ s.perTicker[t] < q
                 /\ d.size <= q
                 /\ d.size <= RoomMarket(s, t)
                 /\ d.size <= RoomEvent(s, t)
                 /\ d.size <= RoomTotal(s)
                 /\ \/ d.size = q
                    \/ d.size = RoomMarket(s, t)
                    \/ d.size = RoomEvent(s, t)
                    \/ d.size = RoomTotal(s)
<1>1. /\ RoomMarket(s, t) \in Int
      /\ RoomEvent(s, t) \in Int
      /\ RoomTotal(s) \in Int
      /\ s.perTicker[t] \in Int
      /\ s.dailyPnl \in Int
  BY MarketsAssumption, CapsAssumption DEF Portfolio, RoomMarket, RoomEvent, RoomTotal
<1> DEFINE m == RoomMarket(s, t)
           e == RoomEvent(s, t)
           total == RoomTotal(s)
           held == s.perTicker[t]
           pnl == s.dailyPnl
<1>2. ApproveOrder(t, q, s) =
        IF q <= 0 THEN Refuse("non_positive_size")
        ELSE IF -pnl >= MaxDailyLossUsd * 100 THEN Refuse("daily_loss_breached")
        ELSE IF held >= q THEN Refuse("position_filled")
        ELSE IF m <= 0 THEN Refuse("per_market_cap_reached")
        ELSE IF e <= 0 THEN Refuse("per_event_cap_reached")
        ELSE IF total <= 0 THEN Refuse("total_notional_reached")
        ELSE Grant(q, Lesser(m, Lesser(e, total)))
  BY DEF ApproveOrder
<1> HIDE DEF m, e, total, held, pnl
<1>3. m \in Int /\ e \in Int /\ total \in Int /\ held \in Int /\ pnl \in Int
  BY <1>1 DEF m, e, total, held, pnl
<1>4. /\ ApproveOrder(t, q, s).size \in Nat
      /\ ApproveOrder(t, q, s).size = 0 => ApproveOrder(t, q, s).reason \in RefuseReason
  BY <1>2, <1>3, CapsAssumption DEF Grant, Refuse, RefuseReason, Lesser
<1> DEFINE room == Lesser(m, Lesser(e, total))
<1>5. /\ room \in Int /\ room <= m /\ room <= e /\ room <= total
      /\ room \in {m, e, total}
  BY <1>3 DEF Lesser
<1>6. ApproveOrder(t, q, s).size # 0 =>
        held < q /\ ApproveOrder(t, q, s).size = Lesser(q, room)
  <2> HIDE DEF room
  <2>1. ASSUME held >= q PROVE ApproveOrder(t, q, s).size = 0
    BY <1>2, <2>1 DEF Refuse
  <2>2. ApproveOrder(t, q, s).size \in {0, Lesser(q, room)}
    BY <1>2 DEF Refuse, Grant, room
  <2>3. QED
    BY <1>3, <2>1, <2>2
<1>7. ApproveOrder(t, q, s).size # 0 =>
        LET n == ApproveOrder(t, q, s).size
        IN /\ held < q /\ n <= q /\ n <= m /\ n <= e /\ n <= total
           /\ n = q \/ n = m \/ n = e \/ n = total
  <2> HIDE DEF room
  <2>1. QED
    BY <1>3, <1>5, <1>6 DEF Lesser
<1>8. QED
  BY <1>4, <1>7 DEF m, e, total, held, pnl

\* A fill adds to one market, its event and the total, and to nothing else.
LEMMA WithEffect ==
  ASSUME NEW s \in Portfolio, NEW t \in Ticker, NEW n \in Int
  PROVE  /\ With(s, t, n) \in Portfolio
         /\ \A u \in Ticker : With(s, t, n).perTicker[u] =
              IF u = t THEN s.perTicker[u] + n ELSE s.perTicker[u]
         /\ \A e \in Event : With(s, t, n).perEvent[e] =
              IF e = EventOf[t] THEN s.perEvent[e] + n ELSE s.perEvent[e]
         /\ With(s, t, n).total = s.total + n
         /\ With(s, t, n).dailyPnl = s.dailyPnl
<1>1. /\ s.perTicker \in [Ticker -> Int] /\ s.perEvent \in [Event -> Int]
      /\ s.total \in Int /\ s.dailyPnl \in Int
      /\ EventOf[t] \in Event
  BY MarketsAssumption DEF Portfolio
<1>2. /\ With(s, t, n).perTicker = [s.perTicker EXCEPT ![t] = @ + n]
      /\ With(s, t, n).perEvent = [s.perEvent EXCEPT ![EventOf[t]] = @ + n]
      /\ With(s, t, n).total = s.total + n
      /\ With(s, t, n).dailyPnl = s.dailyPnl
  BY DEF With
<1>3. With(s, t, n) \in Portfolio
  BY <1>1 DEF With, Portfolio
<1>4. QED
  BY <1>1, <1>2, <1>3

LEMMA RequestedInt == Requested \in Int
  BY CapsAssumption DEF Requested, Lesser

LEMMA NoPositionsType == NoPositions \in Portfolio
  BY DEF NoPositions, Portfolio
-----------------------------------------------------------------------------
\* The caps one by one, so that what holds of each is said once: a gate is a
\* market, an event or the total, with its cap and what a portfolio has of it.
TotalGate == <<"total", "all">>
Gate == ({"market"} \X Ticker) \cup ({"event"} \X Event) \cup {TotalGate}

Cap(g) ==
  IF g[1] = "market" THEN MaxPerMarket ELSE IF g[1] = "event" THEN MaxPerEvent ELSE MaxTotal

Held(s, g) ==
  IF g[1] = "market" THEN s.perTicker[g[2]]
  ELSE IF g[1] = "event" THEN s.perEvent[g[2]] ELSE s.total

\* The gates that a fill in market t passes.
GatesOf(t) == {<<"market", t>>, <<"event", EventOf[t]>>, TotalGate}

LEMMA GateTypes ==
  /\ \A g \in Gate : Cap(g) \in Nat
  /\ \A t \in Ticker : GatesOf(t) \subseteq Gate
  /\ \A s \in Portfolio, g \in Gate : Held(s, g) \in Int
<1>1. \A g \in Gate : Cap(g) \in Nat
  BY CapsAssumption DEF Cap
<1>2. \A t \in Ticker : GatesOf(t) \subseteq Gate
  BY MarketsAssumption DEF GatesOf, Gate
<1>3. ASSUME NEW s \in Portfolio, NEW g \in Gate PROVE Held(s, g) \in Int
  BY DEF Held, Portfolio, Gate, TotalGate
<1>4. QED
  BY <1>1, <1>2, <1>3

\* A fill adds to its gates and to no other.
LEMMA WithHeld ==
  ASSUME NEW s \in Portfolio, NEW t \in Ticker, NEW n \in Int, NEW g \in Gate
  PROVE  Held(With(s, t, n), g) = IF g \in GatesOf(t) THEN Held(s, g) + n ELSE Held(s, g)
<1> DEFINE w == With(s, t, n)
<1>1. /\ \A u \in Ticker : w.perTicker[u] =
           IF u = t THEN s.perTicker[u] + n ELSE s.perTicker[u]
      /\ \A e \in Event : w.perEvent[e] =
           IF e = EventOf[t] THEN s.perEvent[e] + n ELSE s.perEvent[e]
      /\ w.total = s.total + n
  BY WithEffect
<1> HIDE DEF w
<1>2. ASSUME NEW u \in Ticker, g = <<"market", u>>
      PROVE  Held(w, g) = IF g \in GatesOf(t) THEN Held(s, g) + n ELSE Held(s, g)
  <2>1. (g \in GatesOf(t) <=> u = t) /\ Held(w, g) = w.perTicker[u] /\ Held(s, g) = s.perTicker[u]
    BY <1>2 DEF Held, GatesOf, TotalGate
  <2>2. QED
    BY <1>1, <2>1
<1>3. ASSUME NEW e \in Event, g = <<"event", e>>
      PROVE  Held(w, g) = IF g \in GatesOf(t) THEN Held(s, g) + n ELSE Held(s, g)
  <2>1. /\ g \in GatesOf(t) <=> e = EventOf[t]
        /\ Held(w, g) = w.perEvent[e] /\ Held(s, g) = s.perEvent[e]
    BY <1>3 DEF Held, GatesOf, TotalGate
  <2>2. QED
    BY <1>1, <2>1
<1>4. ASSUME g = TotalGate
      PROVE  Held(w, g) = IF g \in GatesOf(t) THEN Held(s, g) + n ELSE Held(s, g)
  BY <1>1, <1>4 DEF Held, GatesOf, TotalGate
<1>5. QED
  BY <1>2, <1>3, <1>4 DEF Gate, w

\* What is approved has room at each of its gates.
LEMMA ApprovedFits ==
  ASSUME NEW s \in Portfolio, NEW t \in Ticker,
         ApproveOrder(t, Requested, s).size # 0, NEW g \in GatesOf(t)
  PROVE  Held(s, g) + ApproveOrder(t, Requested, s).size <= Cap(g)
<1> DEFINE n == ApproveOrder(t, Requested, s).size
<1>1. /\ n \in Nat /\ n <= RoomMarket(s, t) /\ n <= RoomEvent(s, t) /\ n <= RoomTotal(s)
  BY ApproveSound, RequestedInt
<1>2. s.perTicker[t] \in Int /\ s.perEvent[EventOf[t]] \in Int /\ s.total \in Int
  BY MarketsAssumption DEF Portfolio
<1> HIDE DEF n
<1>3. Held(s, g) + n <= Cap(g)
  BY <1>1, <1>2, CapsAssumption
     DEF Held, Cap, GatesOf, TotalGate, RoomMarket, RoomEvent, RoomTotal
<1>4. QED
  BY <1>3 DEF n
=============================================================================
