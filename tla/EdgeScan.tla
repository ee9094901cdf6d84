------------------------------ MODULE EdgeScan ------------------------------
(***************************************************************************)
(* From a tick's inputs to its picks: _build_rows (edge/inspect.py) event  *)
(* by event, with the fair probabilities of module Forecast and evaluate   *)
(* (edge/detector.py) on each market, then _pick_per_event_best            *)
(* (scheduler/loop.py) row by row.  The inputs are what fetch_inputs got   *)
(* from the exchange, the ensemble and the NWS, for the events of a city.  *)
(*                                                                         *)
(* Prices are in cents, probabilities and edges in hundredths of a cent of *)
(* a one dollar contract; floating point is taken as exact.                *)
(***************************************************************************)
EXTENDS Fees, Sequences, Forecast

CONSTANTS
  Events,      \* the events in the order of their first market
  Listed,      \* the markets of each, in the order the exchange lists them
  EventOf,     \* the event of a market
  DayOf,       \* the date at the end of an event's ticker
  Ladders,     \* the strike metadata a listing may have: market to contract
  Listings,    \* what may be known of a market's quotes: sets of [listed, book]
  Forecasts,   \* ensembles: columns of readings [day, temp], one a member
  PointForecasts,  \* NWS periods [day, daytime, temp, unit]; none if the request failed
  Kernels,     \* kernels of the bandwidths that occur
  Closes,      \* hours to each market's close; None where it has no close time
  EdgeMin,     \* trading.edge_min.default
  DecayHours,  \* trading.close_decay_hours
  MaxSize      \* bound: order sizes tried

Event == Range(Events)
MarketsOf(e) == Range(Listed[e])
Ticker == UNION {MarketsOf(e) : e \in Event}

\* by_event groups the markets by the event each belongs to.
ASSUME MarketsAssumption ==
  /\ Events \in Seq(Event) /\ \A i, j \in DOMAIN Events : Events[i] = Events[j] => i = j
  /\ \A e \in Event : Listed[e] \in Seq(Ticker) /\ \A t \in MarketsOf(e) : EventOf[t] = e
\* A price is in whole cents, a temperature in whole degrees.
Price == 0..100
ASSUME InputsAssumption ==
  /\ DOMAIN Listings = Ticker
  /\ \A t \in Ticker :
       Listings[t] \subseteq [listed: [bid: Price \cup {None}, ask: Price \cup {None}],
                              book: [yes: SUBSET Price, no: SUBSET Price]]
  /\ DOMAIN DayOf = Event /\ \A e \in Event : DayOf[e] \in Int
  /\ \A columns \in Forecasts :
       /\ IsFiniteSet(DOMAIN columns)
       /\ \A m \in DOMAIN columns : columns[m] \in Seq([day: Int, temp: Int])
  /\ \A forecast \in PointForecasts :
       forecast \in Seq([day: Int, daytime: BOOLEAN, temp: Int, unit: {"C", "F"}])
  /\ \A close \in Closes : close \in [Ticker -> Nat \cup {None}]
\* The types of strikes, as market payloads have them.
ASSUME LaddersAssumption ==
  \A ladder \in Ladders :
    ladder \in [Ticker -> [type: {"less", "between", "greater"}, floor: Int, cap: Int]]

\* The ramp stays in whole units when the threshold is a multiple of its span.
ASSUME DecayAssumption ==
  /\ DecayHours \in Nat \ {0} /\ EdgeMin \in Nat \ {0} /\ EdgeMin % DecayHours = 0
ASSUME SizeAssumption == MaxSize \in Nat
\* A normal distribution's upper half, degree by degree, cut off where it is 1.
ASSUME KernelAssumption ==
  \A k \in Kernels :
    k \in Seq((One \div 2)..One) /\ \A c, d \in DOMAIN k : c <= d => k[c] <= k[d]

VARIABLES
  quote, contract, hours,         \* the markets of the tick
  samples, periods, kernel,       \* each event's ensemble, the NWS forecast, kernels
  today,                          \* the UTC date
  scanned,                        \* how many events' rows are built
  rows,                           \* the EdgeRows
  next,                           \* the row _pick_per_event_best looks at next
  picks,                          \* its per_event map
  saved                           \* the tick's rows of tick_scans

inputs == <<quote, contract, hours, samples, periods, kernel, today>>
vars == <<inputs, scanned, rows, next, picks, saved>>

NoPick == [ticker |-> "none", side |-> "none", net |-> 0, min |-> 0]

\* The best price of one side of an order book.
Best(prices) == IF prices = {} THEN None ELSE Max(prices)

\* Buying YES takes the best bid for NO.
BestYesAsk(book) == IF Best(book.no) = None THEN None ELSE 100 - Best(book.no)

\* enrich_with_orderbooks: a side the listing leaves open is taken from the
\* order book, and stays open if the request failed.
Enriched(m) ==
  [bid |-> IF m.listed.bid # None THEN m.listed.bid ELSE Best(m.book.yes),
   ask |-> IF m.listed.ask # None THEN m.listed.ask ELSE BestYesAsk(m.book)]

\* fetch_inputs has delivered.
Init ==
  /\ quote \in {[t \in Ticker |-> Enriched(known[t])] :
                 known \in {f \in [Ticker -> UNION Range(Listings)] :
                               \A t \in Ticker : f[t] \in Listings[t]}}
  /\ contract \in Ladders /\ hours \in Closes
  /\ samples \in {[e \in Event |-> Samples(columns, DayOf[e])] : columns \in Forecasts}
  /\ periods \in PointForecasts /\ kernel \in [Event -> Kernels]
  /\ today \in Range(DayOf)
  /\ scanned = 0 /\ rows = <<>> /\ next = 1
  /\ picks = [e \in Event |-> NoPick] /\ saved = <<>>

-----------------------------------------------------------------------------
Past(e) == DayOf[e] < today

\* The ensemble's median is more than 3 degrees from the NWS high, if there is one.
Diverges(e) ==
  LET high == DailyHigh(periods, DayOf[e])
  IN high # None /\ Abs(Median2(samples[e]) - 2 * high) > 6

\* What an event's markets are held to before any of them is evaluated.
Condition(e) ==
  CASE Past(e) -> "past"
    [] ~Past(e) /\ DOMAIN samples[e] = {} -> "no_forecast"
    [] ~Past(e) /\ DOMAIN samples[e] # {} -> IF Diverges(e) THEN "diverges" ELSE "usable"

\* A market's fair probability is known whenever its event has a forecast.
Fair(t) ==
  LET e == EventOf[t]
  IN IF DOMAIN samples[e] = {} THEN None
     ELSE ContractProbability(contract[t], kernel[e], samples[e])

-----------------------------------------------------------------------------
\* Mutant: the ramp goes on below zero, far from the close.
UnclampedEdgeMin(base, h, decay) ==
  IF decay <= 0 THEN base ELSE base + (base * (decay - h)) \div decay

\* effective_edge_min: EdgeMin far from the close, twice that at the close.
EffectiveEdgeMin(base, h, decay) ==
  IF decay <= 0 THEN base
  ELSE IF h >= decay THEN base
  ELSE base + (base * (decay - h)) \div decay

\* Mutant: the threshold is compared with the gross edge.
CandidateGross(side, p, cost, min) ==
  LET gross == p - 100 * cost
  IN [side |-> side, net |-> gross, min |-> min, flagged |-> gross > min]

\* _candidate: buying at a cost in cents what wins with probability p; the fee
\* is that of a single contract.
Candidate(side, p, cost, min) ==
  LET net == p - 100 * cost - TakerFeeRate(cost)
  IN [side |-> side, net |-> net, min |-> min, flagged |-> net > min]

\* MarketImplied: what each side costs to buy, and twice the midpoint.
Implied(q) ==
  [buyYes |-> q.ask,
   buyNo |-> IF q.bid = None THEN None ELSE 100 - q.bid,
   mid2 |-> IF q.bid = None \/ q.ask = None THEN None ELSE q.bid + q.ask]

\* evaluate: one candidate for each side of the book that has a quote.
Evaluate(p, q, base, h, decay) ==
  LET min == EffectiveEdgeMin(base, h, decay)
      cost == Implied(q)
  IN {c \in {Candidate("buy_yes", p, cost.buyYes, min),
             Candidate("buy_no", 10000 - p, cost.buyNo, min)} :
        IF c.side = "buy_yes" THEN cost.buyYes # None ELSE cost.buyNo # None}

\* The flagged candidate with the highest net edge, buy_yes first.
Flagged(cands) == {c \in cands : c.flagged}
BestFlagged(cands) ==
  CHOOSE c \in Flagged(cands) : \A d \in Flagged(cands) :
    c.net > d.net \/ (c.net = d.net /\ (c.side = "buy_yes" \/ c = d))

\* One market's row: it is evaluated unless the event has no usable forecast,
\* or the market no fair probability or close time.
Row(t) ==
  LET e == EventOf[t]
      p == Fair(t)
      cands == IF p # None /\ hours[t] # None /\ Condition(e) = "usable"
               THEN Evaluate(p, quote[t], EdgeMin, hours[t], DecayHours) ELSE {}
  IN [ticker |-> t, fair |-> p,
      side |-> IF Flagged(cands) = {} THEN "none" ELSE BestFlagged(cands).side,
      min |-> IF cands = {} THEN None ELSE EffectiveEdgeMin(EdgeMin, hours[t], DecayHours)]

\* With two or more priced markets, a model total below 0.7 of the market's
\* total over the quoted ones means the model is biased: no trade.
Undershoots(e) ==
  LET priced == {p \in {<<t, Fair(t)>> : t \in MarketsOf(e)} : p[2] # None}
      quoted == {t \in MarketsOf(e) : Implied(quote[t]).mid2 # None}
      fairSum == Total([p \in priced |-> p[2]])
      marketSum == Total([t \in quoted |-> 50 * Implied(quote[t]).mid2])
  IN /\ Condition(e) = "usable"
     /\ marketSum > 0
     /\ Cardinality(priced) >= 2
     /\ 10 * fairSum < 7 * marketSum

\* A market's row as it enters the table.
TableRow(t) == IF Undershoots(EventOf[t]) THEN [Row(t) EXCEPT !.side = "none"] ELSE Row(t)

\* The rows of an event, in market order.
RowsOf(e) == [i \in DOMAIN Listed[e] |-> TableRow(Listed[e][i])]

\* The next event; past ones are passed over.
ScanEvent ==
  /\ scanned < Len(Events)
  /\ LET e == Events[scanned + 1]
     IN rows' = IF Past(e) THEN rows ELSE rows \o RowsOf(e)
  /\ scanned' = scanned + 1
  /\ UNCHANGED <<inputs, next, picks, saved>>

\* Mutant: the ramp is applied once more to a threshold that has it.
PickOfRamped(r) ==
  LET cands == Evaluate(r.fair, quote[r.ticker], IF r.min = None THEN 0 ELSE r.min,
                        hours[r.ticker], DecayHours)
      best == BestFlagged(cands)
  IN IF r.side = "none" \/ r.fair = None \/ Flagged(cands) = {} THEN NoPick
     ELSE [ticker |-> r.ticker, side |-> best.side, net |-> best.net, min |-> best.min]

\* The pick's candidate is computed again from the row, whose threshold already
\* has its ramp.
PickOf(r) ==
  LET cands == Evaluate(r.fair, quote[r.ticker], IF r.min = None THEN 0 ELSE r.min, 0, 0)
      best == BestFlagged(cands)
  IN IF r.side = "none" \/ r.fair = None \/ Flagged(cands) = {} THEN NoPick
     ELSE [ticker |-> r.ticker, side |-> best.side, net |-> best.net, min |-> best.min]

\* One row of _pick_per_event_best.
Pick ==
  /\ scanned = Len(Events) /\ next <= Len(rows)
  /\ LET p == PickOf(rows[next])
         held == picks[EventOf[rows[next].ticker]]
     IN picks' = IF p # NoPick /\ (held = NoPick \/ p.net > held.net)
                 THEN [picks EXCEPT ![EventOf[p.ticker]] = p] ELSE picks
  /\ next' = next + 1
  /\ UNCHANGED <<inputs, scanned, rows, saved>>

\* _persist_scan: the table is committed whole once the picks are known, and
\* before anything is routed.
Persist ==
  /\ scanned = Len(Events) /\ next > Len(rows) /\ Len(saved) < Len(rows)
  /\ saved' = [i \in DOMAIN rows |->
                 [ticker |-> rows[i].ticker, fair |-> rows[i].fair, flagged |-> rows[i].side]]
  /\ UNCHANGED <<inputs, scanned, rows, next, picks>>

Next == ScanEvent \/ Pick \/ Persist

Spec == Init /\ [][Next]_vars

-----------------------------------------------------------------------------
\* The tick goes on to trade its picks.
Done == scanned = Len(Events) /\ next > Len(rows) /\ Len(saved) = Len(rows)

\* Every variable has its type.
TypeOK ==
  /\ scanned \in 0..Len(Events)
  /\ \A r \in Range(rows) :
       /\ r.ticker \in Ticker /\ r.fair \in (0..One) \cup {None}
       /\ r.side \in {"buy_yes", "buy_no", "none"}
       /\ r.min = None \/ r.min \in EdgeMin..(2 * EdgeMin)
  /\ next \in 1..(Len(rows) + 1)
  /\ picks \in [Event -> [ticker: Ticker \cup {"none"}, side: {"buy_yes", "buy_no", "none"},
                          net: Int, min: Nat]]
  /\ saved = <<>> \/ Len(saved) = Len(rows)

\* What an event offers to trade: the sides of its markets that clear their
\* threshold net of fees.
Offers(e) ==
  IF Condition(e) # "usable" \/ Undershoots(e) THEN {}
  ELSE UNION {{[ticker |-> t, side |-> c.side, net |-> c.net] :
                 c \in Flagged(Evaluate(Fair(t), quote[t], EdgeMin, hours[t], DecayHours))} :
              t \in {u \in MarketsOf(e) : Fair(u) # None /\ hours[u] # None}}

\* The two passes come to one trade per event (loop.py:80-137): its best offer,
\* with the offer's edge, on the side the saved table flags; and no pick only
\* where nothing is on offer.
PicksAreBest ==
  Done => \A e \in Event :
    LET p == picks[e]
    IN IF Offers(e) = {} THEN p = NoPick
       ELSE /\ [ticker |-> p.ticker, side |-> p.side, net |-> p.net] \in Offers(e)
            /\ \A o \in Offers(e) : o.net <= p.net
            /\ \E r \in Range(saved) : r.ticker = p.ticker /\ r.flagged = p.side

\* An event is traded on its own day's weather (inspect.py:170-209): it is not
\* past, and if the NWS gave a high for its date, the last daytime period of
\* it, half of the members' maxima are no more than 3 degrees above it and
\* half no more than 3 degrees below.
TradesAgreeWithNws ==
  Done => \A e \in Event : picks[e] # NoPick =>
    /\ DayOf[e] >= today
    /\ \A i \in DOMAIN periods :
         LET p == periods[i]
             own(q) == q.day = DayOf[e] /\ q.daytime /\ q.temp # None
             above == Count(LAMBDA x : x > Fahrenheit(p) + 3, samples[e])
             below == Count(LAMBDA x : x < Fahrenheit(p) - 3, samples[e])
         IN own(p) /\ (\A j \in (i + 1)..Len(periods) : ~own(periods[j]))
              => /\ 2 * above <= Size(samples[e])
                 /\ 2 * below <= Size(samples[e])

\* A pick's edge survives the fee of an order of any size: what n contracts are
\* expected to win, less their cost and the fee of the whole order, is more than
\* n times the threshold the row was held to (detector.py:7-8, fees.py:45-51).
EdgeSurvivesFees ==
  Done => \A e \in Event : picks[e] # NoPick =>
    LET t == picks[e].ticker
        yes == picks[e].side = "buy_yes"
        p == IF yes THEN Fair(t) ELSE One - Fair(t)
        cost == IF yes THEN quote[t].ask ELSE 100 - quote[t].bid
    IN \A n \in 1..MaxSize :
         n * p - 100 * n * cost - 100 * TakerFee(n, cost)
           > n * EffectiveEdgeMin(EdgeMin, hours[t], DecayHours)

\* The samples that make a contract win, its bounds included, and its regime.
Winners(c, xs) ==
  CASE c.type = "greater" -> Count(LAMBDA x : x > Strike(c), xs)
    [] c.type = "less" -> Count(LAMBDA x : x <= Strike(c), xs)
    [] c.type = "between" -> Count(LAMBDA x : c.floor <= x /\ x <= c.cap, xs)
Empirical(c, xs) ==
  IF c.type = "between" THEN Far(xs, c.floor) /\ Far(xs, c.cap) ELSE Far(xs, Strike(c))

\* The rungs of an event that have a price meet at most in a strike, as those of
\* the exchange's ladders do.
Ends(c) == IF c.type = "between" THEN {c.floor, c.cap} ELSE {Strike(c)}
Below(c, d) ==
  c.type # "greater" /\ d.type # "less" /\ \A x \in Ends(c), y \in Ends(d) : x <= y
RungsApart(e) ==
  \A t, u \in {v \in MarketsOf(e) : Fair(v) # None} :
    t = u \/ Below(contract[t], contract[u]) \/ Below(contract[u], contract[t])

\* The ladder of an event adds up to one but for the mixing of the two regimes
\* (threshold.py:75-84): beyond the mass of the kernel density, of which no two
\* rungs have the same part, a rung far from the median adds its share of members
\* and half a member's.
LadderAddsUp ==
  Done => \A e \in Event : RungsApart(e) =>
    LET xs == samples[e]
        priced == {r \in Range(saved) : EventOf[r.ticker] = e /\ r.fair # None}
        far == {r \in priced : Empirical(contract[r.ticker], xs)}
        shares == Total([r \in far |-> 2 * Winners(contract[r.ticker], xs) + 1])
    IN Total([r \in priced |-> r.fair]) * 2 * (Size(xs) + 1)
         <= One * (shares + IF far = priced THEN 0 ELSE 2 * (Size(xs) + 1))
            + 2 * (Size(xs) + 1) * Cardinality(far)

\* Smoothing alone is no reason to trade: once the ensemble is large enough for
\* the threshold, with 1 / (2 n + 2) at most edge_min, a pick far from the
\* median is on a side that some member wins (distributions.py:36-42).  Nothing
\* in the code asks for that many members.
FarPicksHaveMembers ==
  Done => \A e \in Event : picks[e] # NoPick =>
    LET xs == samples[e]
        c == contract[picks[e].ticker]
        wins == Winners(c, xs)
    IN 2 * (Size(xs) + 1) * EdgeMin >= One /\ Empirical(c, xs)
         => IF picks[e].side = "buy_yes" THEN wins > 0 ELSE wins < Size(xs)
=============================================================================
