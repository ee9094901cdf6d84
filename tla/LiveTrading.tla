----------------------------- MODULE LiveTrading -----------------------------
(***************************************************************************)
(* Trading ticks in demo and live mode: run_tick (scheduler/loop.py) with  *)
(* its reconciliation, the router, and KalshiBroker (kalshi/orders.py)     *)
(* against an exchange that matches orders at its own pace and over a      *)
(* network that loses answers.  One process runs ticks and may lose its    *)
(* tick at any await.  The exchange and the database are two accounts of   *)
(* the same orders; the question is what their differences can cost.       *)
(*                                                                         *)
(* The settlement check that ends a tick writes only market_settlements,   *)
(* which nothing here reads: module Settlements has it.                    *)
(***************************************************************************)
EXTENDS RiskLimits, Sequences, FiniteSetsExt

CONSTANTS
  Side,          \* sides of a market that ticks buy
  Costs,         \* what a contract of the bought side may cost, the highest the quote
  PricedBySide,  \* whether answers about fills price them by their own side
  PostAttempts,  \* stop_after_attempt in KalshiClient._request
  PollBudget,    \* _FILL_POLL_ATTEMPTS
  MaxTicks       \* bound: ticks with picks in a behaviour

ASSUME SideAssumption == Side \subseteq {"yes", "no"}
ASSUME CostAssumption ==
  Costs \subseteq 1..99 /\ Costs # {} /\ PricedBySide \subseteq BOOLEAN
ASSUME FiniteAssumption == IsFiniteSet(Ticker) /\ IsFiniteSet(Event)
ASSUME BudgetAssumption ==
  PostAttempts \in Nat \ {0} /\ PollBudget \in Nat \ {0} /\ MaxTicks \in Nat

VARIABLES
  lock,       \* kill.lock exists
  pc,         \* where the process is in run_tick
  ticks,      \* ticks that had picks; the number of the one in progress
  todo,       \* picks yet to route: a market and the side to buy
  cur,        \* the locals of taker_buy
  mem,        \* the PortfolioState the tick gates on
  orders,     \* the orders table
  fills,      \* the fills table
  decisions,  \* the decisions table
  exch,       \* the exchange's orders of this account
  resolved    \* markets the exchange has settled

tickVars == <<pc, ticks, todo, cur, mem>>
dbVars == <<orders, fills, decisions>>
vars == <<lock, tickVars, dbVars, exch, resolved>>

Stage == {"idle", "fetch", "reconcile", "load", "route",
          "post", "poll", "close", "book", "record", "skip", "settle"}

NoOrder == [id |-> <<0, "none">>, side |-> "none", size |-> 0, attempts |-> 0, polls |-> 0,
            best |-> 0, price |-> 0]

\* f with k mapped to v.
Put(f, k, v) == [x \in DOMAIN f \cup {k} |-> IF x = k THEN v ELSE f[x]]

Init ==
  /\ lock = FALSE
  /\ pc = "idle" /\ ticks = 0 /\ todo = {} /\ cur = NoOrder /\ mem = NoPositions
  /\ orders = <<>> /\ fills = {} /\ decisions = {}
  /\ exch = <<>> /\ resolved = {}

Leave ==
  /\ pc' = "idle" /\ todo' = {} /\ cur' = NoOrder /\ mem' = NoPositions

-----------------------------------------------------------------------------
\* The two accounts of what is held.

\* client_order_id hashes tick, market and side; a tick has one pick per market,
\* so tick and market stand for it.
ClientOrderId(t) == <<ticks, t>>

OrdersIn(t) == {id \in DOMAIN exch : id[2] = t}
Executed(id) == IF id \in DOMAIN exch THEN Len(exch[id].costs) ELSE 0
ExecutedOf(ids) == SumOf([id \in ids |-> Executed(id)], ids)

\* /portfolio/positions: contracts net of sides, none in a settled market.
Position(t) ==
  LET long == {id \in OrdersIn(t) : exch[id].side = "yes"}
  IN IF t \in resolved THEN 0 ELSE ExecutedOf(long) - ExecutedOf(OrdersIn(t) \ long)

\* Mutant: a NO position counts with its sign.
GrossSigned(n) == n

Gross(n) == IF n < 0 THEN -n ELSE n

\* KalshiBroker.load_portfolio.
LivePortfolio ==
  LET held == [t \in Ticker |-> Gross(Position(t))]
  IN [perTicker |-> held,
      perEvent |-> [e \in Event |-> SumOf(held, {t \in Ticker : EventOf[t] = e})],
      total |-> SumOf(held, Ticker),
      dailyPnl |-> 0]

\* PaperBroker.load_portfolio over the fills of this mode, per market.
Recorded(t) == Contracts({r \in fills : r.id[2] = t})

\* Mutant: only the markets the database knows are compared.
DriftedInDatabase == {t \in Ticker : Recorded(t) # 0 /\ Recorded(t) # Gross(Position(t))}

\* reconcile_positions over the markets of either side.
Drifted == {t \in Ticker : Recorded(t) # Gross(Position(t))}

-----------------------------------------------------------------------------
\* Mutant: the lock is not looked at.
StartTickUnlocked ==
  /\ pc = "idle"
  /\ pc' = "fetch"
  /\ UNCHANGED <<lock, ticks, todo, cur, mem, dbVars, exch, resolved>>

\* run_tick up to its first await, the only look at the kill switch.
StartTick ==
  /\ pc = "idle"
  /\ ~lock
  /\ pc' = "fetch"
  /\ UNCHANGED <<lock, ticks, todo, cur, mem, dbVars, exch, resolved>>

\* _pick_per_event_best: at most one market of each event, with a side.
Picks == {S \in SUBSET ((Ticker \ resolved) \X Side) :
            \A k, l \in S : EventOf[k[1]] = EventOf[l[1]] => k = l}

\* The tick_id only matters to a tick that has picks.
Scan(S) ==
  /\ pc = "fetch"
  /\ S # {} => ticks < MaxTicks
  /\ ticks' = IF S = {} THEN ticks ELSE ticks + 1
  /\ todo' = S
  /\ pc' = "reconcile"
  /\ UNCHANGED <<lock, cur, mem, dbVars, exch, resolved>>

\* The positions arrive: a drift arms the kill switch and ends the tick.
Reconcile ==
  /\ pc = "reconcile"
  /\ IF Drifted # {}
     THEN lock' = TRUE /\ Leave /\ UNCHANGED ticks
     ELSE pc' = "load" /\ UNCHANGED <<lock, ticks, todo, cur, mem>>
  /\ UNCHANGED <<dbVars, exch, resolved>>

\* The positions cannot be fetched: _reconcile_with_live reports no drift.
ReconcileBlind ==
  /\ pc = "reconcile"
  /\ pc' = "load"
  /\ UNCHANGED <<lock, ticks, todo, cur, mem, dbVars, exch, resolved>>

\* The positions are fetched once more, for the gates.
Load ==
  /\ pc = "load"
  /\ IF todo = {}
     THEN Leave
     ELSE mem' = LivePortfolio /\ pc' = "route" /\ UNCHANGED <<todo, cur>>
  /\ UNCHANGED <<lock, ticks, dbVars, exch, resolved>>

\* After the last pick the tick goes on to the settlement check.
Advance == pc' = IF todo' = {} THEN "settle" ELSE "route"

Decide(t, action, n) ==
  decisions' = decisions \cup {[tick |-> ticks, ticker |-> t, action |-> action, size |-> n]}

\* route, refused by the gates.
RouteSkip(k) ==
  LET decision == ApproveOrder(k[1], Requested, mem)
  IN /\ pc = "route" /\ k \in todo
     /\ decision.size = 0
     /\ Decide(k[1], decision.reason, 0)
     /\ todo' = todo \ {k}
     /\ Advance
     /\ UNCHANGED <<lock, ticks, cur, mem, orders, fills, exch, resolved>>

\* An order's limit is the quote of its side.
Limit == Max(Costs)

\* Mutant: the order is posted with its row still to be inserted.
SubmitUnrecorded(k) ==
  LET decision == ApproveOrder(k[1], Requested, mem)
  IN /\ pc = "route" /\ k \in todo
     /\ decision.size # 0
     /\ cur' = [NoOrder EXCEPT !.id = ClientOrderId(k[1]), !.side = k[2], !.size = decision.size,
                            !.price = Limit]
     /\ todo' = todo \ {k}
     /\ pc' = "post"
     /\ UNCHANGED <<lock, ticks, mem, dbVars, exch, resolved>>

\* route, approved: taker_buy commits the intent before it calls the exchange.
\* A pick's side has a quote: evaluate makes no candidate without one.
Submit(k) ==
  LET decision == ApproveOrder(k[1], Requested, mem)
      id == ClientOrderId(k[1])
  IN /\ pc = "route" /\ k \in todo
     /\ decision.size # 0
     /\ orders' = Put(orders, id, [side |-> k[2], count |-> decision.size,
                                   price |-> Limit, status |-> "submitted"])
     /\ cur' = [NoOrder EXCEPT !.id = id, !.side = k[2], !.size = decision.size,
                            !.price = Limit]
     /\ todo' = todo \ {k}
     /\ pc' = "post"
     /\ UNCHANGED <<lock, ticks, mem, fills, decisions, exch, resolved>>

\* The request reaches the exchange: a new limit order; a client_order_id it
\* has already seen makes no second one.
Reach ==
  exch' = IF cur.id \in DOMAIN exch THEN exch
          ELSE Put(exch, cur.id, [side |-> cur.side, size |-> cur.size,
                                  costs |-> <<>>, open |-> TRUE])

MarkOrder(status) == orders' = [orders EXCEPT ![cur.id].status = status]

\* post_order is answered with the order's id.
PostAnswered ==
  /\ pc = "post"
  /\ Reach
  /\ pc' = "poll"
  /\ cur' = [cur EXCEPT !.polls = PollBudget]
  /\ UNCHANGED <<lock, ticks, todo, mem, dbVars, resolved>>

\* It is answered without an id: the row stays as submitted.
PostNoId ==
  /\ pc = "post"
  /\ Reach \/ UNCHANGED exch
  /\ pc' = "skip"
  /\ UNCHANGED <<lock, ticks, todo, cur, mem, dbVars, resolved>>

\* It fails for good, by an HTTP error or at the last attempt: whether or not
\* the exchange has the order, the row is marked rejected.
PostFails ==
  /\ pc = "post"
  /\ Reach \/ UNCHANGED exch
  /\ MarkOrder("rejected")
  /\ pc' = "skip"
  /\ UNCHANGED <<lock, ticks, todo, cur, mem, fills, decisions, resolved>>

\* Mutant: every failed attempt marks the row.
PostRetriesRejected ==
  /\ pc = "post" /\ cur.attempts + 1 < PostAttempts
  /\ Reach \/ UNCHANGED exch
  /\ cur' = [cur EXCEPT !.attempts = @ + 1]
  /\ MarkOrder("rejected")
  /\ UNCHANGED <<lock, pc, ticks, todo, mem, fills, decisions, resolved>>

\* A transport error, before or after the exchange took the order, is retried.
PostRetries ==
  /\ pc = "post" /\ cur.attempts + 1 < PostAttempts
  /\ Reach \/ UNCHANGED exch
  /\ cur' = [cur EXCEPT !.attempts = @ + 1]
  /\ UNCHANGED <<lock, pc, ticks, todo, mem, dbVars, resolved>>

\* What the first n contracts of an order cost.
Cost(id, n) == SumOf(exch[id].costs, 1..n)

\* The average price of the fills an answer lists.  A NO fill without a NO price
\* is given the complement of the limit, which is a NO price already.
AnsweredPrice(bySide) ==
  IF bySide THEN Cost(cur.id, Executed(cur.id)) \div Executed(cur.id)
  ELSE IF cur.side = "no" THEN 100 - Limit ELSE Limit

\* Mutant: each poll adds what it sees.
PollAdding(seen, price) ==
  /\ pc = "poll"
  /\ cur' = [cur EXCEPT !.polls = @ - 1, !.best = @ + seen, !.price = price]
  /\ pc' = IF seen >= cur.size \/ cur.polls = 1 THEN "close" ELSE "poll"
  /\ UNCHANGED <<lock, ticks, todo, mem, dbVars, exch, resolved>>

\* Mutant: the price of the first fills seen is kept.
PollFirstPrice(seen, price) ==
  /\ pc = "poll"
  /\ cur' = [cur EXCEPT !.polls = @ - 1, !.best = IF seen > 0 THEN seen ELSE @,
                        !.price = IF cur.best = 0 /\ seen > 0 THEN price ELSE @]
  /\ pc' = IF seen >= cur.size \/ cur.polls = 1 THEN "close" ELSE "poll"
  /\ UNCHANGED <<lock, ticks, todo, mem, dbVars, exch, resolved>>

\* One poll of _await_fill; one that fails or sees nothing keeps the last count.
Poll(seen, price) ==
  /\ pc = "poll"
  /\ cur' = [cur EXCEPT !.polls = @ - 1, !.best = IF seen > 0 THEN seen ELSE @,
                        !.price = IF seen > 0 THEN price ELSE @]
  /\ pc' = IF seen >= cur.size \/ cur.polls = 1 THEN "close" ELSE "poll"
  /\ UNCHANGED <<lock, ticks, todo, mem, dbVars, exch, resolved>>

\* An order not seen to be filled is canceled; a cancel that fails is only
\* logged and may or may not have reached the exchange.
Close ==
  /\ pc = "close"
  /\ \/ cur.best < cur.size /\ exch' = [exch EXCEPT ![cur.id].open = FALSE]
     \/ UNCHANGED exch
  /\ pc' = "book"
  /\ UNCHANGED <<lock, ticks, todo, cur, mem, dbVars, resolved>>

\* Mutant: the order keeps its requested count.
BookFillRequested ==
  /\ pc = "book" /\ cur.best > 0
  /\ orders' = [orders EXCEPT ![cur.id].status =
                  IF cur.best = cur.size THEN "filled" ELSE "partial"]
  /\ fills' = fills \cup {[id |-> cur.id, count |-> cur.best, price |-> cur.price]}
  /\ pc' = "record"
  /\ UNCHANGED <<lock, ticks, todo, cur, mem, decisions, exch, resolved>>

\* The order's last state and its fill are committed together.
BookFill ==
  /\ pc = "book" /\ cur.best > 0
  /\ orders' = [orders EXCEPT ![cur.id].count = cur.best, ![cur.id].price = cur.price,
                  ![cur.id].status = IF cur.best = cur.size THEN "filled" ELSE "partial"]
  /\ fills' = fills \cup {[id |-> cur.id, count |-> cur.best, price |-> cur.price]}
  /\ pc' = "record"
  /\ UNCHANGED <<lock, ticks, todo, cur, mem, decisions, exch, resolved>>

BookNothing ==
  /\ pc = "book" /\ cur.best = 0
  /\ MarkOrder("canceled")
  /\ pc' = "skip"
  /\ UNCHANGED <<lock, ticks, todo, cur, mem, fills, decisions, exch, resolved>>

\* route, after a fill: the tick's portfolio takes it, the decision follows.
RecordFill ==
  /\ pc = "record"
  /\ mem' = ApplyFill(mem, cur.id[2], cur.best)
  /\ Decide(cur.id[2], "buy", cur.best)
  /\ cur' = NoOrder
  /\ UNCHANGED todo
  /\ Advance
  /\ UNCHANGED <<lock, ticks, orders, fills, exch, resolved>>

\* route, after a broker that returned None for whatever reason.
RecordSkip ==
  /\ pc = "skip"
  /\ Decide(cur.id[2], "no_quote", 0)
  /\ cur' = NoOrder
  /\ UNCHANGED todo
  /\ Advance
  /\ UNCHANGED <<lock, ticks, mem, orders, fills, exch, resolved>>

EndTick ==
  /\ pc = "settle"
  /\ Leave
  /\ UNCHANGED <<lock, ticks, dbVars, exch, resolved>>

\* An exception, a cancellation or a crash ends the tick between two steps.
\* Nothing looks at the orders it leaves behind.
Abort ==
  /\ pc # "idle"
  /\ Leave
  /\ UNCHANGED <<lock, ticks, dbVars, exch, resolved>>

\* The exchange executes n contracts of an open order, at its limit or better.
Match(id, n, cost) ==
  /\ exch[id].open /\ n <= exch[id].size - Executed(id)
  /\ exch' = [exch EXCEPT ![id].costs = @ \o [i \in 1..n |-> cost],
                           ![id].open = Executed(id) + n < exch[id].size]
  /\ UNCHANGED <<lock, tickVars, dbVars, resolved>>

\* The exchange settles a market and closes its orders.
Resolve(t) ==
  /\ t \notin resolved
  /\ resolved' = resolved \cup {t}
  /\ exch' = [id \in DOMAIN exch |->
                IF id[2] = t THEN [exch[id] EXCEPT !.open = FALSE] ELSE exch[id]]
  /\ UNCHANGED <<lock, tickVars, dbVars>>

\* The kill and unkill commands touch only the lock file.
Kill == ~lock /\ lock' = TRUE /\ UNCHANGED <<tickVars, dbVars, exch, resolved>>
Unkill == lock /\ lock' = FALSE /\ UNCHANGED <<tickVars, dbVars, exch, resolved>>

ScanSome == \E S \in Picks : Scan(S)
PollSome ==
  \/ Poll(0, 0)
  \/ Executed(cur.id) > 0
     /\ \E bySide \in PricedBySide : Poll(Executed(cur.id), AnsweredPrice(bySide))

TickStep ==
  \/ StartTick \/ ScanSome \/ Reconcile \/ ReconcileBlind \/ Load
  \/ \E k \in todo : RouteSkip(k) \/ Submit(k)
  \/ PostAnswered \/ PostNoId \/ PostFails \/ PostRetries
  \/ PollSome \/ Close \/ BookFill \/ BookNothing
  \/ RecordFill \/ RecordSkip \/ EndTick \/ Abort

Next ==
  \/ TickStep
  \/ \E id \in DOMAIN exch, n \in 1..Requested, cost \in Costs : Match(id, n, cost)
  \/ \E t \in Ticker : Resolve(t)
  \/ Kill \/ Unkill

Spec == Init /\ [][Next]_vars

\* The daemon keeps ticking, every await ends, and neither the inputs nor the
\* positions are lost for ever; the exchange and the operator owe nothing.
FairSpec == Spec /\ WF_vars(TickStep) /\ SF_vars(ScanSome) /\ SF_vars(Reconcile)

-----------------------------------------------------------------------------
OrderId == (1..MaxTicks) \X Ticker

\* Every variable has its type.
TypeOK ==
  /\ lock \in BOOLEAN
  /\ pc \in Stage
  /\ ticks \in 0..MaxTicks
  /\ todo \subseteq Ticker \X Side
  /\ \/ cur = NoOrder
     \/ /\ cur \in [id: OrderId, side: Side, size: 1..MaxPerMarket,
                   attempts: 0..(PostAttempts - 1), polls: 0..PollBudget, best: Nat,
                   price: 0..100]
        /\ cur.best <= cur.size
  /\ mem \in Portfolio
  /\ DOMAIN orders \subseteq OrderId
  /\ \A id \in DOMAIN orders : orders[id] \in
       [side: Side, count: Nat \ {0}, price: 0..100,
        status: {"submitted", "rejected", "canceled", "partial", "filled"}]
  /\ fills \subseteq [id: OrderId, count: Nat \ {0}, price: 0..100]
  /\ decisions \subseteq [tick: 1..MaxTicks, ticker: Ticker,
                          action: RefuseReason \cup {"buy", "no_quote"}, size: Nat]
  /\ DOMAIN exch \subseteq OrderId
  /\ \A id \in DOMAIN exch : exch[id] \in
       [side: Side, size: Nat \ {0}, costs: Seq(Costs), open: BOOLEAN]
  /\ resolved \subseteq Ticker

\* The database accounts for the exchange as orders.py:90-91 means it to:
\* every order the exchange has was recorded before it was sent, and a row of
\* the fills table never claims a contract that was not executed, whatever was
\* lost, retried or cut short.
IntentFirst ==
  /\ \A id \in DOMAIN exch :
       id \in DOMAIN orders /\ orders[id].side = exch[id].side
  /\ \A r \in fills : r.count <= Executed(r.id)
  /\ \A r, s \in fills : r.id = s.id => r = s

\* An order's status says what is in the fills table (orders.py:133-154): a
\* fill for partial and filled and none for any other, and a buy decision has
\* its fill, a skipped pick has none.
StatusTells ==
  /\ \A id \in DOMAIN orders :
       orders[id].status \in {"partial", "filled"}
         <=> \E r \in fills : r.id = id /\ r.count = orders[id].count
                                /\ r.price = orders[id].price
  /\ \A d \in decisions :
       IF d.action = "buy"
       THEN \E r \in fills : r.id = <<d.tick, d.ticker>> /\ r.count = d.size
       ELSE \A r \in fills : r.id # <<d.tick, d.ticker>>

\* A fills row has the average cost of the contracts it counts, rounded down,
\* whatever was executed before and after (orders.py:192-211), unless the answer
\* did not price them by their side: then it has the limit of a YES order and
\* the complement of the limit of a NO order.
FillsPriced ==
  \A r \in fills :
    \/ r.price = Cost(r.id, r.count) \div r.count
    \/ FALSE \in PricedBySide
       /\ r.price = IF exch[r.id].side = "no" THEN 100 - Limit ELSE Limit

\* Executed contracts of some markets that the fills table lacks.
Unrecorded(markets) ==
  ExecutedOf({id \in DOMAIN exch : id[2] \in markets})
    - Contracts({r \in fills : r.id[2] \in markets})

\* The caps bind the real account up to what the database has missed
\* (limits.py:55-68, orders.py:213): whatever is held beyond a cap is no more
\* than executed contracts without a fills row, under lost answers, late
\* fills, failed cancels and crashes.
CapsUpToUnrecorded ==
  LET held == LivePortfolio
  IN /\ \A t \in Ticker : held.perTicker[t] <= MaxPerMarket + Unrecorded({t})
     /\ \A e \in Event :
          held.perEvent[e] <= MaxPerEvent + Unrecorded({t \in Ticker : EventOf[t] = e})
     /\ held.total <= MaxTotal + Unrecorded(Ticker)

\* What ticks before n recorded of a market, and whether the exchange has orders
\* of theirs on both its sides.
RecordedBefore(n, t) == Contracts({r \in fills : r.id[2] = t /\ r.id[1] < n})
TwoSidedBefore(n, t) ==
  \E i, j \in OrdersIn(t) : i[1] < n /\ j[1] < n /\ exch[i].side # exch[j].side

\* A tick orders in a market again only if what earlier ticks recorded of it is
\* less than the size to order (limits.py:53, orders.py:213): every tick makes new
\* client_order_ids (broker.py:46), so nothing but the position it loaded keeps
\* it from repeating an order.  The positions of a settled market, and of one
\* with orders on both sides, do not tell.
ReordersOnlyShort ==
  \A id \in DOMAIN orders :
    \/ RecordedBefore(id[1], id[2]) < Requested
    \/ id[2] \in resolved
    \/ TwoSidedBefore(id[1], id[2])

\* Reconciliation stops trading only for a reason (loop.py:232-246): a market
\* that differs has executed contracts without a fills row, was bought on both
\* sides, or is settled, its position gone from the exchange and its fills still
\* in the table.  The last is no fault of anybody's and halts every account
\* that holds a market to its end.
DriftHasCause ==
  \A t \in Drifted :
    \/ Unrecorded({t}) > 0
    \/ t \in resolved
    \/ \E i, j \in OrdersIn(t) : exch[i].side # exch[j].side

\* An order as the two accounts have it.
Status(id) == IF id \in DOMAIN orders THEN orders[id].status ELSE "none"
Size(id) ==
  IF id \in DOMAIN exch THEN exch[id].size
  ELSE IF id \in DOMAIN orders THEN orders[id].count ELSE 0

Order(id) == INSTANCE OrderLife WITH
  status <- Status(id), size <- Size(id),
  placed <- id \in DOMAIN exch, executed <- Executed(id),
  booked <- {r.count : r \in {x \in fills : x.id = id}}

\* Through retries, late executions, failed cancels and crashes every order keeps
\* to its life (orders.py:78-154): the exchange gets it once, after its intent and
\* before its outcome; it has one outcome for good, "filled" for no less than its
\* size; and no more is booked than was executed by then.
ImplementsOrderLife ==
  /\ \A id \in OrderId : Order(id)!LifeInit
  /\ [][\A id \in OrderId : Order(id)!LifeStep]_vars

\* Orders the tick in flight may still post: a fetch has yet to choose its
\* picks, at most one of each event.
Outstanding ==
  CASE pc = "fetch" -> Cardinality(Event)
    [] pc = "idle" -> 0
    [] OTHER -> Cardinality(todo)

\* While the lock stays, every new order uses up a pick of the tick in flight
\* (loop.py:200); the kill command cancels none of those that rest at the
\* exchange (cli.py:112-124), whatever becomes of them is the exchange's.
KillDrains ==
  [][lock /\ lock' =>
       Cardinality(DOMAIN orders') + Outstanding'
         <= Cardinality(DOMAIN orders) + Outstanding]_vars

\* A difference between the accounts that lasts is found: ticks cannot go on
\* for ever beside it without the kill switch being armed (loop.py:229-248).
DriftIsCaught ==
  \A t \in Ticker :
    (pc = "idle" /\ Recorded(t) # Gross(Position(t)))
      ~> (lock \/ Recorded(t) = Gross(Position(t)))
=============================================================================
