-------------------------- MODULE LiveTrading_proofs --------------------------
(***************************************************************************)
(* Proofs about LiveTrading for every set of markets, events, sides, costs *)
(* and caps, and any number of attempts, polls and ticks.                  *)
(***************************************************************************)
EXTENDS LiveTrading, RiskLimits_proofs

InFlight == {"post", "poll", "close", "book", "record", "skip"}
Booked == {"partial", "filled"}

\* A decision has been recorded on the pick that the order stands for.
Decided(id) == \E d \in decisions : d.tick = id[1] /\ d.ticker = id[2]

\* A price that n contracts of an order can have been booked at.
Priced(id, n, price) ==
  \/ price = Cost(id, n) \div n
  \/ FALSE \in PricedBySide /\ price = IF exch[id].side = "no" THEN 100 - Limit ELSE Limit

\* The tables are of ticks that started.
TicksPast ==
  /\ \A id \in DOMAIN orders : id[1] <= ticks
  /\ \A d \in decisions : d.tick <= ticks

\* A pick that is yet to route has left nothing.
PicksFresh ==
  /\ pc \in {"idle", "fetch", "settle"} => todo = {}
  /\ todo # {} => ticks # 0
  /\ \A k \in todo : ClientOrderId(k[1]) \notin DOMAIN orders /\ ~Decided(ClientOrderId(k[1]))
  /\ \A k, l \in todo : k[1] = l[1] => k = l

\* The order in flight, as taker_buy and the two tables have it.
OrderInFlight ==
  /\ cur # NoOrder <=> pc \in InFlight
  /\ pc \in InFlight =>
       /\ cur.id \in DOMAIN orders /\ cur.id[1] = ticks /\ ~Decided(cur.id)
       /\ orders[cur.id].side = cur.side
       /\ \A k \in todo : k[1] # cur.id[2]
  /\ pc \in InFlight \ {"record"} => \A r \in fills : r.id # cur.id
  /\ pc = "record" => \E r \in fills : r.id = cur.id /\ r.count = cur.best

\* The order in flight, as the exchange has it.
OrderAtExchange ==
  /\ pc \in {"poll", "close", "book"} => cur.id \in DOMAIN exch
  /\ pc \in InFlight =>
       /\ cur.id \in DOMAIN exch => exch[cur.id].size = cur.size
       /\ cur.best <= Executed(cur.id)
  /\ pc = "post" => cur.best = 0
  /\ pc = "poll" => cur.polls > 0
  /\ pc \in {"poll", "close", "book"} /\ cur.best > 0 => Priced(cur.id, cur.best, cur.price)

\* A fill is of an order that the exchange has and that is marked filled.
FillsHaveOrders ==
  \A r \in fills : r.id \in DOMAIN exch /\ r.id \in DOMAIN orders
                     /\ orders[r.id].status \in Booked

NothingOverfilled == \A id \in DOMAIN exch : Len(exch[id].costs) <= exch[id].size

\* The inductive invariant.
AccountsInv ==
  /\ TypeOK /\ TicksPast /\ PicksFresh /\ OrderInFlight /\ OrderAtExchange
  /\ FillsHaveOrders /\ NothingOverfilled
  /\ IntentFirst /\ StatusTells /\ FillsPriced


-----------------------------------------------------------------------------
\* The limit is the highest cost.
LEMMA LimitIsHighest == Limit \in Costs /\ \A c \in Costs : c <= Limit
<1> DEFINE Below == {100 - c : c \in Costs}
           R == {ss \in Nat \X Nat : ss[1] < ss[2]}
<1>1. Below \subseteq Nat /\ Below # {}
  <2>1. \A c \in Costs : 100 - c \in Nat
    BY CostAssumption
  <2>2. PICK c \in Costs : TRUE
    BY CostAssumption
  <2>3. 100 - c \in Below
    BY <2>2
  <2>4. QED
    BY <2>1, <2>3
<1>2. IsWellFoundedOn(R, Nat)
  BY NatLessThanWellFounded, Zenon DEF OpToRel
<1>3. \A a, b \in Nat : a < b => <<a, b>> \in R
  OBVIOUS
<1>4. \A c \in Costs : 100 - c \in Below
  OBVIOUS
<1>5. \A n \in Below : \E c \in Costs : n = 100 - c
  OBVIOUS
<1> HIDE DEF Below, R
<1>6. PICK m \in Below : \A n \in Below : ~(<<n, m>> \in R)
  BY <1>1, <1>2, WFMin
<1>7. ASSUME NEW n \in Below PROVE m <= n
  <2>1. m \in Nat /\ n \in Nat
    BY <1>1
  <2>2. ~(n < m)
    BY <1>3, <1>6, <2>1
  <2>3. QED
    BY <2>1, <2>2
<1>8. PICK c \in Costs : m = 100 - c
  BY <1>5
<1>9. \A d \in Costs : c >= d
  BY <1>4, <1>7, <1>8, CostAssumption
<1>10. QED
  <2>1. Limit \in Costs /\ \A d \in Costs : Limit >= d
    BY <1>9 DEF Limit, Max
  <2>2. QED
    BY <2>1, CostAssumption

LEMMA LimitType == Limit \in 1..99
  BY LimitIsHighest, CostAssumption

LEMMA OrderIdFinite ==
  ASSUME NEW S \in SUBSET OrderId
  PROVE  IsFiniteSet(S)
<1>1. IsFiniteSet(1..MaxTicks)
  BY BudgetAssumption, FS_Interval
<1>2. IsFiniteSet(OrderId)
  BY <1>1, FiniteAssumption, FS_Product DEF OrderId
<1>3. QED
  BY <1>2, FS_Subset

\* What the exchange has executed of one order and of several.
LEMMA ExecutedType ==
  ASSUME TypeOK
  PROVE  \A id : Executed(id) \in Nat
<1>1. \A id \in DOMAIN exch : exch[id].costs \in Seq(Costs)
  BY DEF TypeOK
<1>2. QED
  BY <1>1 DEF Executed

LEMMA ExecutedOfType ==
  ASSUME TypeOK, NEW S \in SUBSET OrderId
  PROVE  ExecutedOf(S) \in Nat
<1>1. NatOn([id \in S |-> Executed(id)], S)
  BY ExecutedType DEF NatOn
<1>2. QED
  BY <1>1, OrderIdFinite, SumType DEF ExecutedOf

\* A portfolio loaded from the exchange holds natural numbers.
LEMMA PositionType ==
  ASSUME TypeOK, NEW t
  PROVE  Position(t) \in Int /\ Gross(Position(t)) \in Nat
<1> DEFINE long == {id \in OrdersIn(t) : exch[id].side = "yes"}
<1>1. long \in SUBSET OrderId /\ OrdersIn(t) \ long \in SUBSET OrderId
  BY DEF TypeOK, OrdersIn
<1>2. ExecutedOf(long) \in Nat /\ ExecutedOf(OrdersIn(t) \ long) \in Nat
  BY <1>1, ExecutedOfType
<1>3. QED
  BY <1>2 DEF Position, Gross

LEMMA PositionsType ==
  ASSUME TypeOK
  PROVE  \A u : Gross(Position(u)) \in Nat
  BY PositionType

LEMMA LivePortfolioType ==
  ASSUME TypeOK
  PROVE  /\ LivePortfolio \in Portfolio
         /\ \A g \in Gate : Held(LivePortfolio, g) \in Nat
<1> DEFINE held == [t \in Ticker |-> Gross(Position(t))]
<1>1. \A S \in SUBSET Ticker : IsFiniteSet(S) /\ NatOn(held, S)
  BY PositionType, FiniteAssumption, FS_Subset DEF NatOn
<1>2. \A t \in Ticker : held[t] \in Nat
  BY PositionType
<1> HIDE DEF held
<1>3. \A S \in SUBSET Ticker : SumOf(held, S) \in Nat
  BY <1>1, SumType
<1>4. /\ LivePortfolio.perTicker = held
      /\ LivePortfolio.perEvent =
           [e \in Event |-> SumOf(held, {t \in Ticker : EventOf[t] = e})]
      /\ LivePortfolio.total = SumOf(held, Ticker)
      /\ LivePortfolio.dailyPnl = 0
  BY DEF LivePortfolio, held
<1>5. LivePortfolio \in Portfolio
  BY <1>2, <1>3 DEF LivePortfolio, Portfolio, held
<1>6. ASSUME NEW g \in Gate PROVE Held(LivePortfolio, g) \in Nat
  BY <1>2, <1>3, <1>4 DEF Held, Gate, TotalGate
<1>7. QED
  BY <1>5, <1>6

\* What contracts cost, and their average: no more than the limit.
LEMMA CostBetween ==
  ASSUME TypeOK, NEW id \in DOMAIN exch, NEW n \in Nat, n <= Executed(id)
  PROVE  Cost(id, n) \in Nat /\ n <= Cost(id, n) /\ Cost(id, n) <= n * Limit
<1> DEFINE f == exch[id].costs
<1>1. f \in Seq(Costs) /\ Len(f) \in Nat /\ n <= Len(f)
  BY DEF TypeOK, Executed
<1>2. IsFiniteSet(1..n) /\ Cardinality(1..n) = n
  BY IntervalSize
<1>3. \A i \in 1..n : f[i] \in Costs
  BY <1>1
<1>4. /\ NatOn(f, 1..n)
      /\ \A i \in 1..n : 1 <= f[i] /\ f[i] <= Limit
  BY <1>3, LimitIsHighest, CostAssumption DEF NatOn
<1> HIDE DEF f
<1>5. SumOf(f, 1..n) \in Nat
  BY <1>2, <1>4, SumType
<1>6. 1 \in Nat /\ Limit \in Nat
  BY LimitType
<1>7. /\ Cardinality(1..n) * 1 <= SumOf(f, 1..n)
      /\ SumOf(f, 1..n) <= Cardinality(1..n) * Limit
  <2> DEFINE S == 1..n
             m == 1
  <2>1. IsFiniteSet(S) /\ NatOn(f, S) /\ m \in Nat /\ \A i \in S : m <= f[i] /\ f[i] <= Limit
    BY <1>2, <1>4, <1>6
  <2> HIDE DEF S, m
  <2>2. Cardinality(S) * m <= SumOf(f, S) /\ SumOf(f, S) <= Cardinality(S) * Limit
    BY <2>1, <1>6, SumBetween
  <2>3. QED
    BY <2>2 DEF S, m
<1>8. QED
  BY <1>2, <1>5, <1>6, <1>7 DEF Cost, f

LEMMA AverageBetween ==
  ASSUME NEW total \in Nat, NEW n \in Nat \ {0}, NEW m \in Nat,
         n <= total, total <= n * m
  PROVE  total \div n \in 1..m
<1> DEFINE q == total \div n
<1>1. q \in Int /\ n * q <= total /\ total < n * q + n
  OBVIOUS
<1> HIDE DEF q
<1>2. q >= 1
  <2>1. SUFFICES ASSUME q <= 0 PROVE FALSE
    BY <1>1
  <2>2. n * q <= 0
    BY <1>1, <2>1
  <2>3. QED
    BY <1>1, <2>2
<1>3. q <= m
  <2>1. SUFFICES ASSUME q >= m + 1 PROVE FALSE
    BY <1>1
  <2>2. n * q >= n * (m + 1)
    BY <1>1, <2>1
  <2>3. n * (m + 1) = n * m + n
    OBVIOUS
  <2>4. QED
    BY <1>1, <2>2, <2>3
<1>4. QED
  BY <1>1, <1>2, <1>3 DEF q
-----------------------------------------------------------------------------
\* The two accounts, apart from the order in flight.
Accounts == FillsHaveOrders /\ NothingOverfilled /\ IntentFirst /\ StatusTells /\ FillsPriced

LEMMA AccountsStay ==
  ASSUME Accounts, UNCHANGED <<dbVars, exch>>
  PROVE  Accounts'
<1>1. FillsHaveOrders' /\ NothingOverfilled'
  BY DEF Accounts, dbVars, FillsHaveOrders, NothingOverfilled
<1>2. IntentFirst'
  BY DEF Accounts, dbVars, IntentFirst, Executed
<1>3. StatusTells'
  BY DEF Accounts, dbVars, StatusTells
<1>4. FillsPriced'
  BY DEF Accounts, dbVars, FillsPriced, Cost
<1>5. QED
  BY <1>1, <1>2, <1>3, <1>4 DEF Accounts

\* The order in flight is one that taker_buy made.
LEMMA InFlightType ==
  ASSUME TypeOK, OrderInFlight, pc \in InFlight
  PROVE  /\ cur \in [id: OrderId, side: Side, size: 1..MaxPerMarket,
                    attempts: 0..(PostAttempts - 1), polls: 0..PollBudget, best: Nat,
                    price: 0..100]
         /\ cur.best <= cur.size
         /\ cur.id[1] \in 1..MaxTicks /\ cur.id[2] \in Ticker
         /\ cur.id = <<cur.id[1], cur.id[2]>>
         /\ ticks \in 1..MaxTicks
<1>1. cur # NoOrder
  BY DEF OrderInFlight
<1>2. /\ cur \in [id: OrderId, side: Side, size: 1..MaxPerMarket,
                attempts: 0..(PostAttempts - 1), polls: 0..PollBudget, best: Nat,
                price: 0..100]
      /\ cur.best <= cur.size
  BY <1>1 DEF TypeOK
<1>3. cur.id \in OrderId
  BY <1>2
<1>4. /\ cur.id[1] \in 1..MaxTicks /\ cur.id[2] \in Ticker
      /\ cur.id = <<cur.id[1], cur.id[2]>>
  BY <1>3 DEF OrderId
<1>5. ticks \in 1..MaxTicks
  BY <1>4 DEF OrderInFlight
<1>6. QED
  BY <1>2, <1>4, <1>5

\* Steps that leave the books alone and have no order in flight.
LEMMA AccountsQuiet ==
  ASSUME AccountsInv, UNCHANGED <<dbVars, exch, resolved, ticks>>,
         lock' \in BOOLEAN, mem' \in Portfolio,
         pc' \in Stage \ InFlight, cur' = NoOrder,
         todo' \subseteq todo, pc' \in {"idle", "fetch", "settle"} => todo' = {}
  PROVE  AccountsInv'
<1>1. TypeOK'
  BY DEF AccountsInv, TypeOK, dbVars
<1>2. TicksPast'
  BY DEF AccountsInv, TicksPast, dbVars
<1>3. PicksFresh'
  BY DEF AccountsInv, PicksFresh, dbVars, Decided, ClientOrderId
<1>4. OrderInFlight'
  BY DEF OrderInFlight, InFlight
<1>5. OrderAtExchange'
  BY DEF OrderAtExchange, InFlight
<1>6. Accounts'
  BY AccountsStay DEF AccountsInv, Accounts
<1>7. QED
  BY <1>1, <1>2, <1>3, <1>4, <1>5, <1>6 DEF AccountsInv, Accounts

LEMMA AccountsInit == Init => AccountsInv
<1> SUFFICES ASSUME Init PROVE AccountsInv
  OBVIOUS
<1>1. DOMAIN orders = {} /\ DOMAIN exch = {}
  BY DEF Init
<1>2. TypeOK
  <2>1. /\ lock \in BOOLEAN /\ pc \in Stage /\ todo = {} /\ cur = NoOrder
        /\ fills = {} /\ decisions = {} /\ resolved = {}
    BY DEF Init, Stage
  <2>2. ticks \in 0..MaxTicks
    BY BudgetAssumption DEF Init
  <2>3. mem \in Portfolio
    BY NoPositionsType DEF Init
  <2>4. QED
    BY <1>1, <2>1, <2>2, <2>3 DEF TypeOK
<1>3. TicksPast /\ PicksFresh
  BY <1>1 DEF Init, TicksPast, PicksFresh
<1>4. OrderInFlight /\ OrderAtExchange
  BY DEF Init, OrderInFlight, OrderAtExchange, InFlight
<1>5. FillsHaveOrders /\ NothingOverfilled
  BY <1>1 DEF Init, FillsHaveOrders, NothingOverfilled
<1>6. IntentFirst /\ StatusTells /\ FillsPriced
  BY <1>1 DEF Init, IntentFirst, StatusTells, FillsPriced
<1>7. QED
  BY <1>2, <1>3, <1>4, <1>5, <1>6 DEF AccountsInv

\* Between orders a tick has none in flight.
LEMMA NoneInFlight ==
  ASSUME AccountsInv, pc \notin InFlight
  PROVE  cur = NoOrder
  BY DEF AccountsInv, OrderInFlight

LEMMA AccountsLeave ==
  ASSUME AccountsInv, Leave, UNCHANGED <<dbVars, exch, resolved, ticks>>, lock' \in BOOLEAN
  PROVE  AccountsInv'
<1>1. pc' \in Stage \ InFlight /\ cur' = NoOrder /\ todo' = {} /\ mem' \in Portfolio
  BY NoPositionsType DEF Leave, Stage, InFlight
<1>2. QED
  BY <1>1, AccountsQuiet

\* The steps of a tick that has yet to route a pick.
LEMMA AccountsTick ==
  ASSUME AccountsInv,
         StartTick \/ Reconcile \/ ReconcileBlind \/ Load \/ EndTick \/ Abort \/ Kill \/ Unkill
  PROVE  AccountsInv'
<1>1. lock \in BOOLEAN /\ mem \in Portfolio /\ LivePortfolio \in Portfolio
  BY LivePortfolioType DEF AccountsInv, TypeOK
<1>2. CASE StartTick \/ ReconcileBlind
  <2>1. pc \notin InFlight /\ pc' \in Stage \ InFlight /\ cur' = cur /\ todo' = todo
    BY <1>2 DEF StartTick, ReconcileBlind, InFlight, Stage
  <2>2. pc' \in {"idle", "fetch", "settle"} => todo' = {}
    BY <1>2 DEF AccountsInv, PicksFresh, StartTick, ReconcileBlind
  <2>3. UNCHANGED <<dbVars, exch, resolved, ticks, lock, mem>>
    BY <1>2 DEF StartTick, ReconcileBlind
  <2>4. QED
    BY <1>1, <2>1, <2>2, <2>3, NoneInFlight, AccountsQuiet
<1>3. CASE Reconcile
  <2>1. CASE Drifted # {}
    BY <1>1, <1>3, <2>1, AccountsLeave DEF Reconcile
  <2>2. CASE Drifted = {}
    <3>1. /\ pc \notin InFlight /\ pc' = "load" /\ cur' = cur /\ todo' = todo
          /\ UNCHANGED <<dbVars, exch, resolved, ticks, lock, mem>>
      BY <1>3, <2>2 DEF Reconcile, InFlight
    <3>2. pc' \in Stage \ InFlight /\ pc' \notin {"idle", "fetch", "settle"}
      BY <3>1 DEF Stage, InFlight
    <3>3. QED
      BY <1>1, <3>1, <3>2, NoneInFlight, AccountsQuiet
  <2>3. QED
    BY <2>1, <2>2
<1>4. CASE Load
  <2>1. CASE todo = {}
    BY <1>1, <1>4, <2>1, AccountsLeave DEF Load
  <2>2. CASE todo # {}
    <3>1. /\ pc \notin InFlight /\ pc' = "route" /\ cur' = cur /\ todo' = todo
          /\ mem' = LivePortfolio
          /\ UNCHANGED <<dbVars, exch, resolved, ticks, lock>>
      BY <1>4, <2>2 DEF Load, InFlight
    <3>2. pc' \in Stage \ InFlight /\ pc' \notin {"idle", "fetch", "settle"}
      BY <3>1 DEF Stage, InFlight
    <3>3. QED
      BY <1>1, <3>1, <3>2, NoneInFlight, AccountsQuiet
  <2>3. QED
    BY <2>1, <2>2
<1>5. CASE EndTick \/ Abort
  BY <1>1, <1>5, AccountsLeave DEF EndTick, Abort
<1>6. CASE Kill \/ Unkill
  <2>1. UNCHANGED <<pc, ticks, todo, cur, mem, dbVars, exch, resolved>> /\ lock' \in BOOLEAN
    BY <1>6 DEF Kill, Unkill, tickVars
  <2>2. TypeOK' /\ TicksPast' /\ PicksFresh'
    BY <2>1 DEF AccountsInv, TypeOK, TicksPast, PicksFresh, dbVars, Decided, ClientOrderId
  <2>3. OrderInFlight'
    BY <2>1 DEF AccountsInv, OrderInFlight, dbVars, Decided
  <2>4. OrderAtExchange'
    BY <2>1 DEF AccountsInv, OrderAtExchange, dbVars, Executed, Priced, Cost
  <2>5. Accounts'
    BY <2>1, AccountsStay DEF AccountsInv, Accounts
  <2>6. QED
    BY <2>2, <2>3, <2>4, <2>5 DEF AccountsInv, Accounts
<1>7. QED
  BY <1>2, <1>3, <1>4, <1>5, <1>6

LEMMA AccountsScan ==
  ASSUME AccountsInv, NEW S \in Picks, Scan(S)
  PROVE  AccountsInv'
<1>1. /\ S \subseteq Ticker \X Side
      /\ \A k, l \in S : k[1] = l[1] => k = l
  BY DEF Picks
<1>2. /\ ticks \in 0..MaxTicks /\ ticks' \in 0..MaxTicks /\ ticks <= ticks'
      /\ S # {} => ticks' = ticks + 1 /\ ticks' # 0
  BY BudgetAssumption DEF AccountsInv, TypeOK, Scan
<1>3. cur = NoOrder /\ pc' = "reconcile" /\ todo' = S
  BY NoneInFlight DEF Scan, InFlight
<1>4. UNCHANGED <<lock, cur, mem, orders, fills, decisions, exch, resolved>>
  BY DEF Scan, dbVars
<1>5. TypeOK'
  BY <1>1, <1>2, <1>3, <1>4 DEF AccountsInv, TypeOK, Stage
<1>6. \A id \in DOMAIN orders : id[1] \in Nat /\ id[1] <= ticks
  BY DEF AccountsInv, TypeOK, TicksPast, OrderId
<1>7. \A d \in decisions : d.tick \in Nat /\ d.tick <= ticks
  BY DEF AccountsInv, TypeOK, TicksPast
<1>8. TicksPast'
  BY <1>2, <1>4, <1>6, <1>7 DEF TicksPast
<1>9. PicksFresh'
  <2>1. \A k \in S : <<ticks + 1, k[1]>> \notin DOMAIN orders
    BY <1>6, <1>2
  <2>2. \A k \in S : ~\E d \in decisions : d.tick = ticks + 1 /\ d.ticker = k[1]
    BY <1>7, <1>2
  <2>3. \A k \in S : (ClientOrderId(k[1]) \notin DOMAIN orders /\ ~Decided(ClientOrderId(k[1])))'
    BY <1>2, <1>4, <2>1, <2>2 DEF ClientOrderId, Decided
  <2>4. QED
    BY <1>1, <1>2, <1>3, <2>3 DEF PicksFresh
<1>10. OrderInFlight' /\ OrderAtExchange'
  BY <1>3, <1>4 DEF OrderInFlight, OrderAtExchange, InFlight
<1>11. Accounts'
  BY <1>4, AccountsStay DEF AccountsInv, Accounts, dbVars
<1>12. QED
  BY <1>5, <1>8, <1>9, <1>10, <1>11 DEF AccountsInv, Accounts

-----------------------------------------------------------------------------
\* A decision is recorded: the tick is through with the pick or the order.
LEMMA AccountsDecide ==
  ASSUME AccountsInv, NEW t \in Ticker,
         NEW action \in RefuseReason \cup {"buy", "no_quote"}, NEW n \in Nat,
         Decide(t, action, n), Advance,
         ticks \in 1..MaxTicks, todo' \subseteq todo, \A k \in todo' : k[1] # t,
         IF action = "buy" THEN \E r \in fills : r.id = <<ticks, t>> /\ r.count = n
         ELSE \A r \in fills : r.id # <<ticks, t>>,
         cur' = NoOrder, mem' \in Portfolio,
         UNCHANGED <<lock, ticks, orders, fills, exch, resolved>>
  PROVE  AccountsInv'
<1> DEFINE d == [tick |-> ticks, ticker |-> t, action |-> action, size |-> n]
<1>1. /\ d \in [tick: 1..MaxTicks, ticker: Ticker,
                action: RefuseReason \cup {"buy", "no_quote"}, size: Nat]
      /\ d.tick = ticks /\ d.ticker = t /\ d.action = action /\ d.size = n
      /\ decisions' = decisions \cup {d}
  BY DEF Decide
<1> HIDE DEF d
<1>2. pc' \in Stage \ InFlight /\ pc' \in {"settle", "route"} /\ (pc' = "settle" => todo' = {})
  BY DEF Advance, Stage, InFlight
<1>3. TypeOK'
  BY <1>1, <1>2 DEF AccountsInv, TypeOK
<1>4. TicksPast'
  BY <1>1 DEF AccountsInv, TypeOK, TicksPast
<1>5. PicksFresh'
  <2>1. \A k \in todo' : ClientOrderId(k[1]) \notin DOMAIN orders /\ ~Decided(ClientOrderId(k[1]))
    BY DEF AccountsInv, PicksFresh
  <2>2. \A k \in todo' : (ClientOrderId(k[1]) \notin DOMAIN orders /\ ~Decided(ClientOrderId(k[1])))'
    BY <1>1, <2>1 DEF ClientOrderId, Decided
  <2>3. \A k, l \in todo' : k[1] = l[1] => k = l
    BY DEF AccountsInv, PicksFresh
  <2>4. QED
    BY <1>2, <2>2, <2>3 DEF PicksFresh
<1>6. OrderInFlight' /\ OrderAtExchange'
  BY <1>2 DEF OrderInFlight, OrderAtExchange, InFlight
<1>7. StatusTells'
  <2>1. \A e \in decisions : IF e.action = "buy"
                             THEN \E r \in fills : r.id = <<e.tick, e.ticker>> /\ r.count = e.size
                             ELSE \A r \in fills : r.id # <<e.tick, e.ticker>>
    BY DEF AccountsInv, StatusTells
  <2>2. IF d.action = "buy" THEN \E r \in fills : r.id = <<d.tick, d.ticker>> /\ r.count = d.size
        ELSE \A r \in fills : r.id # <<d.tick, d.ticker>>
    BY <1>1
  <2>3. \A id \in DOMAIN orders :
          orders[id].status \in {"partial", "filled"}
            <=> \E r \in fills : r.id = id /\ r.count = orders[id].count
                                   /\ r.price = orders[id].price
    BY DEF AccountsInv, StatusTells
  <2>4. \A e \in decisions' : IF e.action = "buy"
                              THEN \E r \in fills : r.id = <<e.tick, e.ticker>> /\ r.count = e.size
                              ELSE \A r \in fills : r.id # <<e.tick, e.ticker>>
    <3>1. \A e \in decisions' : e \in decisions \/ e = d
      BY <1>1
    <3>2. QED
      BY <2>1, <2>2, <3>1, Zenon
  <2>5. fills' = fills /\ orders' = orders
    OBVIOUS
  <2>6. (\A id \in DOMAIN orders :
           orders[id].status \in {"partial", "filled"}
             <=> \E r \in fills : r.id = id /\ r.count = orders[id].count
                                    /\ r.price = orders[id].price)'
    BY <2>3, <2>5
  <2>7. (\A e \in decisions : IF e.action = "buy"
                             THEN \E r \in fills : r.id = <<e.tick, e.ticker>> /\ r.count = e.size
                             ELSE \A r \in fills : r.id # <<e.tick, e.ticker>>)'
    BY <2>4, <2>5
  <2>8. QED
    BY <2>6, <2>7 DEF StatusTells
<1>8. FillsHaveOrders' /\ NothingOverfilled' /\ IntentFirst' /\ FillsPriced'
  <2>1. FillsHaveOrders' /\ NothingOverfilled'
    BY DEF AccountsInv, FillsHaveOrders, NothingOverfilled
  <2>2. IntentFirst'
    BY DEF AccountsInv, IntentFirst, Executed
  <2>3. FillsPriced'
    BY DEF AccountsInv, FillsPriced, Cost
  <2>4. QED
    BY <2>1, <2>2, <2>3
<1>9. QED
  BY <1>3, <1>4, <1>5, <1>6, <1>7, <1>8 DEF AccountsInv

\* A pick of a tick in flight.
LEMMA PickType ==
  ASSUME AccountsInv, NEW k \in todo
  PROVE  /\ k[1] \in Ticker /\ k[2] \in Side /\ k = <<k[1], k[2]>> /\ ticks \in 1..MaxTicks
         /\ \A l \in todo \ {k} : l[1] # k[1]
         /\ ClientOrderId(k[1]) \in OrderId /\ ClientOrderId(k[1]) \notin DOMAIN orders
         /\ ~Decided(ClientOrderId(k[1]))
         /\ ApproveOrder(k[1], Requested, mem).size \in Nat
<1>1. k \in Ticker \X Side /\ ticks \in 0..MaxTicks /\ ticks # 0 /\ mem \in Portfolio
  BY DEF AccountsInv, TypeOK, PicksFresh
<1>2. ticks \in 1..MaxTicks /\ k[1] \in Ticker /\ k[2] \in Side /\ k = <<k[1], k[2]>>
  BY <1>1
<1>3. /\ \A l \in todo \ {k} : l[1] # k[1]
      /\ ClientOrderId(k[1]) \notin DOMAIN orders /\ ~Decided(ClientOrderId(k[1]))
  BY DEF AccountsInv, PicksFresh
<1>4. ClientOrderId(k[1]) \in OrderId
  BY <1>2 DEF ClientOrderId, OrderId
<1>5. ApproveOrder(k[1], Requested, mem).size \in Nat
  BY <1>1, <1>2, RequestedInt, ApproveSound
<1>6. QED
  BY <1>2, <1>3, <1>4, <1>5

LEMMA AccountsRouteSkip ==
  ASSUME AccountsInv, NEW k \in todo, RouteSkip(k)
  PROVE  AccountsInv'
<1> DEFINE decision == ApproveOrder(k[1], Requested, mem)
<1>1. /\ k[1] \in Ticker /\ ticks \in 1..MaxTicks
      /\ \A l \in todo \ {k} : l[1] # k[1]
      /\ ClientOrderId(k[1]) \notin DOMAIN orders
  BY PickType
<1>2. mem \in Portfolio /\ mem' = mem
  BY DEF AccountsInv, TypeOK, RouteSkip
<1>3. decision.reason \in RefuseReason
  BY <1>1, <1>2, RequestedInt, ApproveSound DEF RouteSkip
<1>4. decision.reason # "buy"
  BY <1>3 DEF RefuseReason
<1>5. \A r \in fills : r.id # <<ticks, k[1]>>
  BY <1>1 DEF AccountsInv, FillsHaveOrders, ClientOrderId
<1>6. cur = NoOrder
  BY NoneInFlight DEF RouteSkip, InFlight
<1>7. /\ Decide(k[1], decision.reason, 0) /\ Advance /\ todo' = todo \ {k} /\ cur' = NoOrder
      /\ UNCHANGED <<lock, ticks, mem, orders, fills, exch, resolved>>
  BY <1>6 DEF RouteSkip
<1> HIDE DEF decision
<1>8. QED
  BY <1>1, <1>2, <1>3, <1>4, <1>5, <1>7, AccountsDecide

LEMMA AccountsRecord ==
  ASSUME AccountsInv, RecordFill \/ RecordSkip
  PROVE  AccountsInv'
<1>1. pc \in InFlight
  BY DEF RecordFill, RecordSkip, InFlight
<1>2. /\ cur.id[2] \in Ticker /\ cur.id = <<ticks, cur.id[2]>> /\ ticks \in 1..MaxTicks
      /\ cur.best \in Nat /\ mem \in Portfolio
  <2>1. TypeOK /\ OrderInFlight /\ cur.id[1] = ticks
    BY <1>1 DEF AccountsInv, OrderInFlight
  <2>2. QED
    BY <1>1, <2>1, InFlightType DEF TypeOK
<1>3. \A k \in todo : k[1] # cur.id[2]
  BY <1>1 DEF AccountsInv, OrderInFlight
<1>4. CASE RecordFill
  <2>1. ApplyFill(mem, cur.id[2], cur.best) \in Portfolio
    BY <1>2, WithEffect DEF ApplyFill
  <2>2. \E r \in fills : r.id = <<ticks, cur.id[2]>> /\ r.count = cur.best
    BY <1>2, <1>4 DEF AccountsInv, OrderInFlight, RecordFill
  <2>3. /\ Decide(cur.id[2], "buy", cur.best) /\ Advance /\ todo' = todo /\ cur' = NoOrder
        /\ mem' \in Portfolio
        /\ UNCHANGED <<lock, ticks, orders, fills, exch, resolved>>
    BY <1>4, <2>1 DEF RecordFill
  <2>4. QED
    BY <1>2, <1>3, <2>2, <2>3, AccountsDecide
<1>5. CASE RecordSkip
  <2>1. \A r \in fills : r.id # <<ticks, cur.id[2]>>
    BY <1>2, <1>5 DEF AccountsInv, OrderInFlight, RecordSkip, InFlight
  <2>2. /\ Decide(cur.id[2], "no_quote", 0) /\ Advance /\ todo' = todo /\ cur' = NoOrder
        /\ mem' \in Portfolio
        /\ UNCHANGED <<lock, ticks, orders, fills, exch, resolved>>
    BY <1>2, <1>5 DEF RecordSkip
  <2>3. "no_quote" \in RefuseReason \cup {"buy", "no_quote"} /\ "no_quote" # "buy" /\ 0 \in Nat
    OBVIOUS
  <2>4. IF "no_quote" = "buy" THEN \E r \in fills : r.id = <<ticks, cur.id[2]>> /\ r.count = 0
        ELSE \A r \in fills : r.id # <<ticks, cur.id[2]>>
    BY <2>1
  <2>5. QED
    BY <1>2, <1>3, <2>2, <2>3, <2>4, AccountsDecide
<1>6. QED
  BY <1>4, <1>5

LEMMA AccountsSubmit ==
  ASSUME AccountsInv, NEW k \in todo, Submit(k)
  PROVE  AccountsInv'
<1> DEFINE n == ApproveOrder(k[1], Requested, mem).size
           id == ClientOrderId(k[1])
           row == [side |-> k[2], count |-> n, price |-> Limit, status |-> "submitted"]
           c == [NoOrder EXCEPT !.id = id, !.side = k[2], !.size = n, !.price = Limit]
<1>1. /\ k[1] \in Ticker /\ k[2] \in Side /\ ticks \in 1..MaxTicks
      /\ \A l \in todo \ {k} : l[1] # k[1]
      /\ id \in OrderId /\ id \notin DOMAIN orders /\ ~Decided(id) /\ n \in Nat
  BY PickType
<1>2. n # 0 /\ n \in 1..MaxPerMarket
  <2>1. mem \in Portfolio
    BY DEF AccountsInv, TypeOK
  <2>2. n # 0 /\ n <= Requested
    BY <1>1, <2>1, RequestedInt, ApproveSound DEF Submit
  <2>3. Requested <= MaxPerMarket
    BY CapsAssumption DEF Requested, Lesser
  <2>4. QED
    BY <1>1, <2>2, <2>3, RequestedInt, CapsAssumption
<1>3. /\ id[1] = ticks /\ id[2] = k[1] /\ Limit \in 0..100
  BY LimitType DEF ClientOrderId
<1>4. /\ orders' = Put(orders, id, row) /\ cur' = c /\ todo' = todo \ {k} /\ pc' = "post"
      /\ UNCHANGED <<lock, ticks, mem, fills, decisions, exch, resolved>>
  BY DEF Submit
<1> HIDE DEF n, id
<1>5. c \in [id: OrderId, side: Side, size: 1..MaxPerMarket,
            attempts: 0..(PostAttempts - 1), polls: 0..PollBudget, best: Nat, price: 0..100]
      /\ c.id = id /\ c.side = k[2] /\ c.size = n /\ c.best = 0 /\ c # NoOrder
  <2>1. 0 \in 0..(PostAttempts - 1) /\ 0 \in 0..PollBudget
    BY BudgetAssumption
  <2>2. /\ c \in [id: {id}, side: {k[2]}, size: {n}, attempts: {0}, polls: {0}, best: {0},
                price: {Limit}]
        /\ NoOrder.size = 0
    BY DEF NoOrder
  <2> HIDE DEF c
  <2>3. QED
    BY <1>1, <1>2, <1>3, <2>1, <2>2
<1>6. row \in [side: Side, count: Nat \ {0}, price: 0..100,
              status: {"submitted", "rejected", "canceled", "partial", "filled"}]
      /\ row.side = k[2] /\ row.status = "submitted"
  BY <1>1, <1>2, <1>3
<1>7. pc = "route"
  BY DEF Submit
<1> HIDE DEF row, c
<1>8. /\ DOMAIN orders' = DOMAIN orders \cup {id} /\ orders'[id] = row
      /\ \A i \in DOMAIN orders : orders'[i] = orders[i] /\ i # id
  BY <1>1, <1>4 DEF Put
<1>9. TypeOK'
  BY <1>1, <1>4, <1>5, <1>6, <1>8, CapsAssumption DEF AccountsInv, TypeOK, Stage
<1>10. TicksPast'
  BY <1>1, <1>3, <1>4, <1>8 DEF AccountsInv, TicksPast
<1>11. PicksFresh'
  <2>1. /\ \A l \in todo' : ClientOrderId(l[1]) \notin DOMAIN orders /\ ~Decided(ClientOrderId(l[1]))
        /\ \A i, j \in todo' : i[1] = j[1] => i = j
    BY <1>4 DEF AccountsInv, PicksFresh
  <2>2. \A l \in todo' : ClientOrderId(l[1]) # id
    BY <1>1, <1>4 DEF ClientOrderId, id
  <2>3. \A l \in todo' : (ClientOrderId(l[1]) \notin DOMAIN orders /\ ~Decided(ClientOrderId(l[1])))'
    BY <1>4, <1>8, <2>1, <2>2 DEF ClientOrderId, Decided
  <2>4. QED
    BY <1>1, <1>4, <2>1, <2>3 DEF PicksFresh
<1>12. \A r \in fills : r.id # id
  BY <1>1 DEF AccountsInv, FillsHaveOrders
<1>13. OrderInFlight'
  BY <1>1, <1>3, <1>4, <1>5, <1>6, <1>8, <1>12 DEF OrderInFlight, InFlight, Decided
<1>14. id \notin DOMAIN exch
  BY <1>1 DEF AccountsInv, IntentFirst
<1>15. OrderAtExchange'
  BY <1>4, <1>5, <1>14 DEF OrderAtExchange, Executed, InFlight
<1>16. FillsHaveOrders' /\ NothingOverfilled'
  BY <1>4, <1>8 DEF AccountsInv, FillsHaveOrders, NothingOverfilled
<1>17. IntentFirst'
  BY <1>4, <1>8 DEF AccountsInv, IntentFirst, Executed
<1>18. StatusTells'
  BY <1>4, <1>6, <1>8, <1>12 DEF AccountsInv, StatusTells
<1>19. FillsPriced'
  BY <1>4 DEF AccountsInv, FillsPriced, Cost
<1>20. QED
  BY <1>9, <1>10, <1>11, <1>13, <1>15, <1>16, <1>17, <1>18, <1>19 DEF AccountsInv

-----------------------------------------------------------------------------
\* A request changes the exchange at most by an order that has executed nothing.
LEMMA ReachKeeps ==
  ASSUME AccountsInv, pc = "post", Reach \/ UNCHANGED exch
  PROVE  /\ DOMAIN exch' \subseteq DOMAIN exch \cup {cur.id}
         /\ \A id \in DOMAIN exch : id \in DOMAIN exch' /\ exch'[id] = exch[id]
         /\ \A id \in DOMAIN exch' \ DOMAIN exch :
              exch'[id] = [side |-> cur.side, size |-> cur.size, costs |-> <<>>, open |-> TRUE]
         /\ Reach => cur.id \in DOMAIN exch'
         /\ \A id : Executed(id)' = Executed(id)
         /\ DOMAIN exch' \subseteq OrderId
         /\ \A id \in DOMAIN exch' : exch'[id] \in
              [side: Side, size: Nat \ {0}, costs: Seq(Costs), open: BOOLEAN]
<1> DEFINE new == [side |-> cur.side, size |-> cur.size, costs |-> <<>>, open |-> TRUE]
<1>1. cur.id \in OrderId /\ cur.side \in Side /\ cur.size \in Nat \ {0}
  <2>1. TypeOK /\ OrderInFlight /\ pc \in InFlight
    BY DEF AccountsInv, InFlight
  <2>2. cur.id \in OrderId /\ cur.side \in Side /\ cur.size \in 1..MaxPerMarket
    BY <2>1, InFlightType
  <2>3. QED
    BY <2>2, CapsAssumption
<1>2. \A id \in DOMAIN exch : id \in OrderId /\ exch[id] \in
        [side: Side, size: Nat \ {0}, costs: Seq(Costs), open: BOOLEAN]
  BY DEF AccountsInv, TypeOK
<1>3. new \in [side: Side, size: Nat \ {0}, costs: Seq(Costs), open: BOOLEAN]
      /\ new.costs = <<>>
  BY <1>1
<1>4. CASE UNCHANGED exch \/ cur.id \in DOMAIN exch
  <2>1. exch' = exch
    BY <1>4 DEF Reach
  <2>2. \A id : Executed(id)' = Executed(id)
    BY <2>1 DEF Executed
  <2>3. Reach => cur.id \in DOMAIN exch'
    <3>1. CASE cur.id \in DOMAIN exch
      BY <2>1, <3>1
    <3>2. CASE cur.id \notin DOMAIN exch
      <4>1. SUFFICES ASSUME Reach PROVE FALSE
        BY <3>2
      <4>2. cur.id \in DOMAIN exch'
        BY <3>2, <4>1 DEF Reach, Put
      <4>3. QED
        BY <2>1, <3>2, <4>2
    <3>3. QED
      BY <3>1, <3>2
  <2>4. QED
    BY <1>2, <2>1, <2>2, <2>3
<1>5. CASE Reach /\ cur.id \notin DOMAIN exch
  <2>1. exch' = Put(exch, cur.id, new)
    BY <1>5 DEF Reach
  <2> HIDE DEF new
  <2>2. /\ DOMAIN exch' = DOMAIN exch \cup {cur.id} /\ exch'[cur.id] = new
        /\ \A id \in DOMAIN exch : exch'[id] = exch[id]
    BY <1>5, <2>1 DEF Put
  <2>3. \A id : Executed(id)' = Executed(id)
    BY <1>3, <1>5, <2>2 DEF Executed
  <2>4. QED
    BY <1>1, <1>2, <1>3, <2>2, <2>3 DEF new
<1>6. QED
  BY <1>4, <1>5

\* While an order has no fill its row may be marked as the code likes, and the
\* request may reach the exchange.
LEMMA AccountsUnbooked ==
  ASSUME AccountsInv, pc \in InFlight \ {"record"},
         \/ UNCHANGED exch
         \/ pc = "post" /\ Reach,
         UNCHANGED orders \/ MarkOrder("rejected") \/ MarkOrder("canceled"),
         UNCHANGED <<fills, decisions>>
  PROVE  /\ DOMAIN orders' = DOMAIN orders
         /\ \A id \in DOMAIN orders : orders'[id].side = orders[id].side
         /\ \A id \in DOMAIN orders : orders'[id] \in
              [side: Side, count: Nat \ {0}, price: 0..100,
               status: {"submitted", "rejected", "canceled", "partial", "filled"}]
         /\ DOMAIN exch' \subseteq OrderId
         /\ \A id \in DOMAIN exch' : exch'[id] \in
              [side: Side, size: Nat \ {0}, costs: Seq(Costs), open: BOOLEAN]
         /\ \A id \in DOMAIN exch : id \in DOMAIN exch' /\ exch'[id] = exch[id]
         /\ \A id \in DOMAIN exch' \ DOMAIN exch : id = cur.id /\ exch'[id].size = cur.size
         /\ \A id : Executed(id)' = Executed(id)
         /\ Accounts'
<1>1. /\ \A id \in DOMAIN orders : orders[id] \in
           [side: Side, count: Nat \ {0}, price: 0..100,
            status: {"submitted", "rejected", "canceled", "partial", "filled"}]
      /\ DOMAIN exch \subseteq OrderId
      /\ \A id \in DOMAIN exch : exch[id] \in
              [side: Side, size: Nat \ {0}, costs: Seq(Costs), open: BOOLEAN]
  BY DEF AccountsInv, TypeOK
<1>2. /\ cur.id \in DOMAIN orders /\ \A r \in fills : r.id # cur.id
      /\ orders[cur.id].side = cur.side
  BY DEF AccountsInv, OrderInFlight
<1>3. orders[cur.id].status \notin Booked
  BY <1>2 DEF AccountsInv, StatusTells, Booked
<1>4. /\ DOMAIN orders' = DOMAIN orders
      /\ \A id \in DOMAIN orders :
           /\ orders'[id].side = orders[id].side
           /\ orders'[id].count = orders[id].count
           /\ orders'[id].price = orders[id].price
           /\ orders'[id] \in
                [side: Side, count: Nat \ {0}, price: 0..100,
                 status: {"submitted", "rejected", "canceled", "partial", "filled"}]
      /\ \A id \in DOMAIN orders \ {cur.id} : orders'[id].status = orders[id].status
      /\ orders'[cur.id].status \notin Booked
  <2>1. CASE UNCHANGED orders
    BY <1>1, <1>3, <2>1
  <2>2. CASE \E status \in {"rejected", "canceled"} : MarkOrder(status)
    <3>1. PICK status \in {"rejected", "canceled"} : MarkOrder(status)
      BY <2>2
    <3>2. /\ DOMAIN orders' = DOMAIN orders
          /\ \A id \in DOMAIN orders \ {cur.id} : orders'[id] = orders[id]
          /\ orders'[cur.id] = [orders[cur.id] EXCEPT !.status = status]
      BY <1>2, <3>1 DEF MarkOrder
    <3> DEFINE row == orders[cur.id]
               Row == [side: Side, count: Nat \ {0}, price: 0..100,
                       status: {"submitted", "rejected", "canceled", "partial", "filled"}]
    <3>3. row \in Row /\ orders'[cur.id] = [row EXCEPT !.status = status]
      BY <1>1, <1>2, <3>2
    <3>4. \A id \in DOMAIN orders : orders[id] \in Row
      BY <1>1
    <3> HIDE DEF row
    <3>5. orders'[cur.id] \in Row
      BY <3>3
    <3>6. /\ orders'[cur.id].side = row.side /\ orders'[cur.id].count = row.count
          /\ orders'[cur.id].price = row.price /\ orders'[cur.id].status = status
      BY <3>3
    <3>7. status \notin Booked
      BY DEF Booked
    <3> HIDE DEF Row
    <3>8. \A id \in DOMAIN orders :
            /\ orders'[id].side = orders[id].side /\ orders'[id].count = orders[id].count
            /\ orders'[id].price = orders[id].price /\ orders'[id] \in Row
      BY <3>2, <3>4, <3>5, <3>6 DEF row
    <3>9. QED
      BY <3>2, <3>6, <3>7, <3>8 DEF Row
  <2>3. QED
    BY <2>1, <2>2
<1>5. /\ DOMAIN exch' \subseteq OrderId
      /\ \A id \in DOMAIN exch' : exch'[id] \in
              [side: Side, size: Nat \ {0}, costs: Seq(Costs), open: BOOLEAN]
      /\ \A id \in DOMAIN exch : id \in DOMAIN exch' /\ exch'[id] = exch[id]
      /\ \A id \in DOMAIN exch' \ DOMAIN exch :
           /\ id = cur.id /\ exch'[id].size = cur.size /\ exch'[id].side = cur.side
           /\ exch'[id].costs = <<>>
      /\ \A id : Executed(id)' = Executed(id)
  <2>1. CASE UNCHANGED exch
    BY <1>1, <2>1 DEF Executed
  <2>2. CASE pc = "post" /\ Reach
    BY <2>2, ReachKeeps
  <2>3. QED
    BY <2>1, <2>2
<1>6. FillsHaveOrders'
  BY <1>2, <1>4, <1>5 DEF AccountsInv, FillsHaveOrders
<1>7. NothingOverfilled'
  <2>1. ASSUME NEW id \in DOMAIN exch' PROVE Len(exch'[id].costs) <= exch'[id].size
    <3>1. CASE id \in DOMAIN exch
      BY <1>5, <3>1 DEF AccountsInv, NothingOverfilled
    <3>2. CASE id \notin DOMAIN exch
      BY <1>5, <3>2
    <3>3. QED
      BY <3>1, <3>2
  <2>2. QED
    BY <2>1 DEF NothingOverfilled
<1>8. IntentFirst'
  <2>1. ASSUME NEW id \in DOMAIN exch'
        PROVE  id \in DOMAIN orders' /\ orders'[id].side = exch'[id].side
    BY <1>2, <1>4, <1>5 DEF AccountsInv, IntentFirst
  <2>2. /\ \A r \in fills : r.count <= Executed(r.id)'
        /\ \A r, s \in fills : r.id = s.id => r = s
    BY <1>5 DEF AccountsInv, IntentFirst
  <2>3. QED
    BY <2>1, <2>2 DEF IntentFirst
<1>9. StatusTells'
  <2>1. \A id \in DOMAIN orders' :
          orders'[id].status \in {"partial", "filled"}
            <=> \E r \in fills : r.id = id /\ r.count = orders'[id].count
                                   /\ r.price = orders'[id].price
    BY <1>2, <1>4 DEF AccountsInv, StatusTells, Booked
  <2>2. QED
    BY <2>1 DEF AccountsInv, StatusTells
<1>10. FillsPriced'
  BY <1>5 DEF AccountsInv, FillsHaveOrders, FillsPriced, Cost
<1>11. QED
  BY <1>4, <1>5, <1>6, <1>7, <1>8, <1>9, <1>10 DEF Accounts

\* The order in flight moves on without a fill being booked.
LEMMA AccountsOrder ==
  ASSUME AccountsInv, pc \in InFlight \ {"record"}, pc' \in InFlight \ {"record"},
         \/ UNCHANGED exch
         \/ pc = "post" /\ Reach,
         UNCHANGED orders \/ MarkOrder("rejected") \/ MarkOrder("canceled"),
         UNCHANGED <<lock, ticks, todo, mem, fills, decisions, resolved>>,
         cur' \in [id: OrderId, side: Side, size: 1..MaxPerMarket,
                   attempts: 0..(PostAttempts - 1), polls: 0..PollBudget, best: Nat,
                   price: 0..100],
         cur'.id = cur.id, cur'.side = cur.side, cur'.size = cur.size,
         cur'.best <= cur.size, cur'.best <= Executed(cur.id),
         pc' \in {"poll", "close", "book"} => cur.id \in DOMAIN exch',
         pc' = "post" => cur'.best = 0, pc' = "poll" => cur'.polls > 0,
         pc' \in {"poll", "close", "book"} /\ cur'.best > 0
           => Priced(cur.id, cur'.best, cur'.price) /\ UNCHANGED exch
  PROVE  AccountsInv'
<1>1. /\ DOMAIN orders' = DOMAIN orders
      /\ \A id \in DOMAIN orders : orders'[id].side = orders[id].side
      /\ \A id \in DOMAIN orders : orders'[id] \in
           [side: Side, count: Nat \ {0}, price: 0..100,
            status: {"submitted", "rejected", "canceled", "partial", "filled"}]
      /\ DOMAIN exch' \subseteq OrderId
      /\ \A id \in DOMAIN exch' : exch'[id] \in
           [side: Side, size: Nat \ {0}, costs: Seq(Costs), open: BOOLEAN]
      /\ \A id \in DOMAIN exch : id \in DOMAIN exch' /\ exch'[id] = exch[id]
      /\ \A id \in DOMAIN exch' \ DOMAIN exch : id = cur.id /\ exch'[id].size = cur.size
      /\ \A id : Executed(id)' = Executed(id)
      /\ Accounts'
  BY AccountsUnbooked
<1>2. TypeOK'
  <2>1. cur'.best <= cur'.size /\ pc' \in Stage
    BY DEF InFlight, Stage
  <2>2. /\ lock' \in BOOLEAN /\ ticks' \in 0..MaxTicks /\ todo' \subseteq Ticker \X Side
        /\ mem' \in Portfolio /\ DOMAIN orders' \subseteq OrderId
        /\ fills' \subseteq [id: OrderId, count: Nat \ {0}, price: 0..100]
        /\ decisions' \subseteq [tick: 1..MaxTicks, ticker: Ticker,
                                 action: RefuseReason \cup {"buy", "no_quote"}, size: Nat]
        /\ resolved' \subseteq Ticker
    BY <1>1 DEF AccountsInv, TypeOK
  <2>3. QED
    BY <1>1, <2>1, <2>2 DEF TypeOK
<1>3. cur' # NoOrder
  BY DEF NoOrder
<1>4. TicksPast'
  BY <1>1 DEF AccountsInv, TicksPast
<1>5. PicksFresh'
  BY <1>1 DEF AccountsInv, PicksFresh, InFlight, ClientOrderId, Decided
<1>6. OrderInFlight'
  <2>1. /\ cur.id \in DOMAIN orders /\ cur.id[1] = ticks /\ ~Decided(cur.id)
        /\ orders[cur.id].side = cur.side
        /\ \A k \in todo : k[1] # cur.id[2]
        /\ \A r \in fills : r.id # cur.id
    BY DEF AccountsInv, OrderInFlight
  <2>2. QED
    BY <1>1, <1>3, <2>1 DEF OrderInFlight, Decided
<1>7. OrderAtExchange'
  <2>1. cur.id \in DOMAIN exch => exch[cur.id].size = cur.size
    BY DEF AccountsInv, OrderAtExchange
  <2>2. cur'.id \in DOMAIN exch' => exch'[cur'.id].size = cur'.size
    BY <1>1, <2>1
  <2>3. cur'.best <= Executed(cur.id)'
    BY <1>1 DEF Executed
  <2>4. pc' \in {"poll", "close", "book"} /\ cur'.best > 0 => Priced(cur.id, cur.best, cur.price)'
    BY DEF Priced, Cost
  <2>5. QED
    BY <2>2, <2>3, <2>4 DEF OrderAtExchange, Priced, Cost, Executed
<1>8. QED
  BY <1>1, <1>2, <1>4, <1>5, <1>6, <1>7 DEF AccountsInv, Accounts

LEMMA AccountsPost ==
  ASSUME AccountsInv, PostAnswered \/ PostNoId \/ PostFails \/ PostRetries \/ BookNothing
  PROVE  AccountsInv'
<1>1. TypeOK /\ OrderInFlight /\ pc \in InFlight \ {"record"}
  BY DEF AccountsInv, PostAnswered, PostNoId, PostFails, PostRetries, BookNothing, InFlight
<1>2. /\ cur \in [id: OrderId, side: Side, size: 1..MaxPerMarket,
                attempts: 0..(PostAttempts - 1), polls: 0..PollBudget, best: Nat, price: 0..100]
      /\ cur.best <= cur.size
  BY <1>1, InFlightType
<1>3. cur.best <= Executed(cur.id)
  BY <1>1 DEF AccountsInv, OrderAtExchange
<1>4. CASE PostAnswered
  <2>1. /\ pc = "post" /\ Reach /\ pc' = "poll" /\ cur' = [cur EXCEPT !.polls = PollBudget]
        /\ UNCHANGED <<lock, ticks, todo, mem, orders, fills, decisions, resolved>>
    BY <1>4 DEF PostAnswered, dbVars
  <2>2. PollBudget \in Nat /\ PollBudget > 0
    BY BudgetAssumption
  <2>3. /\ cur' \in [id: OrderId, side: Side, size: 1..MaxPerMarket,
                    attempts: 0..(PostAttempts - 1), polls: 0..PollBudget, best: Nat,
                    price: 0..100]
        /\ cur'.id = cur.id /\ cur'.side = cur.side /\ cur'.size = cur.size
        /\ cur'.best = cur.best /\ cur'.polls > 0
    BY <1>2, <2>1, <2>2
  <2>4. cur.id \in DOMAIN exch'
    BY <2>1, ReachKeeps
  <2>5. cur.best = 0
    BY <2>1 DEF AccountsInv, OrderAtExchange
  <2>6. QED
    BY <1>1, <1>2, <1>3, <2>1, <2>3, <2>4, <2>5, AccountsOrder DEF InFlight
<1>5. CASE PostNoId \/ PostFails \/ BookNothing
  <2>1. /\ pc' = "skip" /\ cur' = cur
        /\ UNCHANGED <<lock, ticks, todo, mem, fills, decisions, resolved>>
        /\ UNCHANGED exch \/ (pc = "post" /\ Reach)
        /\ UNCHANGED orders \/ MarkOrder("rejected") \/ MarkOrder("canceled")
    BY <1>5 DEF PostNoId, PostFails, BookNothing, dbVars
  <2>2. pc' \in InFlight \ {"record"} /\ pc' \notin {"poll", "close", "book"}
    BY <2>1 DEF InFlight
  <2>3. QED
    BY <1>1, <1>2, <1>3, <2>1, <2>2, AccountsOrder
<1>6. CASE PostRetries
  <2>1. /\ pc = "post" /\ pc' = "post" /\ cur' = [cur EXCEPT !.attempts = @ + 1]
        /\ cur.attempts + 1 < PostAttempts
        /\ UNCHANGED <<lock, ticks, todo, mem, orders, fills, decisions, resolved>>
        /\ UNCHANGED exch \/ Reach
    BY <1>6 DEF PostRetries, dbVars
  <2>2. /\ cur' \in [id: OrderId, side: Side, size: 1..MaxPerMarket,
                    attempts: 0..(PostAttempts - 1), polls: 0..PollBudget, best: Nat,
                    price: 0..100]
        /\ cur'.id = cur.id /\ cur'.side = cur.side /\ cur'.size = cur.size
        /\ cur'.best = cur.best
    BY <1>2, <2>1, BudgetAssumption
  <2>3. cur.best = 0
    BY <2>1 DEF AccountsInv, OrderAtExchange
  <2>4. QED
    BY <1>1, <1>2, <1>3, <2>1, <2>2, <2>3, AccountsOrder DEF InFlight
<1>7. QED
  BY <1>4, <1>5, <1>6

\* What the exchange answers of an order is a price it can be booked at.
LEMMA AnsweredPriced ==
  ASSUME AccountsInv, pc = "poll", NEW bySide \in PricedBySide, Executed(cur.id) > 0
  PROVE  /\ AnsweredPrice(bySide) \in 0..100
         /\ Priced(cur.id, Executed(cur.id), AnsweredPrice(bySide))
<1> DEFINE n == Executed(cur.id)
<1>1. /\ TypeOK /\ pc \in InFlight /\ cur.id \in DOMAIN exch /\ cur.id \in DOMAIN orders
      /\ orders[cur.id].side = cur.side /\ exch[cur.id].side = cur.side
  BY DEF AccountsInv, InFlight, OrderInFlight, OrderAtExchange, IntentFirst
<1>2. n \in Nat \ {0}
  BY <1>1, ExecutedType
<1>3. Limit \in 1..99
  BY LimitType
<1>4. CASE bySide
  <2>1. AnsweredPrice(bySide) = Cost(cur.id, n) \div n
    BY <1>4 DEF AnsweredPrice
  <2>2. Cost(cur.id, n) \in Nat /\ n <= Cost(cur.id, n) /\ Cost(cur.id, n) <= n * Limit
    BY <1>1, <1>2, CostBetween
  <2>3. Cost(cur.id, n) \div n \in 1..Limit
    <3>1. Limit \in Nat
      BY <1>3
    <3> HIDE DEF n
    <3>2. QED
      BY <1>2, <2>2, <3>1, AverageBetween
  <2> HIDE DEF n
  <2>4. QED
    BY <1>3, <2>1, <2>3 DEF Priced, n
<1>5. CASE ~bySide
  <2>1. AnsweredPrice(bySide) = IF cur.side = "no" THEN 100 - Limit ELSE Limit
    BY <1>5 DEF AnsweredPrice
  <2>2. FALSE \in PricedBySide
    BY <1>5, CostAssumption
  <2>3. AnsweredPrice(bySide) \in 0..100
    BY <1>3, <2>1
  <2>4. Priced(cur.id, n, AnsweredPrice(bySide))
    BY <1>1, <2>1, <2>2 DEF Priced
  <2>5. QED
    BY <2>3, <2>4
<1>6. QED
  BY <1>4, <1>5

LEMMA AccountsPoll ==
  ASSUME AccountsInv, PollSome
  PROVE  AccountsInv'
<1>1. PICK seen \in Nat, price \in 0..100 :
        /\ Poll(seen, price) /\ seen <= Executed(cur.id)
        /\ seen > 0 => Priced(cur.id, seen, price)
  <2>1. CASE Poll(0, 0)
    <3>1. Executed(cur.id) \in Nat
      BY ExecutedType DEF AccountsInv
    <3>2. 0 \in Nat /\ 0 \in 0..100 /\ 0 <= Executed(cur.id)
      BY <3>1
    <3>3. QED
      BY <2>1, <3>2
  <2>2. ASSUME Executed(cur.id) > 0, NEW bySide \in PricedBySide,
               Poll(Executed(cur.id), AnsweredPrice(bySide))
        PROVE  \E seen \in Nat, price \in 0..100 :
                 /\ Poll(seen, price) /\ seen <= Executed(cur.id)
                 /\ seen > 0 => Priced(cur.id, seen, price)
    <3>1. pc = "poll"
      BY <2>2 DEF Poll
    <3>2. Executed(cur.id) \in Nat
      BY ExecutedType DEF AccountsInv
    <3>3. /\ AnsweredPrice(bySide) \in 0..100
          /\ Priced(cur.id, Executed(cur.id), AnsweredPrice(bySide))
      BY <2>2, <3>1, AnsweredPriced
    <3>4. QED
      BY <2>2, <3>2, <3>3
  <2>3. QED
    BY <2>1, <2>2 DEF PollSome
<1>2. TypeOK /\ OrderInFlight /\ pc = "poll" /\ pc \in InFlight \ {"record"}
  BY <1>1 DEF AccountsInv, Poll, InFlight
<1>3. /\ cur \in [id: OrderId, side: Side, size: 1..MaxPerMarket,
                attempts: 0..(PostAttempts - 1), polls: 0..PollBudget, best: Nat, price: 0..100]
      /\ cur.best <= cur.size
  BY <1>2, InFlightType
<1>4. /\ cur.id \in DOMAIN exch /\ cur.best <= Executed(cur.id) /\ cur.polls > 0
      /\ exch[cur.id].size = cur.size
      /\ cur.best > 0 => Priced(cur.id, cur.best, cur.price)
  BY <1>2 DEF AccountsInv, OrderAtExchange
<1>5. seen <= cur.size
  BY <1>1, <1>3, <1>4 DEF AccountsInv, NothingOverfilled, Executed, TypeOK
<1>6. /\ cur' = [cur EXCEPT !.polls = @ - 1, !.best = IF seen > 0 THEN seen ELSE @,
                            !.price = IF seen > 0 THEN price ELSE @]
      /\ pc' = IF seen >= cur.size \/ cur.polls = 1 THEN "close" ELSE "poll"
      /\ UNCHANGED <<lock, ticks, todo, mem, orders, fills, decisions, exch, resolved>>
  BY <1>1 DEF Poll, dbVars
<1>7. /\ cur' \in [id: OrderId, side: Side, size: 1..MaxPerMarket,
                    attempts: 0..(PostAttempts - 1), polls: 0..PollBudget, best: Nat,
                    price: 0..100]
      /\ cur'.id = cur.id /\ cur'.side = cur.side /\ cur'.size = cur.size
      /\ cur'.polls = cur.polls - 1
      /\ \/ seen > 0 /\ cur'.best = seen /\ cur'.price = price
         \/ cur'.best = cur.best /\ cur'.price = cur.price
  <2> DEFINE polls == cur.polls - 1
             best == IF seen > 0 THEN seen ELSE cur.best
             paid == IF seen > 0 THEN price ELSE cur.price
  <2>1. cur' = [cur EXCEPT !.polls = polls, !.best = best, !.price = paid]
    BY <1>6
  <2>2. polls \in 0..PollBudget
    BY <1>3, <1>4, BudgetAssumption
  <2>3. /\ best \in Nat /\ paid \in 0..100
        /\ \/ seen > 0 /\ best = seen /\ paid = price
           \/ best = cur.best /\ paid = cur.price
    BY <1>3
  <2> HIDE DEF best, paid
  <2>4. QED
    BY <1>3, <2>1, <2>2, <2>3
<1>8. \/ seen > 0 /\ cur'.best = seen /\ cur'.price = price
      \/ cur'.best = cur.best /\ cur'.price = cur.price
  BY <1>7
<1>9. /\ cur'.best <= cur.size /\ cur'.best <= Executed(cur.id)
      /\ cur'.best > 0 => Priced(cur.id, cur'.best, cur'.price)
  BY <1>1, <1>3, <1>4, <1>5, <1>8
<1>10. pc' \in {"poll", "close"} /\ (pc' = "poll" => cur'.polls > 0)
  BY <1>3, <1>4, <1>6, <1>7
<1>11. pc' \in InFlight \ {"record"} /\ pc' # "post" /\ cur.id \in DOMAIN exch'
  BY <1>4, <1>6, <1>10 DEF InFlight
<1>12. QED
  BY <1>2, <1>6, <1>7, <1>9, <1>10, <1>11, AccountsOrder

\* The exchange may execute more of an order and close it, never take back.
ExchangeGrows ==
  /\ DOMAIN exch' = DOMAIN exch
  /\ \A id \in DOMAIN exch :
       /\ exch'[id] \in [side: Side, size: Nat \ {0}, costs: Seq(Costs), open: BOOLEAN]
       /\ exch'[id].side = exch[id].side /\ exch'[id].size = exch[id].size
       /\ Len(exch[id].costs) <= Len(exch'[id].costs)
       /\ Len(exch'[id].costs) <= exch[id].size
       /\ \A i \in 1..Len(exch[id].costs) : exch'[id].costs[i] = exch[id].costs[i]

LEMMA CostStays ==
  ASSUME TypeOK, ExchangeGrows, NEW id \in DOMAIN exch, NEW n \in Nat, n <= Executed(id)
  PROVE  Cost(id, n)' = Cost(id, n)
<1> DEFINE f == exch[id].costs
           g == exch'[id].costs
<1>1. Len(f) \in Nat /\ n <= Len(f)
  BY DEF TypeOK, Executed
<1>2. \A i \in 1..Len(f) : f[i] = g[i]
  BY DEF ExchangeGrows
<1> HIDE DEF f, g
<1>3. \A i \in 1..n : f[i] = g[i]
  BY <1>1, <1>2
<1>4. SumOf(f, 1..n) = SumOf(g, 1..n)
  BY <1>3, SumSame
<1>5. QED
  BY <1>4 DEF Cost, f, g

LEMMA AccountsExchange ==
  ASSUME AccountsInv, ExchangeGrows, resolved' \subseteq Ticker,
         UNCHANGED <<lock, ticks, todo, cur, mem, dbVars>>,
         \/ pc' = pc
         \/ pc = "close" /\ pc' = "book"
  PROVE  AccountsInv'
<1>1. UNCHANGED <<lock, ticks, todo, cur, mem, orders, fills, decisions>>
  BY DEF dbVars
<1>2. DOMAIN exch' = DOMAIN exch
  BY DEF ExchangeGrows
<1>3. TypeOK'
  <2>1. pc' \in Stage
    BY DEF AccountsInv, TypeOK, Stage
  <2>2. /\ lock' \in BOOLEAN /\ ticks' \in 0..MaxTicks /\ todo' \subseteq Ticker \X Side
        /\ mem' \in Portfolio /\ DOMAIN orders' \subseteq OrderId
        /\ \A id \in DOMAIN orders' : orders'[id] \in
             [side: Side, count: Nat \ {0}, price: 0..100,
              status: {"submitted", "rejected", "canceled", "partial", "filled"}]
        /\ fills' \subseteq [id: OrderId, count: Nat \ {0}, price: 0..100]
        /\ decisions' \subseteq [tick: 1..MaxTicks, ticker: Ticker,
                                 action: RefuseReason \cup {"buy", "no_quote"}, size: Nat]
    BY <1>1 DEF AccountsInv, TypeOK
  <2>3. \/ cur' = NoOrder
        \/ /\ cur' \in [id: OrderId, side: Side, size: 1..MaxPerMarket,
                       attempts: 0..(PostAttempts - 1), polls: 0..PollBudget, best: Nat,
                       price: 0..100]
           /\ cur'.best <= cur'.size
    BY <1>1 DEF AccountsInv, TypeOK
  <2>4. /\ DOMAIN exch' \subseteq OrderId
        /\ \A id \in DOMAIN exch' : exch'[id] \in
             [side: Side, size: Nat \ {0}, costs: Seq(Costs), open: BOOLEAN]
    BY <1>2 DEF AccountsInv, TypeOK, ExchangeGrows
  <2>5. QED
    BY <2>1, <2>2, <2>3, <2>4 DEF TypeOK
<1>4. TicksPast'
  BY <1>1 DEF AccountsInv, TicksPast
<1>5. PicksFresh'
  BY <1>1 DEF AccountsInv, PicksFresh, ClientOrderId, Decided
<1>6. OrderInFlight'
  <2>1. /\ pc' \in InFlight <=> pc \in InFlight
        /\ pc' \in InFlight \ {"record"} <=> pc \in InFlight \ {"record"}
        /\ pc' = "record" <=> pc = "record"
    BY DEF InFlight
  <2>2. QED
    BY <1>1, <2>1 DEF AccountsInv, OrderInFlight, Decided
<1>7. \A id : Executed(id) \in Nat /\ Executed(id)' \in Nat /\ Executed(id) <= Executed(id)'
  <2>1. \A id : Executed(id) \in Nat
    BY ExecutedType DEF AccountsInv
  <2>2. \A id \in DOMAIN exch : Len(exch'[id].costs) \in Nat
    BY DEF ExchangeGrows
  <2>3. QED
    BY <1>2, <2>1, <2>2 DEF Executed, ExchangeGrows
<1>8. OrderAtExchange'
  <2>1. /\ pc' \in InFlight <=> pc \in InFlight
        /\ pc' \in {"poll", "close", "book"} <=> pc \in {"poll", "close", "book"}
        /\ pc' = "poll" => pc = "poll"
        /\ pc' = "post" => pc = "post"
    BY DEF InFlight
  <2>2. /\ pc \in {"poll", "close", "book"} => cur.id \in DOMAIN exch
        /\ pc \in InFlight => /\ cur.id \in DOMAIN exch => exch[cur.id].size = cur.size
                              /\ cur.best <= Executed(cur.id)
        /\ pc = "post" => cur.best = 0
        /\ pc = "poll" => cur.polls > 0
        /\ pc \in {"poll", "close", "book"} /\ cur.best > 0 => Priced(cur.id, cur.best, cur.price)
    BY DEF AccountsInv, OrderAtExchange
  <2>3. pc \in InFlight => cur.best \in Nat /\ cur.best <= Executed(cur.id)'
    <3>1. SUFFICES ASSUME pc \in InFlight PROVE cur.best \in Nat /\ cur.best <= Executed(cur.id)'
      OBVIOUS
    <3>2. cur.best \in Nat
      BY <3>1, InFlightType DEF AccountsInv
    <3>3. cur.best <= Executed(cur.id) /\ Executed(cur.id) \in Nat
          /\ Executed(cur.id) <= Executed(cur.id)'
      BY <1>1, <1>7, <2>2, <3>1 DEF Executed
    <3>4. Executed(cur.id)' \in Nat
      BY <1>1, <1>7 DEF Executed
    <3>5. QED
      BY <3>2, <3>3, <3>4
  <2>4. cur.id \in DOMAIN exch => exch'[cur.id].size = exch[cur.id].size
                                  /\ exch'[cur.id].side = exch[cur.id].side
    BY DEF ExchangeGrows
  <2>5. pc \in {"poll", "close", "book"} /\ cur.best > 0 => Priced(cur.id, cur.best, cur.price)'
    <3>1. SUFFICES ASSUME pc \in {"poll", "close", "book"}, cur.best > 0
                   PROVE  Priced(cur.id, cur.best, cur.price)'
      OBVIOUS
    <3>2. pc \in InFlight /\ TypeOK
      BY <3>1 DEF InFlight, AccountsInv
    <3>3. cur.id \in DOMAIN exch /\ cur.best \in Nat /\ cur.best <= Executed(cur.id)
      BY <2>2, <2>3, <3>1, <3>2
    <3>4. SumOf(exch'[cur.id].costs, 1..cur.best) = SumOf(exch[cur.id].costs, 1..cur.best)
      BY <3>2, <3>3, CostStays DEF Cost
    <3>5. Priced(cur.id, cur.best, cur.price)
      BY <2>2, <3>1
    <3>6. QED
      BY <1>1, <2>4, <3>3, <3>4, <3>5 DEF Priced, Cost
  <2>6. QED
    BY <1>1, <1>2, <2>1, <2>2, <2>3, <2>4, <2>5 DEF OrderAtExchange
<1>9. FillsHaveOrders' /\ NothingOverfilled'
  BY <1>1, <1>2 DEF AccountsInv, FillsHaveOrders, NothingOverfilled, ExchangeGrows
<1>10. IntentFirst'
  <2>1. \A id \in DOMAIN exch' : id \in DOMAIN orders' /\ orders'[id].side = exch'[id].side
    BY <1>1, <1>2 DEF AccountsInv, IntentFirst, ExchangeGrows
  <2>2. \A r \in fills' : r.count <= Executed(r.id)'
    <3>1. ASSUME NEW r \in fills PROVE r.count <= Executed(r.id)'
      <4>1. r.count \in Nat /\ r.count <= Executed(r.id)
        BY DEF AccountsInv, TypeOK, IntentFirst
      <4>2. /\ Executed(r.id) \in Nat /\ Executed(r.id)' \in Nat
            /\ Executed(r.id) <= Executed(r.id)'
        BY <1>7
      <4>3. QED
        BY <4>1, <4>2
    <3>2. QED
      BY <1>1, <3>1
  <2>3. \A r, s \in fills' : r.id = s.id => r = s
    BY <1>1 DEF AccountsInv, IntentFirst
  <2>4. QED
    BY <2>1, <2>2, <2>3 DEF IntentFirst
<1>11. StatusTells'
  BY <1>1 DEF AccountsInv, StatusTells
<1>12. FillsPriced'
  <2>1. ASSUME NEW r \in fills
        PROVE  \/ r.price = Cost(r.id, r.count)' \div r.count
               \/ FALSE \in PricedBySide
                  /\ r.price = IF exch'[r.id].side = "no" THEN 100 - Limit ELSE Limit
    <3>1. /\ r.id \in DOMAIN exch /\ r.count \in Nat /\ r.count <= Executed(r.id) /\ TypeOK
      BY DEF AccountsInv, FillsHaveOrders, TypeOK, IntentFirst
    <3>2. Cost(r.id, r.count)' = Cost(r.id, r.count)
      BY <3>1, CostStays
    <3>3. exch'[r.id].side = exch[r.id].side
      BY <3>1 DEF ExchangeGrows
    <3>4. QED
      BY <3>2, <3>3 DEF AccountsInv, FillsPriced
  <2>2. QED
    BY <1>1, <2>1 DEF FillsPriced
<1>13. QED
  BY <1>3, <1>4, <1>5, <1>6, <1>8, <1>9, <1>10, <1>11, <1>12 DEF AccountsInv

\* Contracts executed of an order follow those executed before.
LEMMA MatchGrows ==
  ASSUME AccountsInv, NEW id \in DOMAIN exch, NEW n \in 1..Requested, NEW cost \in Costs,
         Match(id, n, cost)
  PROVE  /\ ExchangeGrows
         /\ \A i \in DOMAIN exch \ {id} : exch'[i] = exch[i]
         /\ Executed(id)' = Executed(id) + n
<1> DEFINE more == [i \in 1..n |-> cost]
           row == exch[id]
           open == Executed(id) + n < exch[id].size
<1>1. \A i \in DOMAIN exch :
        /\ exch[i] \in [side: Side, size: Nat \ {0}, costs: Seq(Costs), open: BOOLEAN]
        /\ Len(exch[i].costs) <= exch[i].size
  BY DEF AccountsInv, TypeOK, NothingOverfilled
<1>2. n \in Nat
  BY RequestedInt
<1>3. more \in Seq(Costs) /\ Len(more) = n
  BY <1>2
<1>4. Executed(id) = Len(row.costs) /\ n <= row.size - Len(row.costs)
  BY DEF Executed, Match
<1>5. exch' = [exch EXCEPT ![id] = [row EXCEPT !.costs = @ \o more, !.open = open]]
  BY DEF Match
<1> HIDE DEF more, open
<1>6. /\ row.costs \o more \in Seq(Costs)
      /\ Len(row.costs \o more) = Len(row.costs) + n
      /\ \A i \in 1..Len(row.costs) : (row.costs \o more)[i] = row.costs[i]
  <2> DEFINE old == row.costs
  <2>1. old \in Seq(Costs)
    BY <1>1
  <2> HIDE DEF old
  <2>2. old \o more \in Seq(Costs) /\ Len(old \o more) = Len(old) + n
    BY <1>3, <2>1
  <2>3. \A i \in 1..Len(old) : (old \o more)[i] = old[i]
    BY <1>3, <2>1
  <2>4. QED
    BY <2>2, <2>3 DEF old
<1>7. open \in BOOLEAN
  BY DEF open
<1> HIDE DEF row
<1>8. row \in [side: Side, size: Nat \ {0}, costs: Seq(Costs), open: BOOLEAN]
  BY <1>1 DEF row
<1>9. /\ exch'[id] \in [side: Side, size: Nat \ {0}, costs: Seq(Costs), open: BOOLEAN]
      /\ exch'[id].side = row.side /\ exch'[id].size = row.size
      /\ exch'[id].costs = row.costs \o more
      /\ DOMAIN exch' = DOMAIN exch
      /\ \A i \in DOMAIN exch \ {id} : exch'[i] = exch[i]
  <2>1. /\ exch'[id] = [row EXCEPT !.costs = @ \o more, !.open = open]
        /\ DOMAIN exch' = DOMAIN exch
        /\ \A i \in DOMAIN exch \ {id} : exch'[i] = exch[i]
    BY <1>5
  <2>2. QED
    BY <1>6, <1>7, <1>8, <2>1
<1>10. ExchangeGrows
  <2>1. Len(row.costs) \in Nat /\ row.size \in Nat
    BY <1>8
  <2>2. /\ Len(row.costs) <= Len(exch'[id].costs) /\ Len(exch'[id].costs) <= row.size
        /\ \A i \in 1..Len(row.costs) : exch'[id].costs[i] = row.costs[i]
    BY <1>2, <1>4, <1>6, <1>9, <2>1
  <2>3. ASSUME NEW i \in DOMAIN exch
        PROVE  /\ exch'[i] \in [side: Side, size: Nat \ {0}, costs: Seq(Costs), open: BOOLEAN]
               /\ exch'[i].side = exch[i].side /\ exch'[i].size = exch[i].size
               /\ Len(exch[i].costs) <= Len(exch'[i].costs)
               /\ Len(exch'[i].costs) <= exch[i].size
               /\ \A j \in 1..Len(exch[i].costs) : exch'[i].costs[j] = exch[i].costs[j]
    <3>1. CASE i = id
      BY <1>9, <2>2, <3>1 DEF row
    <3>2. CASE i # id
      <4>1. exch'[i] = exch[i]
        BY <1>9, <3>2
      <4>2. Len(exch[i].costs) \in Nat
        BY <1>1
      <4>3. QED
        BY <1>1, <4>1, <4>2
    <3>3. QED
      BY <3>1, <3>2
  <2>4. QED
    BY <1>9, <2>3 DEF ExchangeGrows
<1>11. Executed(id)' = Executed(id) + n
  BY <1>4, <1>6, <1>9 DEF Executed
<1>12. QED
  BY <1>9, <1>10, <1>11

\* Closing an order keeps what it has executed.
LEMMA ClosedGrows ==
  ASSUME AccountsInv, DOMAIN exch' = DOMAIN exch,
         \A id \in DOMAIN exch : \/ exch'[id] = exch[id]
                                 \/ exch'[id] = [exch[id] EXCEPT !.open = FALSE]
  PROVE  /\ ExchangeGrows
         /\ \A id \in DOMAIN exch : exch'[id].costs = exch[id].costs
<1>1. ASSUME NEW id \in DOMAIN exch
      PROVE  /\ exch'[id] \in [side: Side, size: Nat \ {0}, costs: Seq(Costs), open: BOOLEAN]
             /\ exch'[id].side = exch[id].side /\ exch'[id].size = exch[id].size
             /\ exch'[id].costs = exch[id].costs
             /\ Len(exch[id].costs) <= exch[id].size /\ Len(exch[id].costs) \in Nat
  <2>1. exch[id] \in [side: Side, size: Nat \ {0}, costs: Seq(Costs), open: BOOLEAN]
        /\ Len(exch[id].costs) <= exch[id].size
    BY DEF AccountsInv, TypeOK, NothingOverfilled
  <2>2. CASE exch'[id] = exch[id]
    BY <2>1, <2>2
  <2>3. CASE exch'[id] = [exch[id] EXCEPT !.open = FALSE]
    <3> DEFINE row == exch[id]
    <3>1. row \in [side: Side, size: Nat \ {0}, costs: Seq(Costs), open: BOOLEAN]
          /\ exch'[id] = [row EXCEPT !.open = FALSE]
      BY <2>1, <2>3
    <3> HIDE DEF row
    <3>2. Len(row.costs) \in Nat
      BY <3>1
    <3>3. /\ exch'[id].side = row.side /\ exch'[id].size = row.size
          /\ exch'[id].costs = row.costs
      BY <3>1
    <3>4. exch'[id] \in [side: Side, size: Nat \ {0}, costs: Seq(Costs), open: BOOLEAN]
      BY <3>1
    <3>5. QED
      BY <2>1, <3>2, <3>3, <3>4 DEF row
  <2>4. QED
    BY <2>2, <2>3
<1>2. QED
  BY <1>1 DEF ExchangeGrows

LEMMA CloseGrows ==
  ASSUME AccountsInv, Close
  PROVE  ExchangeGrows /\ \A id \in DOMAIN exch : exch'[id].costs = exch[id].costs
<1>1. DOMAIN exch' = DOMAIN exch
  BY DEF Close
<1>2. \A id \in DOMAIN exch : \/ exch'[id] = exch[id]
                              \/ exch'[id] = [exch[id] EXCEPT !.open = FALSE]
  BY DEF Close
<1>3. QED
  BY <1>1, <1>2, ClosedGrows

LEMMA ResolveGrows ==
  ASSUME AccountsInv, NEW t \in Ticker, Resolve(t)
  PROVE  ExchangeGrows /\ \A id \in DOMAIN exch : exch'[id].costs = exch[id].costs
<1>1. DOMAIN exch' = DOMAIN exch
  BY DEF Resolve
<1>2. \A id \in DOMAIN exch : \/ exch'[id] = exch[id]
                              \/ exch'[id] = [exch[id] EXCEPT !.open = FALSE]
  BY DEF Resolve
<1>3. QED
  BY <1>1, <1>2, ClosedGrows

LEMMA AccountsClose ==
  ASSUME AccountsInv, Close
  PROVE  AccountsInv'
<1>1. /\ pc = "close" /\ pc' = "book"
      /\ UNCHANGED <<lock, ticks, todo, cur, mem, dbVars, resolved>>
  BY DEF Close
<1>2. resolved' \subseteq Ticker
  BY <1>1 DEF AccountsInv, TypeOK
<1>3. QED
  BY <1>1, <1>2, CloseGrows, AccountsExchange

LEMMA AccountsMatch ==
  ASSUME AccountsInv, NEW id \in DOMAIN exch, NEW n \in 1..Requested, NEW cost \in Costs,
         Match(id, n, cost)
  PROVE  AccountsInv'
<1>1. UNCHANGED <<lock, pc, ticks, todo, cur, mem, dbVars, resolved>>
  BY DEF Match, tickVars
<1>2. resolved' \subseteq Ticker
  BY <1>1 DEF AccountsInv, TypeOK
<1>3. QED
  BY <1>1, <1>2, MatchGrows, AccountsExchange

LEMMA AccountsResolve ==
  ASSUME AccountsInv, NEW t \in Ticker, Resolve(t)
  PROVE  AccountsInv'
<1>1. UNCHANGED <<lock, pc, ticks, todo, cur, mem, dbVars>>
  BY DEF Resolve, tickVars
<1>2. resolved' \subseteq Ticker
  BY DEF Resolve, AccountsInv, TypeOK
<1>3. QED
  BY <1>1, <1>2, ResolveGrows, AccountsExchange

\* The row of the fill that BookFill inserts.
NewFill == [id |-> cur.id, count |-> cur.best, price |-> cur.price]

LEMMA AccountsBookFill ==
  ASSUME AccountsInv, BookFill
  PROVE  AccountsInv'
<1>1. /\ pc = "book" /\ cur.best > 0 /\ pc' = "record" /\ fills' = fills \cup {NewFill}
      /\ UNCHANGED <<lock, ticks, todo, cur, mem, decisions, exch, resolved>>
  BY DEF BookFill, NewFill
<1>2. TypeOK /\ OrderInFlight /\ pc \in InFlight /\ pc' \in InFlight
  BY <1>1 DEF AccountsInv, InFlight
<1>3. /\ cur \in [id: OrderId, side: Side, size: 1..MaxPerMarket,
                attempts: 0..(PostAttempts - 1), polls: 0..PollBudget, best: Nat, price: 0..100]
      /\ cur.best <= cur.size
  BY <1>2, InFlightType
<1>4. /\ cur.id \in DOMAIN orders /\ cur.id[1] = ticks /\ ~Decided(cur.id)
      /\ orders[cur.id].side = cur.side
      /\ \A k \in todo : k[1] # cur.id[2]
      /\ \A r \in fills : r.id # cur.id
      /\ cur # NoOrder
  BY <1>1, <1>2 DEF OrderInFlight, InFlight
<1>5. /\ cur.id \in DOMAIN exch /\ cur.best <= Executed(cur.id)
      /\ Priced(cur.id, cur.best, cur.price)
      /\ exch[cur.id].size = cur.size
  BY <1>1, <1>2 DEF AccountsInv, OrderAtExchange
<1>6. /\ NewFill \in [id: OrderId, count: Nat \ {0}, price: 0..100]
      /\ NewFill.id = cur.id /\ NewFill.count = cur.best /\ NewFill.price = cur.price
  BY <1>1, <1>3 DEF NewFill
<1> DEFINE status == IF cur.best = cur.size THEN "filled" ELSE "partial"
<1>7. status \in Booked
  BY DEF Booked
<1>8. orders' = [orders EXCEPT ![cur.id] =
                   [orders[cur.id] EXCEPT !.count = cur.best, !.price = cur.price,
                                          !.status = status]]
  BY DEF BookFill
<1> HIDE DEF status
<1>9. /\ DOMAIN orders' = DOMAIN orders
      /\ \A id \in DOMAIN orders \ {cur.id} : orders'[id] = orders[id]
      /\ orders'[cur.id] = [orders[cur.id] EXCEPT !.count = cur.best, !.price = cur.price,
                                                  !.status = status]
  BY <1>4, <1>8
<1>10. /\ orders'[cur.id] \in
            [side: Side, count: Nat \ {0}, price: 0..100,
             status: {"submitted", "rejected", "canceled", "partial", "filled"}]
       /\ orders'[cur.id].side = orders[cur.id].side
       /\ orders'[cur.id].count = cur.best /\ orders'[cur.id].price = cur.price
       /\ orders'[cur.id].status \in Booked
  <2>1. orders[cur.id] \in
            [side: Side, count: Nat \ {0}, price: 0..100,
             status: {"submitted", "rejected", "canceled", "partial", "filled"}]
    BY <1>4 DEF AccountsInv, TypeOK
  <2>2. status \in {"submitted", "rejected", "canceled", "partial", "filled"}
    BY DEF status
  <2>3. cur.best \in Nat \ {0} /\ cur.price \in 0..100
    BY <1>1, <1>3
  <2>4. QED
    BY <1>7, <1>9, <2>1, <2>2, <2>3
<1>11. TypeOK'
  <2>1. /\ lock' \in BOOLEAN /\ ticks' \in 0..MaxTicks /\ todo' \subseteq Ticker \X Side
        /\ mem' \in Portfolio /\ pc' \in Stage /\ resolved' \subseteq Ticker
        /\ decisions' \subseteq [tick: 1..MaxTicks, ticker: Ticker,
                                 action: RefuseReason \cup {"buy", "no_quote"}, size: Nat]
        /\ DOMAIN exch' \subseteq OrderId
        /\ \A id \in DOMAIN exch' : exch'[id] \in
             [side: Side, size: Nat \ {0}, costs: Seq(Costs), open: BOOLEAN]
    BY <1>1 DEF AccountsInv, TypeOK, Stage
  <2>2. fills' \subseteq [id: OrderId, count: Nat \ {0}, price: 0..100]
    BY <1>1, <1>6 DEF AccountsInv, TypeOK
  <2>3. /\ DOMAIN orders' \subseteq OrderId
        /\ \A id \in DOMAIN orders' : orders'[id] \in
             [side: Side, count: Nat \ {0}, price: 0..100,
              status: {"submitted", "rejected", "canceled", "partial", "filled"}]
    BY <1>9, <1>10 DEF AccountsInv, TypeOK
  <2>4. /\ cur' \in [id: OrderId, side: Side, size: 1..MaxPerMarket,
                    attempts: 0..(PostAttempts - 1), polls: 0..PollBudget, best: Nat,
                    price: 0..100]
        /\ cur'.best <= cur'.size
    BY <1>1, <1>3
  <2>5. QED
    BY <2>1, <2>2, <2>3, <2>4 DEF TypeOK
<1>12. TicksPast'
  BY <1>1, <1>9 DEF AccountsInv, TicksPast
<1>13. PicksFresh'
  BY <1>1, <1>9 DEF AccountsInv, PicksFresh, ClientOrderId, Decided
<1>14. OrderInFlight'
  BY <1>1, <1>2, <1>4, <1>6, <1>9, <1>10 DEF OrderInFlight, Decided
<1>15. OrderAtExchange'
  BY <1>1, <1>2, <1>5 DEF OrderAtExchange, Executed
<1>16. FillsHaveOrders' /\ NothingOverfilled'
  BY <1>1, <1>4, <1>5, <1>6, <1>9, <1>10 DEF AccountsInv, FillsHaveOrders, NothingOverfilled
<1>17. IntentFirst'
  <2>1. \A id \in DOMAIN exch' : id \in DOMAIN orders' /\ orders'[id].side = exch'[id].side
    <3>1. \A id \in DOMAIN exch : id \in DOMAIN orders /\ orders[id].side = exch[id].side
      BY DEF AccountsInv, IntentFirst
    <3>2. \A id \in DOMAIN orders : orders'[id].side = orders[id].side
      BY <1>9, <1>10
    <3>3. QED
      BY <1>1, <1>9, <3>1, <3>2
  <2>2. \A r \in fills' : r.count <= Executed(r.id)'
    BY <1>1, <1>5, <1>6 DEF AccountsInv, IntentFirst, Executed
  <2>3. \A r, s \in fills' : r.id = s.id => r = s
    BY <1>1, <1>4, <1>6 DEF AccountsInv, IntentFirst
  <2>4. QED
    BY <2>1, <2>2, <2>3 DEF IntentFirst
<1>18. StatusTells'
  <2>1. ASSUME NEW id \in DOMAIN orders'
        PROVE  orders'[id].status \in {"partial", "filled"}
                 <=> \E r \in fills' : r.id = id /\ r.count = orders'[id].count
                                        /\ r.price = orders'[id].price
    <3>1. CASE id = cur.id
      BY <1>1, <1>6, <1>10, <3>1 DEF Booked
    <3>2. CASE id # cur.id
      BY <1>1, <1>6, <1>9, <3>2 DEF AccountsInv, StatusTells
    <3>3. QED
      BY <3>1, <3>2
  <2>2. ASSUME NEW d \in decisions
        PROVE  IF d.action = "buy"
               THEN \E r \in fills' : r.id = <<d.tick, d.ticker>> /\ r.count = d.size
               ELSE \A r \in fills' : r.id # <<d.tick, d.ticker>>
    <3>1. IF d.action = "buy"
          THEN \E r \in fills : r.id = <<d.tick, d.ticker>> /\ r.count = d.size
          ELSE \A r \in fills : r.id # <<d.tick, d.ticker>>
      BY DEF AccountsInv, StatusTells
    <3>2. cur.id # <<d.tick, d.ticker>>
      BY <1>4 DEF Decided
    <3>3. QED
      BY <1>1, <1>6, <3>1, <3>2
  <2>3. QED
    BY <1>1, <2>1, <2>2 DEF StatusTells
<1>19. FillsPriced'
  <2>1. \A r \in fills : Priced(r.id, r.count, r.price)
    BY DEF AccountsInv, FillsPriced, Priced
  <2>2. \A r \in fills' : Priced(r.id, r.count, r.price)
    BY <1>1, <1>5, <1>6, <2>1
  <2>3. QED
    BY <1>1, <2>2 DEF FillsPriced, Priced, Cost
<1>20. QED
  BY <1>11, <1>12, <1>13, <1>14, <1>15, <1>16, <1>17, <1>18, <1>19 DEF AccountsInv

LEMMA AccountsStutter ==
  ASSUME AccountsInv, UNCHANGED vars
  PROVE  AccountsInv'
<1>1. UNCHANGED <<lock, pc, ticks, todo, cur, mem, dbVars, exch, resolved>>
  BY DEF vars, tickVars
<1>2. resolved' \subseteq Ticker
  BY <1>1 DEF AccountsInv, TypeOK
<1>3. ExchangeGrows
  <2>1. DOMAIN exch' = DOMAIN exch /\ \A id \in DOMAIN exch : exch'[id] = exch[id]
    BY <1>1
  <2>2. QED
    BY <2>1, ClosedGrows
<1>4. QED
  BY <1>1, <1>2, <1>3, AccountsExchange

LEMMA AccountsNext == AccountsInv /\ [Next]_vars => AccountsInv'
<1> SUFFICES ASSUME AccountsInv, [Next]_vars PROVE AccountsInv'
  OBVIOUS
<1>1. CASE TickStep
  <2>1. CASE StartTick \/ Reconcile \/ ReconcileBlind \/ Load \/ EndTick \/ Abort
    BY <2>1, AccountsTick
  <2>2. CASE ScanSome
    BY <2>2, AccountsScan DEF ScanSome
  <2>3. CASE \E k \in todo : RouteSkip(k) \/ Submit(k)
    BY <2>3, AccountsRouteSkip, AccountsSubmit
  <2>4. CASE PostAnswered \/ PostNoId \/ PostFails \/ PostRetries \/ BookNothing
    BY <2>4, AccountsPost
  <2>5. CASE PollSome
    BY <2>5, AccountsPoll
  <2>6. CASE Close
    BY <2>6, AccountsClose
  <2>7. CASE BookFill
    BY <2>7, AccountsBookFill
  <2>8. CASE RecordFill \/ RecordSkip
    BY <2>8, AccountsRecord
  <2>9. QED
    BY <1>1, <2>1, <2>2, <2>3, <2>4, <2>5, <2>6, <2>7, <2>8 DEF TickStep
<1>2. CASE \E id \in DOMAIN exch, n \in 1..Requested, cost \in Costs : Match(id, n, cost)
  BY <1>2, AccountsMatch
<1>3. CASE \E t \in Ticker : Resolve(t)
  BY <1>3, AccountsResolve
<1>4. CASE Kill \/ Unkill
  BY <1>4, AccountsTick
<1>5. CASE UNCHANGED vars
  BY <1>5, AccountsStutter
<1>6. QED
  BY <1>1, <1>2, <1>3, <1>4, <1>5 DEF Next

LEMMA AccountsAlways == Spec => []AccountsInv
  BY AccountsInit, AccountsNext, PTL DEF Spec

\* Every variable of run_tick, of its tables and of the exchange keeps its type.
THEOREM TypeCorrect == Spec => []TypeOK
<1>1. AccountsInv => TypeOK
  BY DEF AccountsInv
<1>2. QED
  BY <1>1, AccountsAlways, PTL

\* taker_buy commits the intent before it calls the exchange and books a fill
\* once, whatever answer, poll or cancel is lost and wherever the tick ends.
THEOREM IntentAlwaysFirst == Spec => []IntentFirst
<1>1. AccountsInv => IntentFirst
  BY DEF AccountsInv
<1>2. QED
  BY <1>1, AccountsAlways, PTL

\* The orders, fills and decisions tables always tell the same story.
THEOREM StatusAlwaysTells == Spec => []StatusTells
<1>1. AccountsInv => StatusTells
  BY DEF AccountsInv
<1>2. QED
  BY <1>1, AccountsAlways, PTL

\* A fill keeps the price that _await_fill averaged, however much the exchange
\* executes after the poll that saw it.
THEOREM FillsAlwaysPriced == Spec => []FillsPriced
<1>1. AccountsInv => FillsPriced
  BY DEF AccountsInv
<1>2. QED
  BY <1>1, AccountsAlways, PTL

-----------------------------------------------------------------------------
\* The contracts of an order by its side, for every order there can be.
Yes == [id \in OrderId |->
          IF id \in DOMAIN exch /\ exch[id].side = "yes" THEN Executed(id) ELSE 0]
No == [id \in OrderId |->
         IF id \in DOMAIN exch /\ exch[id].side = "yes" THEN 0 ELSE Executed(id)]
Bought == [id \in OrderId |-> Executed(id)]

IdsIn(markets) == {id \in OrderId : id[2] \in markets}

\* A sum over all that is not zero is the sum.
LEMMA SumSupport ==
  ASSUME NEW f, NEW g, NEW S, NEW T, S \subseteq T,
         \A x \in S : f[x] = g[x], \A x \in T \ S : g[x] = 0
  PROVE  SumOf(f, S) = SumOf(g, T)
<1>1. ASSUME NEW u PROVE u \in Units(f, S) <=> u \in Units(g, T)
  <2>1. u \in Units(f, S) <=> \E x \in S : \E i \in 1..f[x] : u = <<x, i>>
    BY UnitsElement
  <2>2. u \in Units(g, T) <=> \E x \in T : \E i \in 1..g[x] : u = <<x, i>>
    BY UnitsElement
  <2>3. \A x \in T : 1..g[x] # {} => x \in S
    OBVIOUS
  <2>4. QED
    BY <2>1, <2>2, <2>3
<1>2. Units(f, S) = Units(g, T)
  BY <1>1
<1>3. QED
  BY <1>2 DEF SumOf

\* The summand of one element grows.
LEMMA SumGrows ==
  ASSUME NEW f, NEW g, NEW S, IsFiniteSet(S), NatOn(f, S), NatOn(g, S), NEW a, NEW n \in Nat,
         \A x \in S : g[x] = IF x = a THEN f[x] + n ELSE f[x]
  PROVE  SumOf(g, S) = SumOf(f, S) + IF a \in S THEN n ELSE 0
<1>1. SumOf(f, S) \in Nat
  BY SumType
<1>2. CASE a \in S
  <2>1. g[a] = f[a] + n /\ f[a] \in Nat
    BY <1>2 DEF NatOn
  <2>2. \A x \in S \ {a} : f[x] = g[x]
    OBVIOUS
  <2>3. SumOf(g, S) = SumOf(f, S) - f[a] + g[a]
    BY ONLY <1>2, <2>2, SumUpdate, IsFiniteSet(S), NatOn(f, S), NatOn(g, S)
  <2>4. QED
    BY <1>1, <1>2, <2>1, <2>3
<1>3. CASE a \notin S
  <2>1. \A x \in S : g[x] = f[x]
    BY <1>3
  <2>2. SumOf(g, S) = SumOf(f, S)
    BY <2>1, SumSame
  <2>3. QED
    BY <1>1, <1>3, <2>2
<1>4. QED
  BY <1>2, <1>3

LEMMA LedgerType ==
  ASSUME TypeOK, NEW S \in SUBSET OrderId
  PROVE  /\ IsFiniteSet(S) /\ NatOn(Yes, S) /\ NatOn(No, S) /\ NatOn(Bought, S)
         /\ SumOf(Yes, S) \in Nat /\ SumOf(No, S) \in Nat /\ SumOf(Bought, S) \in Nat
<1>1. IsFiniteSet(S)
  BY OrderIdFinite
<1>2. NatOn(Yes, S) /\ NatOn(No, S) /\ NatOn(Bought, S)
  BY ExecutedType DEF NatOn, Yes, No, Bought
<1>3. QED
  BY <1>1, <1>2, SumType

\* The position of a market, and what is executed in some, over those orders.
LEMMA PositionLedger ==
  ASSUME TypeOK, NEW t \in Ticker
  PROVE  Position(t) = IF t \in resolved THEN 0
                       ELSE SumOf(Yes, IdsIn({t})) - SumOf(No, IdsIn({t}))
<1> DEFINE long == {id \in OrdersIn(t) : exch[id].side = "yes"}
           short == OrdersIn(t) \ long
<1>1. OrdersIn(t) \subseteq IdsIn({t}) /\ IdsIn({t}) \subseteq OrderId
  BY DEF TypeOK, OrdersIn, IdsIn
<1>2. ExecutedOf(long) = SumOf(Yes, IdsIn({t}))
  <2>1. \A id \in long : [i \in long |-> Executed(i)][id] = Yes[id]
    BY <1>1 DEF Yes, OrdersIn
  <2>2. \A id \in IdsIn({t}) \ long : Yes[id] = 0
    BY <1>1 DEF Yes, OrdersIn, IdsIn
  <2>3. long \subseteq IdsIn({t})
    BY <1>1
  <2> HIDE DEF long
  <2>4. QED
    BY <2>1, <2>2, <2>3, SumSupport DEF ExecutedOf
<1>3. ExecutedOf(short) = SumOf(No, IdsIn({t}))
  <2>1. \A id \in short : [i \in short |-> Executed(i)][id] = No[id]
    BY <1>1 DEF No, OrdersIn
  <2>2. \A id \in IdsIn({t}) \ short : No[id] = 0
    BY <1>1 DEF No, OrdersIn, IdsIn, Executed
  <2>3. short \subseteq IdsIn({t})
    BY <1>1
  <2> HIDE DEF short
  <2>4. QED
    BY <2>1, <2>2, <2>3, SumSupport DEF ExecutedOf
<1>4. QED
  BY <1>2, <1>3 DEF Position

PositionIsLedger ==
  \A t \in Ticker : Position(t) = IF t \in resolved THEN 0
                                  ELSE SumOf(Yes, IdsIn({t})) - SumOf(No, IdsIn({t}))

LEMMA PositionsLedger ==
  ASSUME TypeOK
  PROVE  PositionIsLedger
  BY PositionLedger DEF PositionIsLedger

LEMMA ExecutedLedger ==
  ASSUME TypeOK, NEW markets
  PROVE  ExecutedOf({id \in DOMAIN exch : id[2] \in markets}) = SumOf(Bought, IdsIn(markets))
<1> DEFINE S == {id \in DOMAIN exch : id[2] \in markets}
<1>1. S \subseteq IdsIn(markets)
  BY DEF TypeOK, IdsIn
<1>2. \A id \in S : [i \in S |-> Executed(i)][id] = Bought[id]
  BY <1>1 DEF Bought, IdsIn
<1>3. \A id \in IdsIn(markets) \ S : Bought[id] = 0
  BY DEF Bought, IdsIn, Executed
<1> HIDE DEF S
<1>4. ExecutedOf(S) = SumOf(Bought, IdsIn(markets))
  BY <1>1, <1>2, <1>3, SumSupport DEF ExecutedOf
<1>5. QED
  BY <1>4 DEF S

\* What the fills table has of some markets was executed.
LEMMA RecordedExecuted ==
  ASSUME AccountsInv, NEW markets
  PROVE  /\ IsFiniteSet({r \in fills : r.id[2] \in markets})
         /\ Contracts({r \in fills : r.id[2] \in markets}) \in Nat
         /\ Unrecorded(markets) \in Nat
         /\ Unrecorded(markets) =
              SumOf(Bought, IdsIn(markets)) - Contracts({r \in fills : r.id[2] \in markets})
<1> DEFINE rows == {r \in fills : r.id[2] \in markets}
           S == IdsIn(markets)
           h == [r \in rows |-> r.id]
           f == [r \in rows |-> r.count]
<1>1. TypeOK /\ S \in SUBSET OrderId
  BY DEF AccountsInv, IdsIn
<1>2. \A r \in rows : r.id \in S /\ r.count \in Nat /\ r.count <= Executed(r.id)
  BY DEF AccountsInv, TypeOK, IntentFirst, IdsIn
<1>3. \A r, s \in rows : r.id = s.id => r = s
  BY DEF AccountsInv, IntentFirst
<1>4. \A id \in S : Bought[id] = Executed(id)
  BY DEF Bought, IdsIn
<1> HIDE DEF rows, S
<1>5. h \in [rows -> S] /\ NatOn(f, rows)
  BY <1>2 DEF NatOn
<1>6. /\ \A r, s \in rows : h[r] = h[s] => r = s
      /\ \A r \in rows : f[r] <= Bought[h[r]]
  BY <1>2, <1>3, <1>4
<1>7. IsFiniteSet(S) /\ NatOn(Bought, S) /\ SumOf(Bought, S) \in Nat
  BY <1>1, LedgerType
<1> HIDE DEF h, f
<1>8. IsFiniteSet(rows) /\ SumOf(f, rows) <= SumOf(Bought, S)
  BY <1>5, <1>6, <1>7, SumInjection
<1>9. Contracts(rows) = SumOf(f, rows) /\ Contracts(rows) \in Nat
  BY <1>2, <1>8, ContractsType DEF Contracts, f
<1>10. Unrecorded(markets) = SumOf(Bought, S) - Contracts(rows)
  BY <1>1, ExecutedLedger DEF Unrecorded, S, rows
<1>11. QED
  BY <1>7, <1>8, <1>9, <1>10 DEF S, rows

\* A market with its orders on one side, and not settled, is held at the exchange
\* as it was executed, which is no less than the fills table has.
LEMMA OneSided ==
  ASSUME AccountsInv, NEW t \in Ticker, t \notin resolved,
         \A i, j \in OrdersIn(t) : exch[i].side = exch[j].side
  PROVE  /\ Gross(Position(t)) = Recorded(t) + Unrecorded({t})
         /\ Recorded(t) \in Nat /\ Unrecorded({t}) \in Nat
<1> DEFINE long == {id \in OrdersIn(t) : exch[id].side = "yes"}
<1>1. TypeOK
  BY DEF AccountsInv
<1>2. long \in SUBSET OrderId /\ OrdersIn(t) \ long \in SUBSET OrderId
  BY <1>1 DEF TypeOK, OrdersIn
<1>3. ExecutedOf(long) \in Nat /\ ExecutedOf(OrdersIn(t) \ long) \in Nat
  BY <1>1, <1>2, ExecutedOfType
<1>4. ExecutedOf({}) = 0
  BY SumEmpty DEF ExecutedOf
<1>5. long = {} \/ long = OrdersIn(t)
  OBVIOUS
<1>6. Position(t) = ExecutedOf(long) - ExecutedOf(OrdersIn(t) \ long)
  BY DEF Position
<1>7. Gross(Position(t)) = ExecutedOf(OrdersIn(t))
  <2>1. CASE long = {}
    <3>1. OrdersIn(t) \ long = OrdersIn(t)
      BY <2>1
    <3>2. Position(t) = 0 - ExecutedOf(OrdersIn(t)) /\ ExecutedOf(OrdersIn(t)) \in Nat
      BY <1>3, <1>4, <1>6, <2>1, <3>1
    <3>3. QED
      BY <3>2 DEF Gross
  <2>2. CASE long = OrdersIn(t)
    <3>1. OrdersIn(t) \ long = {}
      BY <2>2
    <3>2. ExecutedOf(OrdersIn(t)) \in Nat /\ ExecutedOf(OrdersIn(t) \ long) = 0
      BY <1>3, <1>4, <2>2, <3>1
    <3>3. Position(t) = ExecutedOf(OrdersIn(t)) - 0
      BY <1>6, <2>2, <3>2
    <3>4. QED
      BY <3>2, <3>3 DEF Gross
  <2>3. QED
    BY <1>5, <2>1, <2>2
<1>8. /\ OrdersIn(t) = {id \in DOMAIN exch : id[2] \in {t}}
      /\ {r \in fills : r.id[2] = t} = {r \in fills : r.id[2] \in {t}}
  BY DEF OrdersIn
<1>9. Unrecorded({t}) = ExecutedOf(OrdersIn(t)) - Recorded(t)
  BY <1>8 DEF Unrecorded, Recorded
<1>10. Unrecorded({t}) \in Nat /\ Recorded(t) \in Nat
  BY <1>8, RecordedExecuted DEF Recorded
<1>11. ExecutedOf(OrdersIn(t)) \in Nat
  BY <1>1, <1>8, ExecutedOfType DEF TypeOK
<1>12. QED
  BY <1>7, <1>9, <1>10, <1>11

\* Reconciliation stops trading only for a reason that its operator could act
\* on, or because a market it holds was settled.
THEOREM DriftAlwaysHasCause == Spec => []DriftHasCause
<1>1. AccountsInv => DriftHasCause
  <2>1. SUFFICES ASSUME AccountsInv, NEW t \in Drifted, t \notin resolved,
                        \A i, j \in OrdersIn(t) : exch[i].side = exch[j].side
                 PROVE  Unrecorded({t}) > 0
    BY DEF DriftHasCause
  <2>2. t \in Ticker /\ Recorded(t) # Gross(Position(t))
    BY DEF Drifted
  <2>3. /\ Gross(Position(t)) = Recorded(t) + Unrecorded({t})
        /\ Recorded(t) \in Nat /\ Unrecorded({t}) \in Nat
    BY <2>1, <2>2, OneSided
  <2>4. QED
    BY <2>2, <2>3
<1>2. QED
  BY <1>1, AccountsAlways, PTL

-----------------------------------------------------------------------------
\* The caps.  What the exchange holds of each market, and the markets of a gate.
Net == [t \in Ticker |-> Gross(Position(t))]

MarketsOf(g) ==
  IF g[1] = "market" THEN {g[2]}
  ELSE IF g[1] = "event" THEN {t \in Ticker : EventOf[t] = g[2]} ELSE Ticker

\* Executed contracts without a fills row, at a gate.
Missed(g) == Unrecorded(MarketsOf(g))

\* What is held at a gate beyond what the tick's portfolio has is executed
\* without a fills row, or is the fill the tick has yet to account for.
CapInv ==
  \A g \in Gate :
    /\ Held(LivePortfolio, g) <= Cap(g) + Missed(g)
    /\ pc \in {"route"} \cup InFlight =>
         Held(LivePortfolio, g) <=
           Held(mem, g) + Missed(g)
             + IF pc = "record" /\ g \in GatesOf(cur.id[2]) THEN cur.best ELSE 0
    /\ pc \in {"post", "poll", "close", "book"} /\ g \in GatesOf(cur.id[2]) =>
         Held(mem, g) + cur.size <= Cap(g)

LEMMA GateMarkets ==
  /\ \A g \in Gate : MarketsOf(g) \subseteq Ticker
  /\ \A g \in Gate, t \in Ticker : g \in GatesOf(t) <=> t \in MarketsOf(g)
<1>1. \A t \in Ticker : MarketsOf(<<"market", t>>) = {t}
  BY DEF MarketsOf
<1>2. \A e \in Event : MarketsOf(<<"event", e>>) = {t \in Ticker : EventOf[t] = e}
  BY DEF MarketsOf
<1>3. MarketsOf(TotalGate) = Ticker
  BY DEF MarketsOf, TotalGate
<1>4. \A g \in Gate : MarketsOf(g) \subseteq Ticker
  BY <1>1, <1>2, <1>3 DEF Gate
<1>5. ASSUME NEW g \in Gate, NEW t \in Ticker PROVE g \in GatesOf(t) <=> t \in MarketsOf(g)
  <2>1. CASE g \in {"market"} \X Ticker
    <3>1. PICK u \in Ticker : g = <<"market", u>>
      BY <2>1
    <3>2. QED
      BY <1>1, <3>1 DEF GatesOf, TotalGate
  <2>2. CASE g \in {"event"} \X Event
    <3>1. PICK e \in Event : g = <<"event", e>>
      BY <2>2
    <3>2. QED
      BY <1>2, <3>1 DEF GatesOf, TotalGate
  <2>3. CASE g = TotalGate
    BY <1>3, <2>3 DEF GatesOf
  <2>4. QED
    BY <2>1, <2>2, <2>3 DEF Gate
<1>6. QED
  BY <1>4, <1>5

LEMMA NetType ==
  ASSUME TypeOK, NEW S \in SUBSET Ticker
  PROVE  IsFiniteSet(S) /\ NatOn(Net, S) /\ SumOf(Net, S) \in Nat
<1>1. IsFiniteSet(S)
  BY FiniteAssumption, FS_Subset
<1>2. NatOn(Net, S)
  BY PositionType DEF NatOn, Net
<1>3. QED
  BY <1>1, <1>2, SumType

HeldIsNet ==
  \A g \in Gate : /\ Held(LivePortfolio, g) = SumOf(Net, MarketsOf(g))
                  /\ Held(LivePortfolio, g) \in Nat

LEMMA HeldLive ==
  ASSUME TypeOK
  PROVE  HeldIsNet
<1>1. /\ LivePortfolio.perTicker = Net
      /\ LivePortfolio.perEvent =
           [e \in Event |-> SumOf(Net, {t \in Ticker : EventOf[t] = e})]
      /\ LivePortfolio.total = SumOf(Net, Ticker)
  BY DEF LivePortfolio, Net
<1>2. ASSUME NEW g \in Gate
      PROVE  Held(LivePortfolio, g) = SumOf(Net, MarketsOf(g))
  <2>1. CASE g \in {"market"} \X Ticker
    <3>1. PICK t \in Ticker : g = <<"market", t>>
      BY <2>1
    <3>2. Net[t] \in Nat
      BY PositionType DEF Net
    <3>3. SumOf(Net, {t}) = Net[t]
      BY <3>2, SumSingle
    <3>4. QED
      BY <1>1, <3>1, <3>3 DEF Held, MarketsOf
  <2>2. CASE g \in {"event"} \X Event
    <3>1. PICK e \in Event : g = <<"event", e>>
      BY <2>2
    <3>2. QED
      BY <1>1, <3>1 DEF Held, MarketsOf
  <2>3. CASE g = TotalGate
    BY <1>1, <2>3 DEF Held, MarketsOf, TotalGate
  <2>4. QED
    BY <2>1, <2>2, <2>3 DEF Gate
<1>3. QED
  BY <1>2, LivePortfolioType DEF HeldIsNet

\* The fills rows of a gate's markets.
RowsOf(g) == {r \in fills : r.id[2] \in MarketsOf(g)}

MissedIsRest ==
  \A g \in Gate :
    /\ Missed(g) \in Nat /\ Contracts(RowsOf(g)) \in Nat
    /\ SumOf(Bought, IdsIn(MarketsOf(g))) \in Nat
    /\ Missed(g) = SumOf(Bought, IdsIn(MarketsOf(g))) - Contracts(RowsOf(g))

LEMMA MissedType ==
  ASSUME AccountsInv
  PROVE  MissedIsRest
<1>1. TypeOK
  BY DEF AccountsInv
<1>2. ASSUME NEW g \in Gate
      PROVE  /\ Missed(g) \in Nat /\ Contracts(RowsOf(g)) \in Nat
             /\ Missed(g) = SumOf(Bought, IdsIn(MarketsOf(g))) - Contracts(RowsOf(g))
  BY RecordedExecuted DEF Missed, RowsOf
<1>3. \A g \in Gate : SumOf(Bought, IdsIn(MarketsOf(g))) \in Nat
  BY <1>1, LedgerType DEF IdsIn
<1>4. QED
  BY <1>2, <1>3 DEF MissedIsRest

\* A step in which order a executes n contracts more, on its side.
Executes(a, n) ==
  \/ \A id \in OrderId : /\ Yes'[id] = IF id = a THEN Yes[id] + n ELSE Yes[id]
                         /\ No'[id] = No[id]
  \/ \A id \in OrderId : /\ No'[id] = IF id = a THEN No[id] + n ELSE No[id]
                         /\ Yes'[id] = Yes[id]

LEMMA NetMoves ==
  ASSUME TypeOK, TypeOK', NEW a, NEW n \in Nat, n = 0 \/ a \in OrderId,
         Executes(a, n), resolved \subseteq resolved', NEW t \in Ticker
  PROVE  Net'[t] <= IF t = a[2] THEN Net[t] + n ELSE Net[t]
<1> DEFINE S == IdsIn({t})
           d == IF a \in S THEN n ELSE 0
           y == SumOf(Yes, S)
           s == SumOf(No, S)
           y1 == SumOf(Yes', S)
           s1 == SumOf(No', S)
<1>1. S \in SUBSET OrderId
  BY DEF IdsIn
<1>2. IsFiniteSet(S) /\ NatOn(Yes, S) /\ NatOn(No, S) /\ y \in Nat /\ s \in Nat
  BY <1>1, LedgerType
<1>3. NatOn(Yes', S) /\ NatOn(No', S)
  <2>1. (\A id : Executed(id) \in Nat)'
    BY ExecutedType, PTL
  <2>2. QED
    BY <1>1, <2>1 DEF NatOn, Yes, No
<1>4. /\ Position(t) = IF t \in resolved THEN 0 ELSE y - s
      /\ Position(t)' = IF t \in resolved' THEN 0 ELSE y1 - s1
  <2>1. PositionIsLedger /\ PositionIsLedger'
    BY PositionsLedger, PTL
  <2>2. Position(t) = IF t \in resolved THEN 0 ELSE y - s
    BY <2>1 DEF PositionIsLedger
  <2>3. Position(t)' = IF t \in resolved' THEN 0 ELSE y1 - s1
    BY <2>1 DEF PositionIsLedger
  <2>4. QED
    BY <2>2, <2>3
<1>5. n \in Nat /\ d \in Nat
  OBVIOUS
<1> HIDE DEF S, d
<1>6. \/ y1 = y + d /\ s1 = s
      \/ y1 = y /\ s1 = s + d
  <2>1. CASE \A id \in OrderId : /\ Yes'[id] = IF id = a THEN Yes[id] + n ELSE Yes[id]
                                 /\ No'[id] = No[id]
    <3>1. SumOf(Yes', S) = SumOf(Yes, S) + IF a \in S THEN n ELSE 0
      <4>1. \A id \in S : Yes'[id] = IF id = a THEN Yes[id] + n ELSE Yes[id]
        BY <1>1, <2>1
      <4>2. QED
        BY <1>2, <1>3, <4>1, SumGrows
    <3>2. SumOf(No', S) = SumOf(No, S)
      BY <1>1, <2>1, SumSame
    <3>3. QED
      BY <3>1, <3>2 DEF d
  <2>2. CASE \A id \in OrderId : /\ No'[id] = IF id = a THEN No[id] + n ELSE No[id]
                                 /\ Yes'[id] = Yes[id]
    <3>1. SumOf(No', S) = SumOf(No, S) + IF a \in S THEN n ELSE 0
      <4>1. \A id \in S : No'[id] = IF id = a THEN No[id] + n ELSE No[id]
        BY <1>1, <2>2
      <4>2. QED
        BY <1>2, <1>3, <4>1, SumGrows
    <3>2. SumOf(Yes', S) = SumOf(Yes, S)
      BY <1>1, <2>2, SumSame
    <3>3. QED
      BY <3>1, <3>2 DEF d
  <2>3. QED
    BY <2>1, <2>2 DEF Executes
<1> HIDE DEF y, s, y1, s1
<1>7. Gross(Position(t))' <= Gross(Position(t)) + d
  <2>1. Position(t)' = 0 \/ (Position(t)' = y1 - s1 /\ Position(t) = y - s)
    BY <1>4
  <2>2. Position(t) \in Int /\ Gross(Position(t)) \in Nat
    BY PositionType
  <2>3. Gross(Position(t))' = IF Position(t)' < 0 THEN -Position(t)' ELSE Position(t)'
    BY DEF Gross
  <2>4. Gross(Position(t)) = IF Position(t) < 0 THEN -Position(t) ELSE Position(t)
    BY DEF Gross
  <2>5. CASE Position(t)' = 0
    BY <1>5, <2>2, <2>3, <2>5
  <2>6. CASE Position(t)' = y1 - s1 /\ Position(t) = y - s
    BY <1>2, <1>5, <1>6, <2>3, <2>4, <2>6
  <2>7. QED
    BY <2>1, <2>5, <2>6
<1>8. d = IF t = a[2] THEN n ELSE 0
  BY DEF d, S, IdsIn
<1>9. Net[t] = Gross(Position(t)) /\ Net'[t] = Gross(Position(t))' /\ Net[t] \in Nat
  BY PositionType DEF Net
<1>10. QED
  BY <1>7, <1>8, <1>9

LEMMA HeldMoves ==
  ASSUME TypeOK, TypeOK', NEW a, NEW n \in Nat, n = 0 \/ a \in OrderId,
         Executes(a, n), resolved \subseteq resolved', NEW g \in Gate
  PROVE  /\ Held(LivePortfolio, g) \in Nat /\ Held(LivePortfolio, g)' \in Nat
         /\ Held(LivePortfolio, g)' <=
              Held(LivePortfolio, g) + IF a[2] \in MarketsOf(g) THEN n ELSE 0
<1> DEFINE M == MarketsOf(g)
           m == a[2]
           h == [t \in Ticker |-> IF t = m THEN Net[t] + n ELSE Net[t]]
<1>1. M \in SUBSET Ticker
  BY GateMarkets
<1>2. HeldIsNet /\ HeldIsNet'
  BY HeldLive, PTL
<1>3. IsFiniteSet(M) /\ NatOn(Net, M) /\ SumOf(Net, M) \in Nat
  BY <1>1, NetType
<1>4. ASSUME NEW t \in Ticker PROVE Net'[t] \in Nat /\ Net'[t] <= h[t] /\ h[t] \in Nat
  <2>1. (\A u : Gross(Position(u)) \in Nat)'
    BY PositionsType, PTL
  <2>2. Net'[t] \in Nat /\ Net[t] \in Nat
    BY <2>1, PositionType DEF Net
  <2>3. QED
    BY <2>2, NetMoves
<1>5. NatOn(Net', M) /\ NatOn(h, M)
  BY <1>1, <1>4 DEF NatOn
<1>6. \A t \in M : h[t] = IF t = m THEN Net[t] + n ELSE Net[t]
  BY <1>1
<1>7. \A t \in M : Net'[t] <= h[t]
  BY <1>1, <1>4
<1> HIDE DEF M, m, h
<1>8. SumOf(Net', M) <= SumOf(h, M)
  BY <1>3, <1>5, <1>7, SumMonotone
<1>9. SumOf(h, M) = SumOf(Net, M) + IF m \in M THEN n ELSE 0
  BY <1>3, <1>5, <1>6, SumGrows
<1>10. /\ Held(LivePortfolio, g) = SumOf(Net, M) /\ Held(LivePortfolio, g) \in Nat
       /\ Held(LivePortfolio, g)' = SumOf(Net', M) /\ Held(LivePortfolio, g)' \in Nat
  BY <1>2 DEF HeldIsNet, M
<1>11. QED
  BY <1>8, <1>9, <1>10 DEF M, m

LEMMA MissedMoves ==
  ASSUME AccountsInv, AccountsInv', NEW a, NEW n \in Nat, n = 0 \/ a \in OrderId,
         Executes(a, n), fills' = fills, NEW g \in Gate
  PROVE  /\ Missed(g) \in Nat /\ Missed(g)' \in Nat
         /\ Missed(g)' = Missed(g) + IF a[2] \in MarketsOf(g) THEN n ELSE 0
<1> DEFINE S == IdsIn(MarketsOf(g))
<1>1. TypeOK /\ TypeOK' /\ S \in SUBSET OrderId
  BY DEF AccountsInv, IdsIn
<1>2. MissedIsRest /\ MissedIsRest'
  BY MissedType, PTL
<1>3. RowsOf(g)' = RowsOf(g)
  BY DEF RowsOf
<1>4. (\A id : Executed(id) \in Nat) /\ (\A id : Executed(id) \in Nat)'
  BY <1>1, ExecutedType, PTL
<1>5. \A id \in OrderId : /\ Bought[id] = Yes[id] + No[id] /\ Bought'[id] = Yes'[id] + No'[id]
                          /\ Yes[id] \in Nat /\ No[id] \in Nat
                          /\ Yes'[id] \in Nat /\ No'[id] \in Nat
  BY <1>4 DEF Bought, Yes, No
<1>6. \A id \in OrderId : Bought'[id] = IF id = a THEN Bought[id] + n ELSE Bought[id]
  BY <1>5 DEF Executes
<1>7. a \in S <=> a \in OrderId /\ a[2] \in MarketsOf(g)
  BY DEF IdsIn
<1> HIDE DEF S
<1>8. IsFiniteSet(S) /\ NatOn(Bought, S) /\ NatOn(Bought', S)
  BY <1>1, <1>5, LedgerType DEF NatOn
<1>9. \A id \in S : Bought'[id] = IF id = a THEN Bought[id] + n ELSE Bought[id]
  BY <1>1, <1>6
<1>10. SumOf(Bought', S) = SumOf(Bought, S) + IF a \in S THEN n ELSE 0
  BY <1>8, <1>9, SumGrows
<1>11. /\ Missed(g) \in Nat /\ Missed(g)' \in Nat /\ Contracts(RowsOf(g)) \in Nat
       /\ SumOf(Bought, S) \in Nat
       /\ Missed(g) = SumOf(Bought, S) - Contracts(RowsOf(g))
       /\ Missed(g)' = SumOf(Bought', S) - Contracts(RowsOf(g))
  BY <1>2, <1>3 DEF MissedIsRest, S
<1>12. QED
  BY <1>7, <1>10, <1>11

\* A step after which no order has executed more.
LEMMA LedgerStays ==
  ASSUME TypeOK, \A id : Executed(id)' = Executed(id),
         \A id \in DOMAIN exch : id \in DOMAIN exch' /\ exch'[id].side = exch[id].side,
         NEW a
  PROVE  Executes(a, 0)
<1>1. \A id : Executed(id) \in Nat /\ (id \notin DOMAIN exch => Executed(id) = 0)
  BY ExecutedType DEF Executed
<1>2. \A id \in OrderId : /\ Yes'[id] = Yes[id] /\ No'[id] = No[id]
                          /\ Yes[id] \in Nat /\ No[id] \in Nat
  BY <1>1 DEF Yes, No
<1>3. QED
  BY <1>2 DEF Executes

-----------------------------------------------------------------------------
\* The caps stay: first the steps that book nothing and give the tick no other
\* portfolio, whatever the exchange executes beside them.
LEMMA CapKeep ==
  ASSUME AccountsInv, AccountsInv', CapInv, NEW a, NEW n \in Nat, n = 0 \/ a \in OrderId,
         Executes(a, n), resolved \subseteq resolved', fills' = fills,
         pc' \in {"route"} \cup InFlight =>
           /\ pc \in {"route"} \cup InFlight /\ mem' = mem
           /\ pc' = "record" <=> pc = "record"
           /\ pc = "record" => cur' = cur,
         pc' \in {"post", "poll", "close", "book"} =>
           /\ pc \in {"post", "poll", "close", "book"} /\ mem' = mem
           /\ cur'.id = cur.id /\ cur'.size = cur.size
  PROVE  CapInv'
<1> DEFINE d(g) == IF a[2] \in MarketsOf(g) THEN n ELSE 0
<1>1. TypeOK /\ TypeOK' /\ mem \in Portfolio
  BY DEF AccountsInv, TypeOK
<1>2. ASSUME NEW g \in Gate
      PROVE  /\ Held(LivePortfolio, g) \in Nat /\ Held(LivePortfolio, g)' \in Nat
             /\ Missed(g) \in Nat /\ Missed(g)' \in Nat
             /\ Held(LivePortfolio, g)' <= Held(LivePortfolio, g) + d(g)
             /\ Missed(g)' = Missed(g) + d(g) /\ d(g) \in Nat
  BY <1>1, HeldMoves, MissedMoves
<1> HIDE DEF d
<1>3. \A g \in Gate : Cap(g) \in Nat /\ Held(mem, g) \in Int
  BY <1>1, GateTypes
<1>4. ASSUME NEW g \in Gate
      PROVE  Held(LivePortfolio, g)' <= Cap(g) + Missed(g)'
  <2>1. Held(LivePortfolio, g) <= Cap(g) + Missed(g)
    BY DEF CapInv
  <2>2. QED
    BY <1>2, <1>3, <2>1
<1>5. ASSUME NEW g \in Gate, pc' \in {"route"} \cup InFlight
      PROVE  Held(LivePortfolio, g)' <=
               Held(mem', g) + Missed(g)'
                 + IF pc' = "record" /\ g \in GatesOf(cur'.id[2]) THEN cur'.best ELSE 0
  <2>1. pc \in {"route"} \cup InFlight /\ mem' = mem
    BY <1>5
  <2> DEFINE booked == IF pc = "record" /\ g \in GatesOf(cur.id[2]) THEN cur.best ELSE 0
  <2>2. booked = IF pc' = "record" /\ g \in GatesOf(cur'.id[2]) THEN cur'.best ELSE 0
    BY <1>5
  <2>3. booked \in Nat
    BY <1>1, InFlightType DEF AccountsInv, InFlight
  <2>4. Held(LivePortfolio, g) <= Held(mem, g) + Missed(g) + booked
    BY <2>1 DEF CapInv
  <2> HIDE DEF booked
  <2>5. Held(LivePortfolio, g)' <= Held(mem, g) + Missed(g)' + booked
    BY <1>2, <1>3, <2>3, <2>4
  <2>6. QED
    BY <2>1, <2>2, <2>5
<1>6. ASSUME NEW g \in Gate, pc' \in {"post", "poll", "close", "book"}, g \in GatesOf(cur'.id[2])
      PROVE  Held(mem', g) + cur'.size <= Cap(g)
  BY <1>6 DEF CapInv
<1>7. QED
  BY <1>4, <1>5, <1>6 DEF CapInv

LEMMA CapStays ==
  ASSUME AccountsInv, AccountsInv', CapInv,
         \A id : Executed(id)' = Executed(id),
         \A id \in DOMAIN exch : id \in DOMAIN exch' /\ exch'[id].side = exch[id].side,
         resolved \subseteq resolved', fills' = fills,
         pc' \in {"route"} \cup InFlight =>
           /\ pc \in {"route"} \cup InFlight /\ mem' = mem
           /\ pc' = "record" <=> pc = "record"
           /\ pc = "record" => cur' = cur,
         pc' \in {"post", "poll", "close", "book"} =>
           /\ pc \in {"post", "poll", "close", "book"} /\ mem' = mem
           /\ cur'.id = cur.id /\ cur'.size = cur.size
  PROVE  CapInv'
<1>1. Executes(<<0, 0>>, 0)
  BY LedgerStays DEF AccountsInv
<1>2. 0 \in Nat
  OBVIOUS
<1>3. QED
  BY <1>1, <1>2, CapKeep

\* Steps that leave the exchange alone.
LEMMA CapQuiet ==
  ASSUME AccountsInv, AccountsInv', CapInv,
         \/ StartTick \/ ScanSome \/ Reconcile \/ ReconcileBlind
         \/ Load /\ todo = {}
         \/ \E k \in todo : RouteSkip(k)
         \/ PollSome \/ BookNothing \/ RecordSkip \/ EndTick \/ Abort
         \/ Kill \/ Unkill \/ UNCHANGED vars
  PROVE  CapInv'
<1>1. exch' = exch /\ fills' = fills /\ resolved' = resolved
  <2>1. CASE StartTick \/ ScanSome \/ Reconcile \/ ReconcileBlind \/ Load
    BY <2>1 DEF StartTick, ScanSome, Scan, Reconcile, ReconcileBlind, Load, dbVars
  <2>2. CASE (\E k \in todo : RouteSkip(k)) \/ PollSome \/ BookNothing \/ RecordSkip
    BY <2>2 DEF RouteSkip, PollSome, Poll, BookNothing, RecordSkip, dbVars
  <2>3. CASE EndTick \/ Abort \/ Kill \/ Unkill \/ UNCHANGED vars
    BY <2>3 DEF EndTick, Abort, Kill, Unkill, vars, dbVars
  <2>4. QED
    BY <2>1, <2>2, <2>3
<1>2. \A id : Executed(id)' = Executed(id)
  BY <1>1 DEF Executed
<1>3. /\ pc' \in {"route"} \cup InFlight =>
           /\ pc \in {"route"} \cup InFlight /\ mem' = mem
           /\ pc' = "record" <=> pc = "record"
           /\ pc = "record" => cur' = cur
      /\ pc' \in {"post", "poll", "close", "book"} =>
           /\ pc \in {"post", "poll", "close", "book"} /\ mem' = mem
           /\ cur'.id = cur.id /\ cur'.size = cur.size
  <2>1. CASE \/ StartTick \/ ScanSome \/ Reconcile \/ ReconcileBlind
             \/ Load /\ todo = {}
    BY <2>1 DEF StartTick, ScanSome, Scan, Reconcile, ReconcileBlind, Load, Leave, InFlight
  <2>2. CASE (\E k \in todo : RouteSkip(k)) \/ RecordSkip
    BY <2>2 DEF RouteSkip, RecordSkip, Advance, InFlight
  <2>3. CASE BookNothing
    BY <2>3 DEF BookNothing, InFlight
  <2>4. CASE PollSome
    <3>1. PICK seen, price : Poll(seen, price)
      BY <2>4 DEF PollSome
    <3>2. /\ pc = "poll" /\ pc' \in {"poll", "close"} /\ mem' = mem
          /\ cur' = [cur EXCEPT !.polls = @ - 1, !.best = IF seen > 0 THEN seen ELSE @,
                                !.price = IF seen > 0 THEN price ELSE @]
      BY <3>1 DEF Poll
    <3>3. cur'.id = cur.id /\ cur'.size = cur.size
      <4>1. TypeOK /\ OrderInFlight /\ pc \in InFlight
        BY <3>2 DEF AccountsInv, InFlight
      <4>2. cur \in [id: OrderId, side: Side, size: 1..MaxPerMarket,
                     attempts: 0..(PostAttempts - 1), polls: 0..PollBudget, best: Nat,
                     price: 0..100]
        BY <4>1, InFlightType
      <4>3. QED
        BY <3>2, <4>2
    <3>4. QED
      BY <3>2, <3>3 DEF InFlight
  <2>5. CASE EndTick \/ Abort
    BY <2>5 DEF EndTick, Abort, Leave, InFlight
  <2>6. CASE Kill \/ Unkill \/ UNCHANGED vars
    BY <2>6 DEF Kill, Unkill, vars, tickVars
  <2>7. QED
    BY <2>1, <2>2, <2>3, <2>4, <2>5, <2>6
<1>4. QED
  BY <1>1, <1>2, <1>3, CapStays

\* An order reaches the exchange with nothing executed.
LEMMA CapPost ==
  ASSUME AccountsInv, AccountsInv', CapInv,
         PostAnswered \/ PostNoId \/ PostFails \/ PostRetries
  PROVE  CapInv'
<1>1. /\ pc = "post" /\ (Reach \/ UNCHANGED exch)
      /\ fills' = fills /\ resolved' = resolved /\ mem' = mem
      /\ pc' \in {"post", "poll", "skip"}
  BY DEF PostAnswered, PostNoId, PostFails, PostRetries, dbVars
<1>2. cur'.id = cur.id /\ cur'.size = cur.size
  <2>1. TypeOK /\ OrderInFlight /\ pc \in InFlight
    BY <1>1 DEF AccountsInv, InFlight
  <2>2. cur \in [id: OrderId, side: Side, size: 1..MaxPerMarket,
                 attempts: 0..(PostAttempts - 1), polls: 0..PollBudget, best: Nat,
                 price: 0..100]
    BY <2>1, InFlightType
  <2>3. \/ cur' = cur \/ cur' = [cur EXCEPT !.polls = PollBudget]
        \/ cur' = [cur EXCEPT !.attempts = @ + 1]
    BY DEF PostAnswered, PostNoId, PostFails, PostRetries
  <2>4. QED
    BY <2>2, <2>3
<1>3. /\ \A id : Executed(id)' = Executed(id)
      /\ \A id \in DOMAIN exch : id \in DOMAIN exch' /\ exch'[id].side = exch[id].side
  BY <1>1, ReachKeeps
<1>4. /\ pc' \in {"route"} \cup InFlight =>
           /\ pc \in {"route"} \cup InFlight /\ mem' = mem
           /\ pc' = "record" <=> pc = "record"
           /\ pc = "record" => cur' = cur
      /\ pc' \in {"post", "poll", "close", "book"} =>
           /\ pc \in {"post", "poll", "close", "book"} /\ mem' = mem
           /\ cur'.id = cur.id /\ cur'.size = cur.size
  BY <1>1, <1>2 DEF InFlight
<1>5. QED
  BY <1>1, <1>3, <1>4, CapStays

\* Closing orders executes nothing; a settled market is held no longer.
LEMMA CapClose ==
  ASSUME AccountsInv, AccountsInv', CapInv, Close \/ \E t \in Ticker : Resolve(t)
  PROVE  CapInv'
<1>1. /\ resolved \subseteq resolved' /\ fills' = fills
      /\ UNCHANGED <<mem, cur>>
      /\ \/ pc' = pc
         \/ pc = "close" /\ pc' = "book"
  BY DEF Close, Resolve, tickVars, dbVars
<1>2. ExchangeGrows /\ \A id \in DOMAIN exch : exch'[id].costs = exch[id].costs
  BY CloseGrows, ResolveGrows
<1>3. /\ \A id : Executed(id)' = Executed(id)
      /\ \A id \in DOMAIN exch : id \in DOMAIN exch' /\ exch'[id].side = exch[id].side
  BY <1>2 DEF ExchangeGrows, Executed
<1>4. /\ pc' \in {"route"} \cup InFlight =>
           /\ pc \in {"route"} \cup InFlight /\ mem' = mem
           /\ pc' = "record" <=> pc = "record"
           /\ pc = "record" => cur' = cur
      /\ pc' \in {"post", "poll", "close", "book"} =>
           /\ pc \in {"post", "poll", "close", "book"} /\ mem' = mem
           /\ cur'.id = cur.id /\ cur'.size = cur.size
  BY <1>1 DEF InFlight
<1>5. QED
  BY <1>1, <1>3, <1>4, CapStays

\* What the exchange executes has no fills row yet.
LEMMA CapMatch ==
  ASSUME AccountsInv, AccountsInv', CapInv,
         NEW id \in DOMAIN exch, NEW n \in 1..Requested, NEW cost \in Costs, Match(id, n, cost)
  PROVE  CapInv'
<1>1. /\ UNCHANGED <<pc, cur, mem, fills, resolved>>
  BY DEF Match, tickVars, dbVars
<1>2. n \in Nat /\ id \in OrderId
  BY RequestedInt DEF AccountsInv, TypeOK
<1>3. /\ ExchangeGrows /\ Executed(id)' = Executed(id) + n
      /\ \A i \in DOMAIN exch \ {id} : exch'[i] = exch[i]
  BY MatchGrows
<1>4. \A i : i # id => Executed(i)' = Executed(i)
  BY <1>3 DEF Executed, ExchangeGrows
<1>5. \A i : Executed(i) \in Nat
  BY ExecutedType DEF AccountsInv
<1>6. DOMAIN exch' = DOMAIN exch /\ \A i \in DOMAIN exch : exch'[i].side = exch[i].side
  BY <1>3 DEF ExchangeGrows
<1>7. Executes(id, n)
  <2>1. CASE exch[id].side = "yes"
    <3>1. \A i \in OrderId : /\ Yes'[i] = IF i = id THEN Yes[i] + n ELSE Yes[i]
                             /\ No'[i] = No[i]
      BY <1>3, <1>4, <1>6, <2>1 DEF Yes, No
    <3>2. QED
      BY <3>1 DEF Executes
  <2>2. CASE exch[id].side # "yes"
    <3>1. \A i \in OrderId : /\ No'[i] = IF i = id THEN No[i] + n ELSE No[i]
                             /\ Yes'[i] = Yes[i]
      BY <1>3, <1>4, <1>6, <2>2 DEF Yes, No
    <3>2. QED
      BY <3>1 DEF Executes
  <2>3. QED
    BY <2>1, <2>2
<1>8. QED
  BY <1>1, <1>2, <1>7, CapKeep

\* The portfolio that the tick gates on was the account when it was loaded.
LEMMA CapLoad ==
  ASSUME AccountsInv, AccountsInv', CapInv, Load, todo # {}
  PROVE  CapInv'
<1>1. /\ mem' = LivePortfolio /\ pc' = "route"
      /\ UNCHANGED <<exch, fills, resolved>>
  BY DEF Load, dbVars
<1>2. \A g \in Gate : /\ Held(LivePortfolio, g)' = Held(LivePortfolio, g)
                      /\ Missed(g)' = Missed(g)
  <2>1. LivePortfolio' = LivePortfolio
    BY <1>1 DEF LivePortfolio, Position, OrdersIn, ExecutedOf, Executed
  <2>2. \A g \in Gate : Missed(g)' = Missed(g)
    BY <1>1 DEF Missed, Unrecorded, ExecutedOf, Executed
  <2>3. QED
    BY <2>1, <2>2 DEF Held
<1>3. \A g \in Gate : Held(LivePortfolio, g) \in Nat /\ Missed(g) \in Nat
  BY HeldLive, MissedType DEF AccountsInv, HeldIsNet, MissedIsRest
<1>4. \A g \in Gate : Held(mem', g) = Held(LivePortfolio, g)
  BY <1>1
<1>5. \A g \in Gate : Held(LivePortfolio, g) <= Cap(g) + Missed(g)
  BY DEF CapInv
<1>6. \A g \in Gate : Held(LivePortfolio, g)' <= Held(mem', g) + Missed(g)' + 0
  BY <1>2, <1>3, <1>4
<1>7. QED
  BY <1>1, <1>2, <1>5, <1>6 DEF CapInv, InFlight

\* An order is as large as the room at its gates.
LEMMA CapSubmit ==
  ASSUME AccountsInv, AccountsInv', CapInv, NEW k \in todo, Submit(k)
  PROVE  CapInv'
<1> DEFINE n == ApproveOrder(k[1], Requested, mem).size
<1>1. /\ pc = "route" /\ pc' = "post" /\ n # 0
      /\ cur' = [NoOrder EXCEPT !.id = ClientOrderId(k[1]), !.side = k[2], !.size = n,
                                !.price = Limit]
      /\ UNCHANGED <<mem, exch, fills, resolved>>
  BY DEF Submit
<1>2. k[1] \in Ticker /\ mem \in Portfolio
  BY PickType DEF AccountsInv, TypeOK
<1>3. \A g \in GatesOf(k[1]) : Held(mem, g) + n <= Cap(g)
  BY <1>1, <1>2, ApprovedFits
<1> HIDE DEF n
<1>4. cur'.id = ClientOrderId(k[1]) /\ cur'.size = n
  BY <1>1 DEF NoOrder
<1>5. cur'.id[2] = k[1]
  BY <1>4 DEF ClientOrderId
<1>6. \A g \in Gate : /\ Held(LivePortfolio, g)' = Held(LivePortfolio, g)
                      /\ Missed(g)' = Missed(g)
  <2>1. LivePortfolio' = LivePortfolio
    BY <1>1 DEF LivePortfolio, Position, OrdersIn, ExecutedOf, Executed
  <2>2. \A g \in Gate : Missed(g)' = Missed(g)
    BY <1>1 DEF Missed, Unrecorded, ExecutedOf, Executed
  <2>3. QED
    BY <2>1, <2>2 DEF Held
<1>7. \A g \in Gate : /\ Held(LivePortfolio, g) <= Cap(g) + Missed(g)
                      /\ Held(LivePortfolio, g) <= Held(mem, g) + Missed(g) + 0
  BY <1>1 DEF CapInv
<1>8. QED
  BY <1>1, <1>3, <1>4, <1>5, <1>6, <1>7 DEF CapInv

\* A fill that is booked is one contract less without a fills row for each that
\* it counts, at the gates of its market.
LEMMA MissedBooked ==
  ASSUME AccountsInv, AccountsInv', BookFill, NEW g \in Gate
  PROVE  /\ Missed(g) \in Nat /\ Missed(g)' \in Nat /\ cur.best \in Nat
         /\ Missed(g)' = Missed(g) - IF g \in GatesOf(cur.id[2]) THEN cur.best ELSE 0
<1>1. /\ pc = "book" /\ fills' = fills \cup {NewFill} /\ exch' = exch
  BY DEF BookFill, NewFill
<1>2. pc \in InFlight /\ TypeOK /\ OrderInFlight
  BY <1>1 DEF InFlight, AccountsInv
<1>3. cur.id[2] \in Ticker /\ cur.best \in Nat
  BY <1>2, InFlightType
<1>4. NewFill.id = cur.id /\ NewFill.count = cur.best
  BY DEF NewFill
<1>5. \A r \in fills : r.id # cur.id
  BY <1>1 DEF AccountsInv, OrderInFlight, InFlight
<1>6. MissedIsRest /\ MissedIsRest'
  BY MissedType, PTL
<1>7. SumOf(Bought, IdsIn(MarketsOf(g)))' = SumOf(Bought, IdsIn(MarketsOf(g)))
  BY <1>1 DEF Bought, Executed
<1>8. Contracts(RowsOf(g))' =
        Contracts(RowsOf(g)) + IF cur.id[2] \in MarketsOf(g) THEN cur.best ELSE 0
  <2> DEFINE rows == RowsOf(g)
  <2>1. IsFiniteSet(rows) /\ \A r \in rows : r.count \in Nat
    BY RecordedExecuted DEF RowsOf, AccountsInv, TypeOK
  <2>2. Contracts(rows) \in Nat
    BY <1>6 DEF MissedIsRest
  <2>3. CASE cur.id[2] \in MarketsOf(g)
    <3>1. RowsOf(g)' = rows \cup {NewFill} /\ NewFill \notin rows
      BY <1>1, <1>4, <1>5, <2>3 DEF RowsOf
    <3> HIDE DEF rows
    <3>2. Contracts(rows \cup {NewFill}) = Contracts(rows) + NewFill.count
      BY <1>3, <1>4, <2>1, <3>1, ContractsAdd
    <3>3. Contracts(RowsOf(g))' = Contracts(rows \cup {NewFill})
      BY <3>1 DEF Contracts
    <3>4. QED
      BY <1>4, <2>3, <3>2, <3>3 DEF rows
  <2>4. CASE cur.id[2] \notin MarketsOf(g)
    <3>1. RowsOf(g)' = rows
      BY <1>1, <1>4, <2>4 DEF RowsOf
    <3>2. QED
      BY <2>2, <2>4, <3>1 DEF Contracts
  <2>5. QED
    BY <2>3, <2>4
<1>9. g \in GatesOf(cur.id[2]) <=> cur.id[2] \in MarketsOf(g)
  BY <1>3, GateMarkets
<1>10. /\ Missed(g) \in Nat /\ Missed(g)' \in Nat
       /\ SumOf(Bought, IdsIn(MarketsOf(g))) \in Nat /\ Contracts(RowsOf(g)) \in Nat
       /\ Missed(g) = SumOf(Bought, IdsIn(MarketsOf(g))) - Contracts(RowsOf(g))
       /\ Missed(g)' = SumOf(Bought, IdsIn(MarketsOf(g)))' - Contracts(RowsOf(g))'
  BY <1>6 DEF MissedIsRest
<1>11. QED
  BY <1>3, <1>7, <1>8, <1>9, <1>10

LEMMA CapBook ==
  ASSUME AccountsInv, AccountsInv', CapInv, BookFill
  PROVE  CapInv'
<1>1. /\ pc = "book" /\ pc' = "record"
      /\ UNCHANGED <<mem, cur, exch, resolved>>
  BY DEF BookFill
<1>2. pc \in InFlight /\ TypeOK /\ OrderInFlight
  BY <1>1 DEF InFlight, AccountsInv
<1>3. cur.best \in Nat /\ cur.best <= cur.size /\ cur.size \in Nat /\ mem \in Portfolio
  BY <1>2, InFlightType, CapsAssumption DEF TypeOK
<1>4. HeldIsNet
  BY <1>2, HeldLive
<1>5. ASSUME NEW g \in Gate
      PROVE  /\ Held(LivePortfolio, g)' <= Cap(g) + Missed(g)'
             /\ Held(LivePortfolio, g)' <=
                  Held(mem, g) + Missed(g)'
                    + IF g \in GatesOf(cur.id[2]) THEN cur.best ELSE 0
  <2> DEFINE d == IF g \in GatesOf(cur.id[2]) THEN cur.best ELSE 0
  <2>1. LivePortfolio' = LivePortfolio
    BY <1>1 DEF LivePortfolio, Position, OrdersIn, ExecutedOf, Executed
  <2>2. Held(LivePortfolio, g)' = Held(LivePortfolio, g) /\ Held(LivePortfolio, g) \in Nat
    BY <1>4, <2>1 DEF HeldIsNet, Held
  <2>3. Missed(g) \in Nat /\ Missed(g)' = Missed(g) - d
    BY MissedBooked
  <2>4. Cap(g) \in Nat /\ Held(mem, g) \in Int /\ d \in Nat
    BY <1>3, GateTypes
  <2>5. /\ Held(LivePortfolio, g) <= Cap(g) + Missed(g)
        /\ Held(LivePortfolio, g) <= Held(mem, g) + Missed(g) + 0
        /\ g \in GatesOf(cur.id[2]) => Held(mem, g) + cur.size <= Cap(g)
    BY <1>1 DEF CapInv, InFlight
  <2>6. Held(LivePortfolio, g) <= Cap(g) + Missed(g) - d
    <3>1. CASE g \in GatesOf(cur.id[2])
      BY <1>3, <2>2, <2>3, <2>4, <2>5, <3>1
    <3>2. CASE g \notin GatesOf(cur.id[2])
      BY <2>2, <2>3, <2>4, <2>5, <3>2
    <3>3. QED
      BY <3>1, <3>2
  <2> HIDE DEF d
  <2>7. /\ Held(LivePortfolio, g)' <= Cap(g) + Missed(g)'
        /\ Held(LivePortfolio, g)' <= Held(mem, g) + Missed(g)' + d
    BY <2>2, <2>3, <2>4, <2>5, <2>6
  <2>8. QED
    BY <2>7 DEF d
<1>6. QED
  BY <1>1, <1>5 DEF CapInv

\* The tick's portfolio takes the fill that was booked.
LEMMA CapRecord ==
  ASSUME AccountsInv, AccountsInv', CapInv, RecordFill
  PROVE  CapInv'
<1>1. /\ pc = "record" /\ pc' \in {"settle", "route"} /\ mem' = ApplyFill(mem, cur.id[2], cur.best)
      /\ UNCHANGED <<exch, fills, resolved>>
  BY DEF RecordFill, Advance
<1>2. pc \in InFlight /\ TypeOK /\ OrderInFlight
  BY <1>1 DEF InFlight, AccountsInv
<1>3. cur.best \in Nat /\ cur.id[2] \in Ticker /\ mem \in Portfolio
  BY <1>2, InFlightType DEF TypeOK
<1>4. ASSUME NEW g \in Gate
      PROVE  /\ Held(LivePortfolio, g)' <= Cap(g) + Missed(g)'
             /\ Held(LivePortfolio, g)' <= Held(mem', g) + Missed(g)' + 0
  <2>1. LivePortfolio' = LivePortfolio /\ Missed(g)' = Missed(g)
    BY <1>1 DEF LivePortfolio, Position, OrdersIn, ExecutedOf, Executed, Missed, Unrecorded
  <2>2. Held(LivePortfolio, g)' = Held(LivePortfolio, g)
    BY <2>1 DEF Held
  <2>3. Held(mem', g) = IF g \in GatesOf(cur.id[2]) THEN Held(mem, g) + cur.best
                        ELSE Held(mem, g)
    BY <1>1, <1>3, WithHeld DEF ApplyFill
  <2>4. /\ Held(LivePortfolio, g) <= Cap(g) + Missed(g)
        /\ Held(LivePortfolio, g) <=
             Held(mem, g) + Missed(g) + IF g \in GatesOf(cur.id[2]) THEN cur.best ELSE 0
    BY <1>1, <1>2 DEF CapInv
  <2>5. Held(mem, g) \in Int /\ Missed(g) \in Nat
    BY <1>3, GateTypes, MissedType DEF MissedIsRest
  <2>6. QED
    BY <1>3, <2>1, <2>2, <2>3, <2>4, <2>5
<1>5. QED
  BY <1>1, <1>4 DEF CapInv, InFlight

LEMMA CapInit == Init => CapInv
<1> SUFFICES ASSUME Init PROVE CapInv
  OBVIOUS
<1>1. AccountsInv /\ TypeOK
  BY AccountsInit DEF AccountsInv
<1>2. \A t \in Ticker : Net[t] = 0
  <2>1. ASSUME NEW t \in Ticker PROVE Net[t] = 0
    <3>1. OrdersIn(t) = {}
      BY DEF Init, OrdersIn
    <3>2. ExecutedOf({}) = 0
      BY SumEmpty DEF ExecutedOf
    <3>3. Position(t) = 0
      BY <3>1, <3>2 DEF Position
    <3>4. QED
      BY <3>3 DEF Net, Gross
  <2>2. QED
    BY <2>1
<1>3. ASSUME NEW g \in Gate PROVE Held(LivePortfolio, g) <= Cap(g) + Missed(g)
  <2> DEFINE M == MarketsOf(g)
             none == [t \in {} |-> 0]
  <2>1. M \subseteq Ticker
    BY GateMarkets
  <2>2. SumOf(none, {}) = SumOf(Net, M)
    BY <1>2, <2>1, SumSupport
  <2>3. Held(LivePortfolio, g) = 0
    BY <1>1, <2>2, HeldLive, SumEmpty DEF HeldIsNet
  <2>4. Cap(g) \in Nat /\ Missed(g) \in Nat
    BY <1>1, GateTypes, MissedType DEF MissedIsRest
  <2>5. QED
    BY <2>3, <2>4
<1>4. pc = "idle"
  BY DEF Init
<1>5. QED
  BY <1>3, <1>4 DEF CapInv, InFlight

LEMMA CapNext == AccountsInv /\ AccountsInv' /\ CapInv /\ [Next]_vars => CapInv'
<1> SUFFICES ASSUME AccountsInv, AccountsInv', CapInv, [Next]_vars PROVE CapInv'
  OBVIOUS
<1>1. CASE TickStep
  <2>1. CASE \/ StartTick \/ ScanSome \/ Reconcile \/ ReconcileBlind
             \/ PollSome \/ BookNothing \/ RecordSkip \/ EndTick \/ Abort
    BY <2>1, CapQuiet
  <2>2. CASE Load
    BY <2>2, CapQuiet, CapLoad
  <2>3. CASE \E k \in todo : Submit(k)
    BY <2>3, CapSubmit
  <2>4. CASE PostAnswered \/ PostNoId \/ PostFails \/ PostRetries
    BY <2>4, CapPost
  <2>5. CASE Close
    BY <2>5, CapClose
  <2>6. CASE BookFill
    BY <2>6, CapBook
  <2>7. CASE RecordFill
    BY <2>7, CapRecord
  <2>8. CASE \E k \in todo : RouteSkip(k)
    BY <2>8, CapQuiet
  <2>9. QED
    BY <1>1, <2>1, <2>2, <2>3, <2>4, <2>5, <2>6, <2>7, <2>8 DEF TickStep
<1>2. CASE \E id \in DOMAIN exch, n \in 1..Requested, cost \in Costs : Match(id, n, cost)
  BY <1>2, CapMatch
<1>3. CASE \E t \in Ticker : Resolve(t)
  BY <1>3, CapClose
<1>4. CASE Kill \/ Unkill \/ UNCHANGED vars
  BY <1>4, CapQuiet
<1>5. QED
  BY <1>1, <1>2, <1>3, <1>4 DEF Next

\* The caps of limits.py bind the account at the exchange up to the contracts
\* that the fills table lacks, for any caps, markets and number of ticks.
THEOREM CapsAlwaysBind == Spec => []CapsUpToUnrecorded
<1>1. AccountsInv /\ CapInv => CapsUpToUnrecorded
  <2>1. SUFFICES ASSUME AccountsInv, CapInv PROVE CapsUpToUnrecorded
    OBVIOUS
  <2>2. \A g \in Gate : Held(LivePortfolio, g) <= Cap(g) + Unrecorded(MarketsOf(g))
    BY <2>1 DEF CapInv, Missed
  <2>3. ASSUME NEW t \in Ticker
        PROVE  LivePortfolio.perTicker[t] <= MaxPerMarket + Unrecorded({t})
    <3>1. <<"market", t>> \in Gate
      BY DEF Gate
    <3>2. /\ MarketsOf(<<"market", t>>) = {t} /\ Cap(<<"market", t>>) = MaxPerMarket
          /\ Held(LivePortfolio, <<"market", t>>) = LivePortfolio.perTicker[t]
      BY DEF MarketsOf, Cap, Held
    <3>3. QED
      BY <2>2, <3>1, <3>2
  <2>4. ASSUME NEW e \in Event
        PROVE  LivePortfolio.perEvent[e] <=
                 MaxPerEvent + Unrecorded({t \in Ticker : EventOf[t] = e})
    <3>1. <<"event", e>> \in Gate
      BY DEF Gate
    <3>2. /\ MarketsOf(<<"event", e>>) = {t \in Ticker : EventOf[t] = e}
          /\ Cap(<<"event", e>>) = MaxPerEvent
          /\ Held(LivePortfolio, <<"event", e>>) = LivePortfolio.perEvent[e]
      BY DEF MarketsOf, Cap, Held
    <3>3. QED
      BY <2>2, <3>1, <3>2
  <2>5. LivePortfolio.total <= MaxTotal + Unrecorded(Ticker)
    <3>1. TotalGate \in Gate
      BY DEF Gate
    <3>2. /\ MarketsOf(TotalGate) = Ticker /\ Cap(TotalGate) = MaxTotal
          /\ Held(LivePortfolio, TotalGate) = LivePortfolio.total
      BY DEF MarketsOf, Cap, Held, TotalGate
    <3>3. QED
      BY <2>2, <3>1, <3>2
  <2>6. QED
    BY <2>3, <2>4, <2>5 DEF CapsUpToUnrecorded
<1>2. QED
  BY <1>1, AccountsInit, AccountsNext, CapInit, CapNext, PTL DEF Spec

-----------------------------------------------------------------------------
\* Repeated orders.  Why a position may not tell what earlier ticks recorded.
Excused(n, t) == t \in resolved \/ TwoSidedBefore(n, t)

\* When picks are chosen every order is an earlier tick's.
OrdersEarlier ==
  pc \in {"reconcile", "load"} /\ todo # {} => \A id \in DOMAIN orders : id[1] < ticks

\* The tick's portfolio has no less of a market than earlier ticks recorded.
MemTells ==
  pc \in {"route"} \cup InFlight =>
    \A t \in Ticker : RecordedBefore(ticks, t) <= mem.perTicker[t] \/ Excused(ticks, t)

ShortInv == OrdersEarlier /\ MemTells /\ ReordersOnlyShort

LEMMA RecordedBeforeType ==
  ASSUME AccountsInv, NEW n, NEW t
  PROVE  RecordedBefore(n, t) \in Nat
<1> DEFINE rows == {r \in fills : r.id[2] = t /\ r.id[1] < n}
           all == {r \in fills : r.id[2] \in {t}}
<1>1. IsFiniteSet(all)
  BY RecordedExecuted
<1>2. rows \subseteq all
  OBVIOUS
<1>3. \A r \in rows : r.count \in Nat
  BY DEF AccountsInv, TypeOK
<1> HIDE DEF rows, all
<1>4. IsFiniteSet(rows)
  BY <1>1, <1>2, FS_Subset
<1>5. Contracts(rows) \in Nat
  BY <1>3, <1>4, ContractsType
<1>6. QED
  BY <1>5 DEF RecordedBefore, rows

\* What a step may do: it books a fill of this tick only, the exchange keeps its
\* orders, and a new order and a new portfolio are as the invariant has them.
ShortStep ==
  /\ \/ fills' = fills
     \/ fills' = fills \cup {NewFill} /\ NewFill.id[1] = ticks
  /\ \A id \in DOMAIN exch : id \in DOMAIN exch' /\ exch'[id].side = exch[id].side
  /\ resolved \subseteq resolved'
  /\ \A id \in DOMAIN orders' \ DOMAIN orders :
       /\ id[1] = ticks
       /\ RecordedBefore(id[1], id[2]) < Requested \/ Excused(id[1], id[2])
  /\ pc' \in {"reconcile", "load"} /\ todo' # {} => \A id \in DOMAIN orders' : id[1] < ticks'
  /\ pc' \in {"route"} \cup InFlight =>
       /\ ticks' = ticks
       /\ \A t \in Ticker : RecordedBefore(ticks, t) <= mem'.perTicker[t] \/ Excused(ticks, t)

LEMMA ShortKeep ==
  ASSUME AccountsInv, ShortInv, ShortStep
  PROVE  ShortInv'
<1>1. ticks \in Nat /\ \A id \in DOMAIN orders : id[1] \in Nat /\ id[1] <= ticks
  BY BudgetAssumption DEF AccountsInv, TypeOK, TicksPast, OrderId
<1>2. ASSUME NEW n \in Nat, n <= ticks, NEW t
      PROVE  RecordedBefore(n, t)' = RecordedBefore(n, t)
  <2>1. {r \in fills' : r.id[2] = t /\ r.id[1] < n} = {r \in fills : r.id[2] = t /\ r.id[1] < n}
    BY <1>1, <1>2 DEF ShortStep
  <2>2. QED
    BY <2>1 DEF RecordedBefore
<1>3. ASSUME NEW n, NEW t, Excused(n, t) PROVE Excused(n, t)'
  <2>1. CASE t \in resolved
    BY <2>1 DEF Excused, ShortStep
  <2>2. CASE TwoSidedBefore(n, t)
    <3>1. PICK i \in OrdersIn(t) :
            i[1] < n /\ \E j \in OrdersIn(t) : j[1] < n /\ exch[i].side # exch[j].side
      BY <2>2 DEF TwoSidedBefore
    <3>2. PICK j \in OrdersIn(t) : j[1] < n /\ exch[i].side # exch[j].side
      BY <3>1
    <3>3. i \in OrdersIn(t)' /\ j \in OrdersIn(t)' /\ exch'[i].side # exch'[j].side
      BY <3>2 DEF OrdersIn, ShortStep
    <3>4. TwoSidedBefore(n, t)'
      BY <3>1, <3>2, <3>3 DEF TwoSidedBefore
    <3>5. QED
      BY <3>4 DEF Excused
  <2>3. QED
    BY <1>3, <2>1, <2>2 DEF Excused
<1>4. OrdersEarlier'
  BY DEF OrdersEarlier, ShortStep
<1>5. MemTells'
  <2>1. CASE pc' \notin {"route"} \cup InFlight
    BY <2>1 DEF MemTells
  <2>2. CASE pc' \in {"route"} \cup InFlight
    <3>1. PICK n \in Nat : n = ticks
      BY <1>1
    <3>2. ticks' = n
      BY <2>2, <3>1 DEF ShortStep
    <3>3. ASSUME NEW t \in Ticker
          PROVE  RecordedBefore(n, t)' <= mem'.perTicker[t] \/ Excused(n, t)'
      <4>1. RecordedBefore(n, t) <= mem'.perTicker[t] \/ Excused(n, t)
        BY <2>2, <3>1 DEF ShortStep
      <4>2. QED
        BY <1>2, <1>3, <3>1, <4>1
    <3>4. QED
      BY <3>2, <3>3 DEF MemTells, RecordedBefore, Excused, TwoSidedBefore
  <2>3. QED
    BY <2>1, <2>2
<1>6. ASSUME NEW id \in DOMAIN orders'
      PROVE  RecordedBefore(id[1], id[2])' < Requested \/ Excused(id[1], id[2])'
  <2>1. id[1] \in Nat /\ id[1] <= ticks
    BY <1>1 DEF ShortStep
  <2>2. RecordedBefore(id[1], id[2]) < Requested \/ Excused(id[1], id[2])
    BY DEF ShortInv, ReordersOnlyShort, Excused, ShortStep
  <2>3. QED
    BY <1>2, <1>3, <2>1, <2>2
<1>7. ReordersOnlyShort'
  BY <1>6 DEF ReordersOnlyShort, Excused
<1>8. QED
  BY <1>4, <1>5, <1>7 DEF ShortInv

\* Steps that book and intend nothing, outside the choice of picks.
LEMMA ShortStays ==
  ASSUME AccountsInv, ShortInv, fills' = fills, DOMAIN orders' = DOMAIN orders,
         \A id \in DOMAIN exch : id \in DOMAIN exch' /\ exch'[id].side = exch[id].side,
         resolved \subseteq resolved',
         pc' \in {"reconcile", "load"} /\ todo' # {} =>
           pc \in {"reconcile", "load"} /\ todo' = todo /\ ticks' = ticks,
         pc' \in {"route"} \cup InFlight =>
           pc \in {"route"} \cup InFlight /\ ticks' = ticks /\ mem' = mem
  PROVE  ShortInv'
<1>1. pc' \in {"reconcile", "load"} /\ todo' # {} => \A id \in DOMAIN orders' : id[1] < ticks'
  BY DEF ShortInv, OrdersEarlier
<1>2. pc' \in {"route"} \cup InFlight =>
        /\ ticks' = ticks
        /\ \A t \in Ticker : RecordedBefore(ticks, t) <= mem'.perTicker[t] \/ Excused(ticks, t)
  BY DEF ShortInv, MemTells
<1>3. ShortStep
  BY <1>1, <1>2 DEF ShortStep
<1>4. QED
  BY <1>3, ShortKeep

\* The steps of a tick that has no order in flight.
LEMMA ShortQuiet ==
  ASSUME AccountsInv, ShortInv,
         \/ StartTick \/ Reconcile \/ ReconcileBlind
         \/ Load /\ todo = {}
         \/ \E k \in todo : RouteSkip(k)
         \/ EndTick \/ Abort \/ Kill \/ Unkill \/ UNCHANGED vars
  PROVE  ShortInv'
<1>1. exch' = exch /\ fills' = fills /\ resolved' = resolved /\ orders' = orders
  BY DEF StartTick, Reconcile, ReconcileBlind, Load, RouteSkip, EndTick, Abort, Kill, Unkill,
         vars, dbVars
<1>2. /\ pc' \in {"reconcile", "load"} /\ todo' # {} =>
           pc \in {"reconcile", "load"} /\ todo' = todo /\ ticks' = ticks
      /\ pc' \in {"route"} \cup InFlight =>
           pc \in {"route"} \cup InFlight /\ ticks' = ticks /\ mem' = mem
  BY DEF StartTick, Reconcile, ReconcileBlind, Load, Leave, RouteSkip, Advance, EndTick, Abort,
         Kill, Unkill, vars, tickVars, InFlight
<1>3. QED
  BY <1>1, <1>2, ShortStays

\* The steps of an order in flight up to its fill, and the exchange's.
LEMMA ShortOrder ==
  ASSUME AccountsInv, ShortInv,
         \/ PostAnswered \/ PostNoId \/ PostFails \/ PostRetries
         \/ PollSome \/ Close \/ BookNothing \/ RecordSkip
         \/ \E id \in DOMAIN exch, n \in 1..Requested, cost \in Costs : Match(id, n, cost)
         \/ \E t \in Ticker : Resolve(t)
  PROVE  ShortInv'
<1>1. /\ fills' = fills /\ resolved \subseteq resolved' /\ DOMAIN orders' = DOMAIN orders
      /\ ticks' = ticks /\ mem' = mem
      /\ pc' \in {"reconcile", "load"} => pc' = pc /\ todo' = todo
      /\ pc' \in {"route"} \cup InFlight => pc \in {"route"} \cup InFlight
  <2>1. CASE PostAnswered \/ PostNoId \/ PostFails \/ PostRetries
    BY <2>1 DEF PostAnswered, PostNoId, PostFails, PostRetries, MarkOrder, dbVars, InFlight
  <2>2. CASE PollSome \/ Close \/ BookNothing \/ RecordSkip
    BY <2>2 DEF PollSome, Poll, Close, BookNothing, RecordSkip, MarkOrder, Advance, dbVars,
                InFlight
  <2>3. CASE \/ \E id \in DOMAIN exch, n \in 1..Requested, cost \in Costs : Match(id, n, cost)
             \/ \E t \in Ticker : Resolve(t)
    BY <2>3 DEF Match, Resolve, tickVars, dbVars
  <2>4. QED
    BY <2>1, <2>2, <2>3
<1>2. \A id \in DOMAIN exch : id \in DOMAIN exch' /\ exch'[id].side = exch[id].side
  <2>1. CASE PostAnswered \/ PostNoId \/ PostFails \/ PostRetries
    <3>1. pc = "post" /\ (Reach \/ UNCHANGED exch)
      BY <2>1 DEF PostAnswered, PostNoId, PostFails, PostRetries
    <3>2. QED
      BY <3>1, ReachKeeps
  <2>2. CASE PollSome \/ BookNothing \/ RecordSkip
    BY <2>2 DEF PollSome, Poll, BookNothing, RecordSkip
  <2>3. CASE \/ Close \/ \E t \in Ticker : Resolve(t)
             \/ \E id \in DOMAIN exch, n \in 1..Requested, cost \in Costs : Match(id, n, cost)
    <3>1. ExchangeGrows
      BY <2>3, CloseGrows, ResolveGrows, MatchGrows
    <3>2. QED
      BY <3>1 DEF ExchangeGrows
  <2>4. QED
    BY <2>1, <2>2, <2>3
<1>3. QED
  BY <1>1, <1>2, ShortStays

\* Picks are chosen when every order there is has a smaller tick.
LEMMA ShortScan ==
  ASSUME AccountsInv, ShortInv, NEW S \in Picks, Scan(S)
  PROVE  ShortInv'
<1>1. /\ pc' = "reconcile" /\ todo' = S /\ ticks' = IF S = {} THEN ticks ELSE ticks + 1
      /\ UNCHANGED <<orders, fills, exch, resolved>>
  BY DEF Scan, dbVars
<1>2. ticks \in Nat /\ \A id \in DOMAIN orders : id[1] \in Nat /\ id[1] <= ticks
  BY BudgetAssumption DEF AccountsInv, TypeOK, TicksPast, OrderId
<1>3. todo' # {} => \A id \in DOMAIN orders' : id[1] < ticks'
  BY <1>1, <1>2
<1>4. pc' \notin {"route"} \cup InFlight
  BY <1>1 DEF InFlight
<1>5. ShortStep
  BY <1>1, <1>3, <1>4 DEF ShortStep
<1>6. QED
  BY <1>5, ShortKeep

\* All that is recorded then is an earlier tick's, and a position that nets
\* nothing away is no less.
LEMMA ShortLoad ==
  ASSUME AccountsInv, ShortInv, Load, todo # {}
  PROVE  ShortInv'
<1>1. /\ pc = "load" /\ pc' = "route" /\ mem' = LivePortfolio /\ ticks' = ticks
      /\ UNCHANGED <<orders, fills, exch, resolved>>
  BY DEF Load, dbVars
<1>2. \A id \in DOMAIN orders : id[1] < ticks
  BY <1>1 DEF ShortInv, OrdersEarlier
<1>3. ASSUME NEW t \in Ticker, ~Excused(ticks, t)
      PROVE  RecordedBefore(ticks, t) <= mem'.perTicker[t]
  <2>1. {r \in fills : r.id[2] = t /\ r.id[1] < ticks} = {r \in fills : r.id[2] = t}
    BY <1>2 DEF AccountsInv, FillsHaveOrders
  <2>2. RecordedBefore(ticks, t) = Recorded(t)
    BY <2>1 DEF RecordedBefore, Recorded
  <2>3. \A i \in OrdersIn(t) : i[1] < ticks
    BY <1>2 DEF AccountsInv, IntentFirst, OrdersIn
  <2>4. t \notin resolved /\ \A i, j \in OrdersIn(t) : exch[i].side = exch[j].side
    BY <1>3, <2>3 DEF Excused, TwoSidedBefore
  <2>5. /\ Gross(Position(t)) = Recorded(t) + Unrecorded({t})
        /\ Recorded(t) \in Nat /\ Unrecorded({t}) \in Nat
    BY <2>4, OneSided
  <2>6. mem'.perTicker[t] = Gross(Position(t))
    BY <1>1 DEF LivePortfolio
  <2>7. QED
    BY <2>2, <2>5, <2>6
<1>4. pc' \notin {"reconcile", "load"}
  BY <1>1
<1>5. ShortStep
  BY <1>1, <1>3, <1>4 DEF ShortStep
<1>6. QED
  BY <1>5, ShortKeep

\* The gates let an order through only below the size to order.
LEMMA ShortSubmit ==
  ASSUME AccountsInv, ShortInv, NEW k \in todo, Submit(k)
  PROVE  ShortInv'
<1> DEFINE new == ClientOrderId(k[1])
<1>1. /\ pc = "route" /\ pc' = "post" /\ ApproveOrder(k[1], Requested, mem).size # 0
      /\ DOMAIN orders' = DOMAIN orders \cup {new}
      /\ UNCHANGED <<ticks, mem, fills, exch, resolved>>
  BY DEF Submit, Put
<1>2. k[1] \in Ticker /\ mem \in Portfolio /\ mem.perTicker[k[1]] \in Int
  BY PickType DEF AccountsInv, TypeOK, Portfolio
<1>3. mem.perTicker[k[1]] < Requested
  BY <1>1, <1>2, RequestedInt, ApproveSound
<1>4. RecordedBefore(ticks, k[1]) < Requested \/ Excused(ticks, k[1])
  <2>1. RecordedBefore(ticks, k[1]) <= mem.perTicker[k[1]] \/ Excused(ticks, k[1])
    BY <1>1, <1>2 DEF ShortInv, MemTells
  <2>2. RecordedBefore(ticks, k[1]) \in Nat
    BY RecordedBeforeType
  <2>3. QED
    BY <1>2, <1>3, <2>1, <2>2, RequestedInt
<1>5. new[1] = ticks /\ new[2] = k[1]
  BY DEF ClientOrderId
<1> HIDE DEF new
<1>6. \A id \in DOMAIN orders' \ DOMAIN orders :
        id[1] = ticks /\ (RecordedBefore(id[1], id[2]) < Requested \/ Excused(id[1], id[2]))
  BY <1>1, <1>4, <1>5
<1>7. \A t \in Ticker : RecordedBefore(ticks, t) <= mem.perTicker[t] \/ Excused(ticks, t)
  BY <1>1 DEF ShortInv, MemTells
<1>8. ShortStep
  BY <1>1, <1>6, <1>7 DEF ShortStep
<1>9. QED
  BY <1>8, ShortKeep

\* A fill that is booked is this tick's.
LEMMA ShortBook ==
  ASSUME AccountsInv, ShortInv, BookFill
  PROVE  ShortInv'
<1>1. /\ pc = "book" /\ pc' = "record" /\ fills' = fills \cup {NewFill}
      /\ DOMAIN orders' = DOMAIN orders
      /\ UNCHANGED <<ticks, mem, exch, resolved>>
  BY DEF BookFill, NewFill
<1>2. pc \in InFlight
  BY <1>1 DEF InFlight
<1>3. NewFill.id[1] = ticks
  BY <1>2 DEF NewFill, AccountsInv, OrderInFlight
<1>4. \A t \in Ticker : RecordedBefore(ticks, t) <= mem.perTicker[t] \/ Excused(ticks, t)
  BY <1>2 DEF ShortInv, MemTells
<1>5. ShortStep
  BY <1>1, <1>3, <1>4 DEF ShortStep
<1>6. QED
  BY <1>5, ShortKeep

\* The tick's portfolio only grows by its fills.
LEMMA ShortRecord ==
  ASSUME AccountsInv, ShortInv, RecordFill
  PROVE  ShortInv'
<1>1. /\ pc = "record" /\ pc' \in {"settle", "route"}
      /\ mem' = ApplyFill(mem, cur.id[2], cur.best)
      /\ UNCHANGED <<ticks, orders, fills, exch, resolved>>
  BY DEF RecordFill, Advance
<1>2. pc \in InFlight /\ TypeOK /\ OrderInFlight
  BY <1>1 DEF InFlight, AccountsInv
<1>3. cur.best \in Nat /\ cur.id[2] \in Ticker /\ mem \in Portfolio
  BY <1>2, InFlightType DEF TypeOK
<1>4. \A t \in Ticker : mem.perTicker[t] \in Int /\ mem.perTicker[t] <= mem'.perTicker[t]
                        /\ mem'.perTicker[t] \in Int
  <2>1. \A t \in Ticker : mem.perTicker[t] \in Int
    BY <1>3 DEF Portfolio
  <2>2. \A t \in Ticker : mem'.perTicker[t] =
          IF t = cur.id[2] THEN mem.perTicker[t] + cur.best ELSE mem.perTicker[t]
    BY <1>1, <1>3, WithEffect DEF ApplyFill
  <2>3. QED
    BY <1>3, <2>1, <2>2
<1>5. ASSUME NEW t \in Ticker
      PROVE  RecordedBefore(ticks, t) <= mem'.perTicker[t] \/ Excused(ticks, t)
  <2>1. RecordedBefore(ticks, t) <= mem.perTicker[t] \/ Excused(ticks, t)
    BY <1>2 DEF ShortInv, MemTells
  <2>2. RecordedBefore(ticks, t) \in Nat
    BY RecordedBeforeType
  <2>3. QED
    BY <1>4, <2>1, <2>2
<1>6. pc' \notin {"reconcile", "load"}
  BY <1>1
<1>7. ShortStep
  BY <1>1, <1>5, <1>6 DEF ShortStep
<1>8. QED
  BY <1>7, ShortKeep

LEMMA ShortInit == Init => ShortInv
  BY DEF Init, ShortInv, OrdersEarlier, MemTells, ReordersOnlyShort, InFlight

LEMMA ShortNext == AccountsInv /\ ShortInv /\ [Next]_vars => ShortInv'
<1> SUFFICES ASSUME AccountsInv, ShortInv, [Next]_vars PROVE ShortInv'
  OBVIOUS
<1>1. CASE TickStep
  <2>1. CASE StartTick \/ Reconcile \/ ReconcileBlind \/ EndTick \/ Abort
    BY <2>1, ShortQuiet
  <2>2. CASE ScanSome
    BY <2>2, ShortScan DEF ScanSome
  <2>3. CASE Load
    BY <2>3, ShortQuiet, ShortLoad
  <2>4. CASE \E k \in todo : RouteSkip(k)
    BY <2>4, ShortQuiet
  <2>5. CASE \E k \in todo : Submit(k)
    BY <2>5, ShortSubmit
  <2>6. CASE \/ PostAnswered \/ PostNoId \/ PostFails \/ PostRetries
             \/ PollSome \/ Close \/ BookNothing \/ RecordSkip
    BY <2>6, ShortOrder
  <2>7. CASE BookFill
    BY <2>7, ShortBook
  <2>8. CASE RecordFill
    BY <2>8, ShortRecord
  <2>9. QED
    BY <1>1, <2>1, <2>2, <2>3, <2>4, <2>5, <2>6, <2>7, <2>8 DEF TickStep
<1>2. CASE \/ \E id \in DOMAIN exch, n \in 1..Requested, cost \in Costs : Match(id, n, cost)
           \/ \E t \in Ticker : Resolve(t)
  BY <1>2, ShortOrder
<1>3. CASE Kill \/ Unkill \/ UNCHANGED vars
  BY <1>3, ShortQuiet
<1>4. QED
  BY <1>1, <1>2, <1>3 DEF Next

\* No tick repeats in a market what earlier ticks bought and recorded of it,
\* whatever was lost, retried or cut short, unless the market is settled or was
\* bought on both its sides: the gates of limits.py on the position loaded once a
\* tick see to it, for any markets, caps, costs and number of ticks.
THEOREM ReordersAlwaysShort == Spec => []ReordersOnlyShort
<1>1. ShortInv => ReordersOnlyShort
  BY DEF ShortInv
<1>2. QED
  BY <1>1, AccountsInit, AccountsNext, ShortInit, ShortNext, PTL DEF Spec

-----------------------------------------------------------------------------
\* The kill switch: picks and orders are finite, and a scan picks no more markets
\* than there are events.
LEMMA PicksFewerThanEvents ==
  ASSUME NEW S \in Picks
  PROVE  IsFiniteSet(S) /\ Cardinality(S) \in Nat /\ Cardinality(S) <= Cardinality(Event)
<1> DEFINE h == [k \in S |-> EventOf[k[1]]]
<1>1. \A k \in S : k[1] \in Ticker
  BY DEF Picks
<1>2. \A k, l \in S : EventOf[k[1]] = EventOf[l[1]] => k = l
  BY DEF Picks
<1>3. h \in Injection(S, Event)
  BY <1>1, <1>2, MarketsAssumption DEF Injection, IsInjective
<1>4. QED
  BY <1>3, FiniteAssumption, FS_Injection, FS_CardinalityType

LEMMA TodoFinite ==
  ASSUME TypeOK
  PROVE  /\ IsFiniteSet(todo) /\ Cardinality(todo) \in Nat
         /\ IsFiniteSet(DOMAIN orders) /\ Cardinality(DOMAIN orders) \in Nat
<1>1. IsFiniteSet({"yes", "no"})
  <2>1. IsFiniteSet({"yes"})
    BY FS_Singleton
  <2>2. IsFiniteSet({"yes"} \cup {"no"})
    BY <2>1, FS_AddElement
  <2>3. {"yes"} \cup {"no"} = {"yes", "no"}
    OBVIOUS
  <2>4. QED
    BY <2>2, <2>3
<1>2. IsFiniteSet(Side)
  BY <1>1, SideAssumption, FS_Subset
<1>3. IsFiniteSet(Ticker \X Side)
  BY <1>2, FiniteAssumption, FS_Product
<1>4. IsFiniteSet(todo)
  BY <1>3, FS_Subset DEF TypeOK
<1>5. IsFiniteSet(DOMAIN orders)
  BY OrderIdFinite DEF TypeOK
<1>6. QED
  BY <1>4, <1>5, FS_CardinalityType

\* A step that records no order and picks none.
LEMMA DrainQuiet ==
  ASSUME TypeOK, DOMAIN orders' = DOMAIN orders,
         \/ pc' = "idle"
         \/ /\ pc \notin {"idle", "fetch"} /\ pc' \notin {"idle", "fetch"}
            /\ todo' \subseteq todo
         \/ pc' = pc /\ todo' = todo
  PROVE  Cardinality(DOMAIN orders') + Outstanding'
           <= Cardinality(DOMAIN orders) + Outstanding
<1>1. /\ IsFiniteSet(todo) /\ Cardinality(todo) \in Nat /\ Cardinality(DOMAIN orders) \in Nat
      /\ Cardinality(Event) \in Nat
  BY TodoFinite, FiniteAssumption, FS_CardinalityType
<1>2. Outstanding \in Nat
  BY <1>1 DEF Outstanding
<1>3. Outstanding' \in Nat /\ Outstanding' <= Outstanding
  <2>1. CASE pc' = "idle"
    BY <1>2, <2>1 DEF Outstanding
  <2>2. CASE /\ pc \notin {"idle", "fetch"} /\ pc' \notin {"idle", "fetch"}
             /\ todo' \subseteq todo
    <3>1. Cardinality(todo') \in Nat /\ Cardinality(todo') <= Cardinality(todo)
      BY <1>1, <2>2, FS_Subset, FS_CardinalityType
    <3>2. Outstanding' = Cardinality(todo') /\ Outstanding = Cardinality(todo)
      BY <2>2 DEF Outstanding
    <3>3. QED
      BY <3>1, <3>2
  <2>3. CASE pc' = pc /\ todo' = todo
    BY <1>2, <2>3 DEF Outstanding
  <2>4. QED
    BY <2>1, <2>2, <2>3
<1>4. QED
  BY <1>1, <1>2, <1>3

LEMMA DrainScan ==
  ASSUME TypeOK, NEW S \in Picks, Scan(S)
  PROVE  Cardinality(DOMAIN orders') + Outstanding'
           <= Cardinality(DOMAIN orders) + Outstanding
<1>1. Cardinality(DOMAIN orders) \in Nat /\ Cardinality(Event) \in Nat
  BY TodoFinite, FiniteAssumption, FS_CardinalityType
<1>2. Cardinality(S) \in Nat /\ Cardinality(S) <= Cardinality(Event)
  BY PicksFewerThanEvents
<1>3. Outstanding = Cardinality(Event) /\ Outstanding' = Cardinality(S) /\ orders' = orders
  BY DEF Scan, Outstanding, dbVars
<1>4. QED
  BY <1>1, <1>2, <1>3

LEMMA DrainSubmit ==
  ASSUME TypeOK, NEW k \in todo, Submit(k)
  PROVE  Cardinality(DOMAIN orders') + Outstanding'
           <= Cardinality(DOMAIN orders) + Outstanding
<1>1. /\ pc = "route" /\ pc' = "post" /\ todo' = todo \ {k}
      /\ DOMAIN orders' = DOMAIN orders \cup {ClientOrderId(k[1])}
  BY DEF Submit, Put
<1>2. /\ IsFiniteSet(todo) /\ Cardinality(todo) \in Nat
      /\ IsFiniteSet(DOMAIN orders) /\ Cardinality(DOMAIN orders) \in Nat
  BY TodoFinite
<1>3. Cardinality(todo') = Cardinality(todo) - 1
  BY <1>1, <1>2, FS_RemoveElement
<1>4. Cardinality(DOMAIN orders') \in Nat
      /\ Cardinality(DOMAIN orders') <= Cardinality(DOMAIN orders) + 1
  <2> DEFINE D == DOMAIN orders
             id == ClientOrderId(k[1])
  <2>1. IsFiniteSet(D) /\ Cardinality(D) \in Nat
    BY <1>2
  <2> HIDE DEF D, id
  <2>2. /\ IsFiniteSet(D \cup {id})
        /\ \/ Cardinality(D \cup {id}) = Cardinality(D)
           \/ Cardinality(D \cup {id}) = Cardinality(D) + 1
    BY <2>1, FS_AddElement
  <2>3. Cardinality(D \cup {id}) \in Nat /\ Cardinality(D \cup {id}) <= Cardinality(D) + 1
    BY <2>1, <2>2
  <2>4. QED
    BY <1>1, <2>3 DEF D, id
<1>5. Outstanding = Cardinality(todo) /\ Outstanding' = Cardinality(todo')
  BY <1>1 DEF Outstanding
<1>6. QED
  BY <1>2, <1>3, <1>4, <1>5

LEMMA DrainStep ==
  ASSUME TypeOK, lock, lock', Next
  PROVE  Cardinality(DOMAIN orders') + Outstanding'
           <= Cardinality(DOMAIN orders) + Outstanding
<1>1. CASE TickStep
  <2>1. CASE StartTick
    BY <2>1 DEF StartTick
  <2>2. CASE ScanSome
    BY <2>2, DrainScan DEF ScanSome
  <2>3. CASE Reconcile \/ ReconcileBlind \/ Load \/ EndTick \/ Abort
    <3>1. DOMAIN orders' = DOMAIN orders
      BY <2>3 DEF Reconcile, ReconcileBlind, Load, EndTick, Abort, dbVars
    <3>2. \/ pc' = "idle"
          \/ /\ pc \notin {"idle", "fetch"} /\ pc' \notin {"idle", "fetch"}
             /\ todo' \subseteq todo
      BY <2>3 DEF Reconcile, ReconcileBlind, Load, EndTick, Abort, Leave
    <3>3. QED
      BY <3>1, <3>2, DrainQuiet
  <2>4. CASE \E k \in todo : Submit(k)
    BY <2>4, DrainSubmit
  <2>5. CASE (\E k \in todo : RouteSkip(k)) \/ RecordFill \/ RecordSkip
    <3>1. DOMAIN orders' = DOMAIN orders
      BY <2>5 DEF RouteSkip, RecordFill, RecordSkip
    <3>2. /\ pc \notin {"idle", "fetch"} /\ pc' \notin {"idle", "fetch"}
          /\ todo' \subseteq todo
      BY <2>5 DEF RouteSkip, RecordFill, RecordSkip, Advance
    <3>3. QED
      BY <3>1, <3>2, DrainQuiet
  <2>6. CASE PostAnswered \/ PostNoId \/ PostFails \/ PostRetries \/ Close \/ BookFill
               \/ BookNothing
    <3>1. DOMAIN orders' = DOMAIN orders
      BY <2>6 DEF PostAnswered, PostNoId, PostFails, PostRetries, Close, BookFill, BookNothing,
                  MarkOrder, dbVars
    <3>2. /\ pc \notin {"idle", "fetch"} /\ pc' \notin {"idle", "fetch"}
          /\ todo' \subseteq todo
      BY <2>6 DEF PostAnswered, PostNoId, PostFails, PostRetries, Close, BookFill, BookNothing
    <3>3. QED
      BY <3>1, <3>2, DrainQuiet
  <2>7. CASE PollSome
    <3>1. /\ DOMAIN orders' = DOMAIN orders
          /\ pc \notin {"idle", "fetch"} /\ pc' \notin {"idle", "fetch"}
          /\ todo' \subseteq todo
      BY <2>7 DEF PollSome, Poll, dbVars
    <3>2. QED
      BY <3>1, DrainQuiet
  <2>8. QED
    BY <1>1, <2>1, <2>2, <2>3, <2>4, <2>5, <2>6, <2>7 DEF TickStep
<1>2. CASE \/ \E id \in DOMAIN exch, n \in 1..Requested, cost \in Costs : Match(id, n, cost)
           \/ \E t \in Ticker : Resolve(t)
           \/ Kill \/ Unkill
  <2>1. DOMAIN orders' = DOMAIN orders /\ pc' = pc /\ todo' = todo
    BY <1>2 DEF Match, Resolve, Kill, Unkill, tickVars, dbVars
  <2>2. QED
    BY <2>1, DrainQuiet
<1>3. QED
  BY <1>1, <1>2 DEF Next

\* While the kill switch stays armed, every order that is recorded uses up a pick
\* of the tick that was in flight.
THEOREM KillAlwaysDrains == Spec => KillDrains
<1>1. AccountsInv /\ [Next]_vars =>
        [lock /\ lock' =>
           Cardinality(DOMAIN orders') + Outstanding'
             <= Cardinality(DOMAIN orders) + Outstanding]_vars
  BY DrainStep DEF AccountsInv
<1>2. QED
  BY <1>1, AccountsInit, AccountsNext, PTL DEF Spec, KillDrains

-----------------------------------------------------------------------------
\* Until its outcome is known the row of the order in flight is as it was
\* inserted.
Undecided == {"post", "poll", "close", "book"}
OrderWaits ==
  pc \in Undecided => orders[cur.id].status = "submitted" /\ orders[cur.id].count = cur.size

RowsOfOrder(id) == {x \in fills : x.id = id}

\* A step that leaves an order's row and its fills alone, and at the exchange
\* its size and what was executed of it.
LEMMA LifeElsewhere ==
  ASSUME NEW id \in OrderId,
         id \in DOMAIN orders' <=> id \in DOMAIN orders,
         id \in DOMAIN orders => orders'[id] = orders[id],
         RowsOfOrder(id)' = RowsOfOrder(id),
         id \in DOMAIN exch' <=> id \in DOMAIN exch,
         id \in DOMAIN exch => exch'[id].size = exch[id].size,
         Executed(id)' = Executed(id)
  PROVE  Order(id)!LifeStep
<1>1. Status(id)' = Status(id) /\ Size(id)' = Size(id)
  BY DEF Status, Size
<1>2. (id \in DOMAIN exch)' = (id \in DOMAIN exch)
  OBVIOUS
<1>3. {r.count : r \in {x \in fills : x.id = id}}' = {r.count : r \in {x \in fills : x.id = id}}
  BY DEF RowsOfOrder
<1>4. QED
  BY <1>1, <1>2, <1>3 DEF Order!LifeStep, Order!account

LEMMA LifeQuiet ==
  ASSUME NEW id \in OrderId, UNCHANGED <<orders, fills, exch>>
  PROVE  Order(id)!LifeStep
<1>1. RowsOfOrder(id)' = RowsOfOrder(id) /\ Executed(id)' = Executed(id)
  BY DEF RowsOfOrder, Executed
<1>2. QED
  BY <1>1, LifeElsewhere

\* The exchange closes orders.
LEMMA LifeCloses ==
  ASSUME AccountsInv, NEW id \in OrderId, Close \/ \E t \in Ticker : Resolve(t)
  PROVE  Order(id)!LifeStep
<1>1. UNCHANGED <<orders, fills>>
  BY DEF Close, Resolve, dbVars
<1>2. ExchangeGrows /\ \A i \in DOMAIN exch : exch'[i].costs = exch[i].costs
  BY CloseGrows, ResolveGrows
<1>3. RowsOfOrder(id)' = RowsOfOrder(id)
  BY <1>1 DEF RowsOfOrder
<1>4. /\ DOMAIN exch' = DOMAIN exch
      /\ \A i \in DOMAIN exch : exch'[i].size = exch[i].size
  BY <1>2 DEF ExchangeGrows
<1>5. Executed(id)' = Executed(id)
  BY <1>2, <1>4 DEF Executed
<1>6. QED
  BY <1>1, <1>3, <1>4, <1>5, LifeElsewhere

\* The exchange executes.
LEMMA LifeMatch ==
  ASSUME AccountsInv, NEW id \in OrderId,
         NEW i \in DOMAIN exch, NEW n \in 1..Requested, NEW cost \in Costs, Match(i, n, cost)
  PROVE  Order(id)!LifeStep
<1>1. UNCHANGED <<orders, fills>>
  BY DEF Match, dbVars
<1>2. /\ ExchangeGrows
      /\ \A j \in DOMAIN exch \ {i} : exch'[j] = exch[j]
      /\ Executed(i)' = Executed(i) + n
  BY MatchGrows
<1>3. /\ DOMAIN exch' = DOMAIN exch
      /\ \A j \in DOMAIN exch : exch'[j].size = exch[j].size
  BY <1>2 DEF ExchangeGrows
<1>4. RowsOfOrder(id)' = RowsOfOrder(id)
  BY <1>1 DEF RowsOfOrder
<1>5. CASE id # i
  <2>1. Executed(id)' = Executed(id)
    BY <1>2, <1>3, <1>5 DEF Executed
  <2>2. QED
    BY <1>1, <1>3, <1>4, <2>1, LifeElsewhere
<1>6. CASE id = i
  <2>1. Executed(id) \in Nat /\ Executed(id)' \in Nat /\ Executed(id)' <= exch[id].size
    <3>1. Executed(id) \in Nat
      BY ExecutedType DEF AccountsInv
    <3>2. /\ exch'[id].costs \in Seq(Costs)
          /\ Len(exch'[id].costs) <= exch[id].size
      BY <1>2, <1>6 DEF ExchangeGrows
    <3>3. Executed(id)' = Len(exch'[id].costs)
      BY <1>3, <1>6 DEF Executed
    <3>4. QED
      BY <3>1, <3>2, <3>3
  <2>2. exch[id].size \in Nat
    BY <1>6 DEF AccountsInv, TypeOK
  <2>3. n \in Nat /\ n >= 1
    BY RequestedInt
  <2>4. Size(id) = exch[id].size
    BY <1>6 DEF Size
  <2>5. Executed(id)' \in (Executed(id) + 1)..Size(id)
    <3>1. Executed(id)' = Executed(id) + n
      BY <1>2, <1>6 DEF Executed
    <3>2. QED
      BY <2>1, <2>2, <2>3, <2>4, <3>1
  <2>6. Status(id)' = Status(id) /\ Size(id)' = Size(id)
    BY <1>1, <1>3, <1>6 DEF Status, Size
  <2>7. (id \in DOMAIN exch) /\ (id \in DOMAIN exch)' = (id \in DOMAIN exch)
    BY <1>3, <1>6
  <2>8. {r.count : r \in {x \in fills : x.id = id}}' = {r.count : r \in {x \in fills : x.id = id}}
    BY <1>1
  <2>9. Order(id)!Execute
    BY <2>5, <2>6, <2>7, <2>8 DEF Order!Execute
  <2>10. QED
    BY <2>9 DEF Order!LifeStep, Order!LifeNext
<1>7. QED
  BY <1>5, <1>6

\* The intent of a pick is the first that either account has of its order.
LEMMA LifeSubmit ==
  ASSUME AccountsInv, AccountsInv', NEW id \in OrderId, NEW k \in todo, Submit(k)
  PROVE  Order(id)!LifeStep
<1> DEFINE n == ApproveOrder(k[1], Requested, mem).size
           new == ClientOrderId(k[1])
           row == [side |-> k[2], count |-> n, price |-> Limit, status |-> "submitted"]
<1>1. orders' = Put(orders, new, row) /\ UNCHANGED <<fills, exch>>
  BY DEF Submit
<1>2. new \notin DOMAIN orders /\ new \notin DOMAIN exch
  <2>1. new \notin DOMAIN orders
    BY PickType
  <2>2. QED
    BY <2>1 DEF AccountsInv, IntentFirst
<1>3. /\ DOMAIN orders' = DOMAIN orders \cup {new} /\ orders'[new] = row
      /\ \A i \in DOMAIN orders : orders'[i] = orders[i]
  BY <1>1, <1>2 DEF Put
<1>4. row.count \in Nat \ {0}
  <2>1. orders'[new].count \in Nat \ {0}
    BY <1>3 DEF AccountsInv, TypeOK
  <2>2. QED
    BY <1>3, <2>1
<1>5. row.status = "submitted"
  OBVIOUS
<1> HIDE DEF new, row
<1>6. RowsOfOrder(id)' = RowsOfOrder(id) /\ Executed(id)' = Executed(id)
  BY <1>1 DEF RowsOfOrder, Executed
<1>7. CASE id # new
  BY <1>1, <1>3, <1>6, <1>7, LifeElsewhere
<1>8. CASE id = new
  <2>1. Status(id) = "none" /\ Status(id)' = "submitted"
    BY <1>2, <1>3, <1>5, <1>8 DEF Status
  <2>2. Size(id)' \in Nat \ {0}
    BY <1>1, <1>2, <1>3, <1>4, <1>8 DEF Size
  <2>3. /\ (id \in DOMAIN exch)' = (id \in DOMAIN exch)
        /\ {r.count : r \in {x \in fills : x.id = id}}'
             = {r.count : r \in {x \in fills : x.id = id}}
    BY <1>1
  <2>4. Order(id)!Intend
    BY <1>6, <2>1, <2>2, <2>3 DEF Order!Intend
  <2>5. QED
    BY <2>4 DEF Order!LifeStep, Order!LifeNext
<1>9. QED
  BY <1>7, <1>8

\* The order in flight, as its life has it, until its outcome.
LEMMA LifeWaits ==
  ASSUME AccountsInv, OrderWaits, pc \in Undecided
  PROVE  /\ cur.id \in OrderId /\ cur.id \in DOMAIN orders
         /\ Status(cur.id) = "submitted" /\ Size(cur.id) = cur.size
         /\ cur.size \in Nat /\ cur.best \in Nat /\ cur.best <= Executed(cur.id)
         /\ \A r \in fills : r.id # cur.id
<1>1. TypeOK /\ OrderInFlight /\ pc \in InFlight \ {"record"}
  BY DEF AccountsInv, Undecided, InFlight
<1>2. cur.id \in OrderId /\ cur.size \in 1..MaxPerMarket /\ cur.best \in Nat
  BY <1>1, InFlightType
<1>3. cur.id \in DOMAIN orders /\ \A r \in fills : r.id # cur.id
  BY <1>1 DEF OrderInFlight
<1>4. /\ cur.id \in DOMAIN exch => exch[cur.id].size = cur.size
      /\ cur.best <= Executed(cur.id)
  BY <1>1 DEF AccountsInv, OrderAtExchange
<1>5. Status(cur.id) = "submitted" /\ Size(cur.id) = cur.size
  BY <1>3, <1>4 DEF Status, Size, OrderWaits
<1>6. QED
  BY <1>2, <1>3, <1>4, <1>5, CapsAssumption

\* A step that marks the row of the order in flight leaves the other rows alone.
LEMMA MarkOrderRows ==
  ASSUME AccountsInv, cur.id \in DOMAIN orders,
         NEW status \in {"rejected", "canceled"}, MarkOrder(status)
  PROVE  /\ DOMAIN orders' = DOMAIN orders
         /\ \A i \in DOMAIN orders \ {cur.id} : orders'[i] = orders[i]
         /\ orders'[cur.id].status = status /\ orders'[cur.id].count = orders[cur.id].count
<1>1. /\ DOMAIN orders' = DOMAIN orders
      /\ \A i \in DOMAIN orders \ {cur.id} : orders'[i] = orders[i]
      /\ orders'[cur.id] = [orders[cur.id] EXCEPT !.status = status]
  BY DEF MarkOrder
<1> DEFINE row == orders[cur.id]
<1>2. /\ row \in [side: Side, count: Nat \ {0}, price: 0..100,
                 status: {"submitted", "rejected", "canceled", "partial", "filled"}]
      /\ orders'[cur.id] = [row EXCEPT !.status = status]
  BY <1>1 DEF AccountsInv, TypeOK
<1> HIDE DEF row
<1>3. orders'[cur.id].status = status /\ orders'[cur.id].count = row.count
  BY <1>2
<1>4. QED
  BY <1>1, <1>3 DEF row

\* The request may reach the exchange, and the row may be marked rejected.
LEMMA LifePost ==
  ASSUME AccountsInv, OrderWaits, NEW id \in OrderId,
         PostAnswered \/ PostNoId \/ PostFails \/ PostRetries
  PROVE  Order(id)!LifeStep
<1>1. pc = "post" /\ pc \in Undecided /\ (Reach \/ UNCHANGED exch) /\ UNCHANGED fills
  BY DEF PostAnswered, PostNoId, PostFails, PostRetries, Undecided, dbVars
<1>2. UNCHANGED orders \/ MarkOrder("rejected")
  BY DEF PostAnswered, PostNoId, PostFails, PostRetries, dbVars
<1>3. /\ cur.id \in OrderId /\ cur.id \in DOMAIN orders
      /\ Status(cur.id) = "submitted" /\ Size(cur.id) = cur.size
  BY <1>1, LifeWaits
<1>4. /\ DOMAIN exch' \subseteq DOMAIN exch \cup {cur.id}
      /\ \A i \in DOMAIN exch : i \in DOMAIN exch' /\ exch'[i] = exch[i]
      /\ \A i \in DOMAIN exch' \ DOMAIN exch : exch'[i].size = cur.size
      /\ Executed(id)' = Executed(id)
  BY <1>1, ReachKeeps
<1>5. RowsOfOrder(id)' = RowsOfOrder(id)
  BY <1>1 DEF RowsOfOrder
<1>6. /\ DOMAIN orders' = DOMAIN orders
      /\ \A i \in DOMAIN orders \ {cur.id} : orders'[i] = orders[i]
      /\ orders'[cur.id].count = orders[cur.id].count
      /\ \/ orders'[cur.id] = orders[cur.id]
         \/ orders'[cur.id].status = "rejected"
  BY <1>2, <1>3, MarkOrderRows
<1>7. CASE id # cur.id
  BY <1>4, <1>5, <1>6, <1>7, LifeElsewhere
<1>8. CASE id = cur.id
  <2>1. Size(id)' = Size(id)
    BY <1>3, <1>4, <1>6, <1>8 DEF Size
  <2>2. Status(id) = "submitted" /\ Status(id)' \in {Status(id), "rejected"}
    BY <1>3, <1>6, <1>8 DEF Status
  <2>3. (id \in DOMAIN exch)' = (id \in DOMAIN exch) \/ (id \in DOMAIN exch)' = TRUE
    BY <1>4
  <2>4. {r.count : r \in {x \in fills : x.id = id}}' = {r.count : r \in {x \in fills : x.id = id}}
    BY <1>1
  <2>5. CASE Status(id)' = "rejected"
    BY <1>4, <2>1, <2>2, <2>3, <2>4, <2>5 DEF Order!LifeStep, Order!LifeNext, Order!Reject
  <2>6. CASE Status(id)' = Status(id) /\ (id \in DOMAIN exch)' = (id \in DOMAIN exch)
    BY <1>4, <2>1, <2>4, <2>6 DEF Order!LifeStep, Order!account
  <2>7. CASE Status(id)' = Status(id) /\ (id \in DOMAIN exch)' # (id \in DOMAIN exch)
    <3>1. id \notin DOMAIN exch /\ (id \in DOMAIN exch)' = TRUE
      BY <1>4, <2>7
    <3>2. QED
      BY <1>4, <2>1, <2>2, <2>4, <2>7, <3>1
         DEF Order!LifeStep, Order!LifeNext, Order!Place
  <2>8. QED
    BY <2>2, <2>5, <2>6, <2>7
<1>9. QED
  BY <1>7, <1>8

\* Nothing was seen to be executed: the row is marked canceled.
LEMMA LifeBookNothing ==
  ASSUME AccountsInv, OrderWaits, NEW id \in OrderId, BookNothing
  PROVE  Order(id)!LifeStep
<1>1. pc = "book" /\ pc \in Undecided /\ MarkOrder("canceled") /\ UNCHANGED <<fills, exch>>
  BY DEF BookNothing, Undecided
<1>2. /\ cur.id \in DOMAIN orders /\ Status(cur.id) = "submitted"
      /\ cur.id \in DOMAIN exch
  BY <1>1, LifeWaits DEF AccountsInv, OrderAtExchange
<1>3. /\ DOMAIN orders' = DOMAIN orders
      /\ \A i \in DOMAIN orders \ {cur.id} : orders'[i] = orders[i]
      /\ orders'[cur.id].status = "canceled"
  BY <1>1, <1>2, MarkOrderRows
<1>4. RowsOfOrder(id)' = RowsOfOrder(id) /\ Executed(id)' = Executed(id)
  BY <1>1 DEF RowsOfOrder, Executed
<1>5. CASE id # cur.id
  BY <1>1, <1>3, <1>4, <1>5, LifeElsewhere
<1>6. CASE id = cur.id
  <2>1. Status(id) = "submitted" /\ Status(id)' = "canceled" /\ Size(id)' = Size(id)
    BY <1>1, <1>2, <1>3, <1>6 DEF Status, Size
  <2>2. /\ (id \in DOMAIN exch) /\ (id \in DOMAIN exch)' = (id \in DOMAIN exch)
        /\ {r.count : r \in {x \in fills : x.id = id}}'
             = {r.count : r \in {x \in fills : x.id = id}}
    BY <1>1, <1>2, <1>6
  <2>3. QED
    BY <1>4, <2>1, <2>2 DEF Order!LifeStep, Order!LifeNext, Order!Cancel
<1>7. QED
  BY <1>5, <1>6

\* The outcome and the fill are committed together.
LEMMA LifeBookFill ==
  ASSUME AccountsInv, OrderWaits, NEW id \in OrderId, BookFill
  PROVE  Order(id)!LifeStep
<1> DEFINE mark == IF cur.best = cur.size THEN "filled" ELSE "partial"
           new == [id |-> cur.id, count |-> cur.best, price |-> cur.price]
<1>1. /\ pc = "book" /\ pc \in Undecided /\ cur.best > 0 /\ UNCHANGED exch
      /\ orders' = [orders EXCEPT ![cur.id] =
                      [orders[cur.id] EXCEPT !.count = cur.best, !.price = cur.price,
                                             !.status = mark]]
      /\ fills' = fills \cup {new}
  BY DEF BookFill, Undecided
<1> HIDE DEF mark
<1>2. /\ cur.id \in DOMAIN orders /\ Status(cur.id) = "submitted"
      /\ Size(cur.id) = cur.size /\ cur.size \in Nat
      /\ cur.best \in Nat /\ cur.best <= Executed(cur.id)
      /\ \A r \in fills : r.id # cur.id
  BY <1>1, LifeWaits
<1>3. cur.id \in DOMAIN exch
  BY <1>1 DEF AccountsInv, OrderAtExchange
<1>4. /\ DOMAIN orders' = DOMAIN orders
      /\ \A i \in DOMAIN orders \ {cur.id} : orders'[i] = orders[i]
      /\ orders'[cur.id].status = mark
  <2> DEFINE row == orders[cur.id]
  <2>1. /\ DOMAIN orders' = DOMAIN orders
        /\ \A i \in DOMAIN orders \ {cur.id} : orders'[i] = orders[i]
        /\ orders'[cur.id] = [row EXCEPT !.count = cur.best, !.price = cur.price,
                                         !.status = mark]
    BY <1>1, <1>2
  <2>2. row \in [side: Side, count: Nat \ {0}, price: 0..100,
                 status: {"submitted", "rejected", "canceled", "partial", "filled"}]
    BY <1>2 DEF AccountsInv, TypeOK
  <2> HIDE DEF row
  <2>3. orders'[cur.id].status = mark
    BY <2>1, <2>2
  <2>4. QED
    BY <2>1, <2>3
<1>5. new.id = cur.id /\ new.count = cur.best
  OBVIOUS
<1> HIDE DEF new
<1>6. Executed(id)' = Executed(id) /\ (id \in DOMAIN exch => Size(id)' = Size(id))
  BY <1>1 DEF Executed, Size
<1>7. CASE id # cur.id
  <2>1. RowsOfOrder(id)' = RowsOfOrder(id)
    BY <1>1, <1>5, <1>7 DEF RowsOfOrder
  <2>2. QED
    BY <1>1, <1>4, <1>6, <1>7, <2>1, LifeElsewhere
<1>8. CASE id = cur.id
  <2>1. /\ Executed(id)' = Executed(id) /\ Size(id)' = Size(id)
        /\ (id \in DOMAIN exch)' = (id \in DOMAIN exch)
    BY <1>1, <1>3, <1>6, <1>8
  <2>2. {r.count : r \in {x \in fills : x.id = id}}' = {cur.best}
    <3>1. {x \in fills' : x.id = id} = {new}
      BY <1>1, <1>2, <1>5, <1>8
    <3>2. QED
      BY <1>5, <3>1
  <2>3. cur.best \in 1..Executed(id)
    <3>1. Executed(id) \in Nat
      BY ExecutedType DEF AccountsInv
    <3>2. QED
      BY <1>1, <1>2, <1>8, <3>1
  <2>4. /\ Status(id) = "submitted"
        /\ Status(id)' = IF cur.best = Size(id) THEN "filled" ELSE "partial"
    BY <1>2, <1>4, <1>8 DEF Status, mark
  <2>5. Order(id)!Book
    BY <2>1, <2>2, <2>3, <2>4 DEF Order!Book
  <2>6. QED
    BY <2>5 DEF Order!LifeStep, Order!LifeNext
<1>9. QED
  BY <1>7, <1>8

\* The row of the order in flight waits for its outcome.
LEMMA WaitsSubmit ==
  ASSUME AccountsInv, NEW k \in todo, Submit(k)
  PROVE  OrderWaits'
<1> DEFINE n == ApproveOrder(k[1], Requested, mem).size
           new == ClientOrderId(k[1])
           row == [side |-> k[2], count |-> n, price |-> Limit, status |-> "submitted"]
<1>1. /\ orders' = Put(orders, new, row)
      /\ cur' = [NoOrder EXCEPT !.id = new, !.side = k[2], !.size = n, !.price = Limit]
  BY DEF Submit
<1>2. cur'.id = new /\ cur'.size = n
  BY <1>1 DEF NoOrder
<1>3. row.status = "submitted" /\ row.count = n
  OBVIOUS
<1> HIDE DEF new, row, n
<1>4. orders'[new] = row
  BY <1>1 DEF Put
<1>5. QED
  BY <1>2, <1>3, <1>4 DEF OrderWaits

LEMMA WaitsStay ==
  ASSUME OrderWaits, pc' \in Undecided => pc \in Undecided /\ UNCHANGED orders,
         pc' \in Undecided => cur'.id = cur.id /\ cur'.size = cur.size
  PROVE  OrderWaits'
  BY DEF OrderWaits

LEMMA WaitsNext == AccountsInv /\ OrderWaits /\ [Next]_vars => OrderWaits'
<1> SUFFICES ASSUME AccountsInv, OrderWaits, [Next]_vars PROVE OrderWaits'
  OBVIOUS
<1>1. CASE TickStep
  <2>1. CASE \E k \in todo : Submit(k)
    BY <2>1, WaitsSubmit
  <2>2. CASE StartTick \/ ScanSome \/ Reconcile \/ ReconcileBlind \/ Load \/ EndTick \/ Abort
    <3>1. pc' \notin Undecided
      BY <2>2 DEF StartTick, ScanSome, Scan, Reconcile, ReconcileBlind, Load, EndTick, Abort,
                  Leave, Undecided
    <3>2. QED
      BY <3>1, WaitsStay
  <2>3. CASE \/ (\E k \in todo : RouteSkip(k)) \/ RecordFill \/ RecordSkip
             \/ PostNoId \/ PostFails \/ BookFill \/ BookNothing
    <3>1. pc' \notin Undecided
      BY <2>3 DEF RouteSkip, RecordFill, RecordSkip, PostNoId, PostFails, BookFill,
                  BookNothing, Advance, Undecided
    <3>2. QED
      BY <3>1, WaitsStay
  <2>4. CASE PostAnswered \/ PostRetries \/ PollSome \/ Close
    <3>1. pc \in Undecided /\ UNCHANGED orders
      BY <2>4 DEF PostAnswered, PostRetries, PollSome, Poll, Close, dbVars, Undecided
    <3>2. TypeOK /\ OrderInFlight /\ pc \in InFlight
      BY <3>1 DEF AccountsInv, Undecided, InFlight
    <3>3. cur \in [id: OrderId, side: Side, size: 1..MaxPerMarket,
                   attempts: 0..(PostAttempts - 1), polls: 0..PollBudget, best: Nat,
                   price: 0..100]
      BY <3>2, InFlightType
    <3>4. cur'.id = cur.id /\ cur'.size = cur.size
      BY <2>4, <3>3 DEF PostAnswered, PostRetries, PollSome, Poll, Close
    <3>5. QED
      BY <3>1, <3>4, WaitsStay
  <2>5. QED
    BY <1>1, <2>1, <2>2, <2>3, <2>4 DEF TickStep
<1>2. CASE \/ \E id \in DOMAIN exch, n \in 1..Requested, cost \in Costs : Match(id, n, cost)
           \/ \E t \in Ticker : Resolve(t)
           \/ Kill \/ Unkill
  <2>1. UNCHANGED <<pc, cur, orders>>
    BY <1>2 DEF Match, Resolve, Kill, Unkill, tickVars, dbVars
  <2>2. QED
    BY <2>1, WaitsStay
<1>3. CASE UNCHANGED vars
  <2>1. UNCHANGED <<pc, cur, orders>>
    BY <1>3 DEF vars, tickVars, dbVars
  <2>2. QED
    BY <2>1, WaitsStay
<1>4. QED
  BY <1>1, <1>2, <1>3 DEF Next

\* Every step keeps every order to its life.
LEMMA LifeNextStep ==
  ASSUME AccountsInv, AccountsInv', OrderWaits, [Next]_vars, NEW id \in OrderId
  PROVE  Order(id)!LifeStep
<1>1. CASE TickStep
  <2>1. CASE \E k \in todo : Submit(k)
    BY <2>1, LifeSubmit
  <2>2. CASE StartTick \/ ScanSome \/ Reconcile \/ ReconcileBlind \/ Load \/ EndTick \/ Abort
    <3>1. UNCHANGED <<orders, fills, exch>>
      BY <2>2 DEF StartTick, ScanSome, Scan, Reconcile, ReconcileBlind, Load, EndTick, Abort,
                  dbVars
    <3>2. QED
      BY <3>1, LifeQuiet
  <2>3. CASE (\E k \in todo : RouteSkip(k)) \/ RecordFill \/ RecordSkip \/ PollSome
    <3>1. UNCHANGED <<orders, fills, exch>>
      BY <2>3 DEF RouteSkip, RecordFill, RecordSkip, PollSome, Poll, dbVars
    <3>2. QED
      BY <3>1, LifeQuiet
  <2>4. CASE PostAnswered \/ PostNoId \/ PostFails \/ PostRetries
    BY <2>4, LifePost
  <2>5. CASE Close
    BY <2>5, LifeCloses
  <2>6. CASE BookFill
    BY <2>6, LifeBookFill
  <2>7. CASE BookNothing
    BY <2>7, LifeBookNothing
  <2>8. QED
    BY <1>1, <2>1, <2>2, <2>3, <2>4, <2>5, <2>6, <2>7 DEF TickStep
<1>2. CASE \E i \in DOMAIN exch, n \in 1..Requested, cost \in Costs : Match(i, n, cost)
  BY <1>2, LifeMatch
<1>3. CASE \E t \in Ticker : Resolve(t)
  BY <1>3, LifeCloses
<1>4. CASE Kill \/ Unkill \/ UNCHANGED vars
  <2>1. UNCHANGED <<orders, fills, exch>>
    BY <1>4 DEF Kill, Unkill, vars, dbVars
  <2>2. QED
    BY <2>1, LifeQuiet
<1>5. QED
  BY <1>1, <1>2, <1>3, <1>4 DEF Next

LEMMA LifeStarts ==
  ASSUME Init, NEW id \in OrderId
  PROVE  Order(id)!LifeInit
<1>1. DOMAIN orders = {} /\ DOMAIN exch = {} /\ fills = {}
  BY DEF Init
<1>2. QED
  BY <1>1 DEF Order!LifeInit, Status, Size, Executed

\* Every order, whatever its market, keeps to the life of module OrderLife: the
\* two accounts of it that orders.py and the exchange keep move only as it does,
\* through retries, late executions, failed cancels, crashes and later ticks.
THEOREM OrdersKeepToLife == Spec => ImplementsOrderLife
<1>1. Init => OrderWaits
  BY DEF Init, OrderWaits, Undecided
<1>2. Init => \A id \in OrderId : Order(id)!LifeInit
  BY LifeStarts
<1>3. AccountsInv /\ AccountsInv' /\ OrderWaits /\ [Next]_vars
        => [\A id \in OrderId : Order(id)!LifeStep]_vars
  BY LifeNextStep
<1>4. QED
  BY <1>1, <1>2, <1>3, AccountsInit, AccountsNext, WaitsNext, PTL DEF Spec, ImplementsOrderLife

\* So each order, seen through the two accounts, is a behaviour of OrderLife.
THEOREM EachOrderLives ==
  ASSUME NEW id \in OrderId
  PROVE  Spec => Order(id)!LifeSpec
<1>1. Init => OrderWaits
  BY DEF Init, OrderWaits, Undecided
<1>2. Init => Order(id)!LifeInit
  BY LifeStarts
<1>3. AccountsInv /\ AccountsInv' /\ OrderWaits /\ [Next]_vars
        => [Order(id)!LifeNext]_(Order(id)!account)
  BY LifeNextStep DEF Order!LifeStep
<1>4. QED
  BY <1>1, <1>2, <1>3, AccountsInit, AccountsNext, WaitsNext, PTL DEF Spec, Order!LifeSpec

=============================================================================
