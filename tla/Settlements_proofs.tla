------------------------- MODULE Settlements_proofs -------------------------
(***************************************************************************)
(* Proofs about Settlements for any number of processes, markets, fills    *)
(* and prices: what is recorded is final, and the dashboard's two queries  *)
(* never count a fill twice.                                               *)
(***************************************************************************)
EXTENDS Settlements, RiskLimits_proofs

\* The types of the exchange's and the database's side, as far as they matter.
StoreTypes ==
  /\ market \in [Ticker -> [status: {"active", "closed", "finalized"},
                            result: Outcome \cup {"none"}]]
  /\ rows \in [Ticker -> Outcome \cup {"none"}]
  /\ txn \in [Proc -> [Ticker -> Outcome \cup {"none"}]]
  /\ view = [stage |-> view.stage, settled |-> view.settled, open |-> view.open]
  /\ view.stage \in {"settled", "open"}

\* Only known markets have fills and are asked about.
KnownMarkets ==
  /\ todo \in [Proc -> SUBSET Ticker]
  /\ \A f \in fills : f.ticker \in Ticker

\* What an open transaction holds is final already, before it is committed.
PendingIsFinal ==
  \A p \in Proc, t \in Ticker :
    txn[p][t] # "none" => market[t] = [status |-> "finalized", result |-> txn[p][t]]

\* What the dashboard has read as settled stays settled until it reads the rest.
ViewIsSettled == view.stage = "open" => view.settled \subseteq SettledFills

SettlementInv ==
  /\ StoreTypes
  /\ KnownMarkets
  /\ ResultsAreFinal
  /\ PendingIsFinal
  /\ ViewIsSettled
  /\ NoFillTwice

LEMMA SettlementInit == Init => SettlementInv
<1> SUFFICES ASSUME Init PROVE SettlementInv
  OBVIOUS
<1>1. StoreTypes /\ KnownMarkets
  BY DEF Init, StoreTypes, KnownMarkets, NoRows, Outcome
<1>2. ResultsAreFinal /\ PendingIsFinal
  BY DEF Init, ResultsAreFinal, PendingIsFinal, NoRows
<1>3. ViewIsSettled /\ NoFillTwice
  BY DEF Init, ViewIsSettled, NoFillTwice
<1>4. QED
  BY <1>1, <1>2, <1>3 DEF SettlementInv

-----------------------------------------------------------------------------
\* The view survives a step that leaves it alone and takes no result back.
LEMMA ViewKept ==
  ASSUME SettlementInv, UNCHANGED view, fills \subseteq fills',
         \A t \in Ticker : rows[t] # "none" => rows'[t] # "none"
  PROVE  ViewIsSettled' /\ NoFillTwice'
<1>1. SettledFills \subseteq SettledFills'
  BY DEF SettlementInv, KnownMarkets, SettledFills
<1>2. QED
  BY <1>1 DEF SettlementInv, ViewIsSettled, NoFillTwice

\* A step that leaves the database's rows and transactions alone.
LEMMA StoreKept ==
  ASSUME SettlementInv, UNCHANGED <<market, rows, txn, writer, view>>, fills \subseteq fills',
         KnownMarkets'
  PROVE  SettlementInv'
<1>1. StoreTypes' /\ ResultsAreFinal' /\ PendingIsFinal'
  BY DEF SettlementInv, StoreTypes, ResultsAreFinal, PendingIsFinal, NoRows
<1>2. ViewIsSettled' /\ NoFillTwice'
  BY ViewKept
<1>3. QED
  BY <1>1, <1>2 DEF SettlementInv

\* A final result is inserted by the process that may write.
LEMMA InsertStep ==
  ASSUME SettlementInv, NEW p \in Proc, NEW t \in Ticker,
         market[t].status = "finalized", market[t].result # "none",
         Insert(p, t, market[t].result), UNCHANGED <<market, fills, rows, view>>,
         KnownMarkets'
  PROVE  SettlementInv'
<1>1. market[t] = [status |-> "finalized", result |-> market[t].result]
  BY DEF SettlementInv, StoreTypes
<1>2. market[t].result \in Outcome
  BY DEF SettlementInv, StoreTypes
<1> DEFINE result == IF rows[t] = "none" THEN market[t].result ELSE "none"
<1>3. txn' = [txn EXCEPT ![p][t] = result] /\ writer' = p
  BY DEF Insert
<1>4. txn' \in [Proc -> [Ticker -> Outcome \cup {"none"}]]
  BY <1>2, <1>3 DEF SettlementInv, StoreTypes
<1>5. StoreTypes'
  BY <1>4 DEF SettlementInv, StoreTypes
<1>6. \A q \in Proc, u \in Ticker : txn'[q][u] = IF q = p /\ u = t THEN result ELSE txn[q][u]
  BY <1>3 DEF SettlementInv, StoreTypes
<1>7. PendingIsFinal'
  BY <1>1, <1>6 DEF SettlementInv, PendingIsFinal
<1>8. \A q \in Proc : txn'[q] # NoRows => writer' = q
  <2> SUFFICES ASSUME NEW q \in Proc, txn'[q] # NoRows, q # p PROVE FALSE
    BY <1>3
  <2>1. txn'[q] = txn[q]
    BY <1>3 DEF SettlementInv, StoreTypes
  <2>2. writer = q
    BY <2>1 DEF SettlementInv, ResultsAreFinal
  <2>3. QED
    BY <2>2, ProcAssumption DEF Insert
<1>9. ResultsAreFinal'
  <2>1. \A u \in Ticker : rows'[u] # "none" =>
          market'[u] = [status |-> "finalized", result |-> rows'[u]]
    BY DEF SettlementInv, ResultsAreFinal
  <2>2. NoRows' = NoRows
    BY DEF NoRows
  <2>3. QED
    BY <1>8, <2>1, <2>2 DEF ResultsAreFinal
<1>10. ViewIsSettled' /\ NoFillTwice'
  BY ViewKept
<1>11. QED
  BY <1>5, <1>7, <1>9, <1>10 DEF SettlementInv

\* A check ends: its transaction is gone, the lock is free if it was its own.
LEMMA QuitKeeps ==
  ASSUME SettlementInv, NEW p \in Proc, Quit(p), UNCHANGED market
  PROVE  /\ txn' \in [Proc -> [Ticker -> Outcome \cup {"none"}]]
         /\ todo' \in [Proc -> SUBSET Ticker]
         /\ PendingIsFinal'
         /\ \A q \in Proc : txn'[q] # NoRows => writer' = q
<1>1. txn' = [txn EXCEPT ![p] = NoRows] /\ writer' = IF writer = p THEN "none" ELSE writer
  BY DEF Quit
<1>2. NoRows \in [Ticker -> Outcome \cup {"none"}]
  BY DEF NoRows
<1>3. txn' \in [Proc -> [Ticker -> Outcome \cup {"none"}]]
  BY <1>1, <1>2 DEF SettlementInv, StoreTypes
<1>4. \A q \in Proc : txn'[q] = IF q = p THEN NoRows ELSE txn[q]
  BY <1>1 DEF SettlementInv, StoreTypes
<1>5. \A t \in Ticker : NoRows[t] = "none"
  BY DEF NoRows
<1>6. PendingIsFinal'
  BY <1>4, <1>5 DEF SettlementInv, PendingIsFinal
<1>7. \A q \in Proc : txn'[q] # NoRows => writer' = q
  BY <1>1, <1>4 DEF SettlementInv, ResultsAreFinal
<1>8. todo' \in [Proc -> SUBSET Ticker]
  BY DEF Quit, SettlementInv, KnownMarkets
<1>9. QED
  BY <1>3, <1>6, <1>7, <1>8

\* The exchange moves a market that is not final yet.
LEMMA MarketStep ==
  ASSUME SettlementInv, NEW t \in Ticker, CloseMarket(t) \/ Finalize(t)
  PROVE  SettlementInv'
<1>1. market[t].status # "finalized"
  BY DEF CloseMarket, Finalize
<1>2. /\ market' \in [Ticker -> [status: {"active", "closed", "finalized"},
                                result: Outcome \cup {"none"}]]
      /\ \A u \in Ticker : u # t => market'[u] = market[u]
  <2>1. PICK to \in [status: {"closed", "finalized"}, result: Outcome \cup {"none"}] :
          market' = [market EXCEPT ![t] = to]
    <3>1. CASE CloseMarket(t)
      BY <3>1 DEF CloseMarket
    <3>2. CASE Finalize(t)
      BY <3>2 DEF Finalize
    <3>3. QED
      BY <3>1, <3>2
  <2>2. QED
    BY <2>1 DEF SettlementInv, StoreTypes
<1>3. UNCHANGED <<fills, rows, txn, todo, writer, view>>
  BY DEF CloseMarket, Finalize, checkVars
<1>4. rows[t] = "none" /\ \A p \in Proc : txn[p][t] = "none"
  <2>1. \A r \in Outcome \cup {"none"} : market[t] # [status |-> "finalized", result |-> r]
    BY <1>1
  <2>2. rows[t] \in Outcome \cup {"none"}
        /\ \A p \in Proc : txn[p][t] \in Outcome \cup {"none"}
    BY DEF SettlementInv, StoreTypes
  <2>3. QED
    BY <2>1, <2>2 DEF SettlementInv, ResultsAreFinal, PendingIsFinal
<1>5. StoreTypes' /\ KnownMarkets'
  BY <1>2, <1>3 DEF SettlementInv, StoreTypes, KnownMarkets
<1>6. PendingIsFinal'
  BY <1>2, <1>3, <1>4 DEF SettlementInv, PendingIsFinal
<1>7. ResultsAreFinal'
  BY <1>2, <1>3, <1>4 DEF SettlementInv, ResultsAreFinal, NoRows
<1>8. ViewIsSettled' /\ NoFillTwice'
  BY <1>3, ViewKept
<1>9. QED
  BY <1>5, <1>6, <1>7, <1>8 DEF SettlementInv

-----------------------------------------------------------------------------
LEMMA SettlementNext == SettlementInv /\ [Next]_vars => SettlementInv'
<1> SUFFICES ASSUME SettlementInv, [Next]_vars PROVE SettlementInv'
  OBVIOUS
<1>1. ASSUME NEW p \in Proc, NEW t \in Ticker, NEW side \in Side, NEW price \in Price,
             Buy(p, t, side, price)
      PROVE  SettlementInv'
  <2>1. KnownMarkets' /\ fills \subseteq fills'
    BY <1>1 DEF Buy, checkVars, SettlementInv, KnownMarkets
  <2>2. QED
    BY <1>1, <2>1, StoreKept DEF Buy, checkVars
<1>2. ASSUME NEW p \in Proc, StartCheck(p) PROVE SettlementInv'
  <2>1. UnsettledTickers \subseteq Ticker
    BY DEF UnsettledTickers, SettlementInv, KnownMarkets
  <2>2. KnownMarkets'
    BY <1>2, <2>1 DEF StartCheck, SettlementInv, KnownMarkets
  <2>3. QED
    BY <1>2, <2>2, StoreKept DEF StartCheck
<1>3. ASSUME NEW p \in Proc, NEW t \in todo[p], Ask(p, t) PROVE SettlementInv'
  <2>1. t \in Ticker /\ KnownMarkets'
    BY <1>3 DEF Ask, SettlementInv, KnownMarkets
  <2>2. CASE market[t].status # "finalized" \/ market[t].result = "none"
    BY <1>3, <2>1, <2>2, StoreKept DEF Ask
  <2>3. CASE ~(market[t].status # "finalized" \/ market[t].result = "none")
    BY <1>3, <2>1, <2>3, InsertStep DEF Ask
  <2>4. QED
    BY <2>2, <2>3
<1>4. ASSUME NEW p \in Proc, NEW t \in todo[p], AskFails(p, t) PROVE SettlementInv'
  <2>1. KnownMarkets'
    BY <1>4 DEF AskFails, SettlementInv, KnownMarkets
  <2>2. QED
    BY <1>4, <2>1, StoreKept DEF AskFails
<1>5. ASSUME NEW p \in Proc, Finish(p) PROVE SettlementInv'
  <2>1. /\ rows' = [t \in Ticker |-> IF txn[p][t] = "none" THEN rows[t] ELSE txn[p][t]]
        /\ Quit(p) /\ UNCHANGED <<market, fills, view>>
    BY <1>5 DEF Finish
  <2>2. rows' \in [Ticker -> Outcome \cup {"none"}]
    BY <2>1 DEF SettlementInv, StoreTypes
  <2>3. StoreTypes' /\ KnownMarkets' /\ PendingIsFinal'
    BY <2>1, <2>2, QuitKeeps DEF SettlementInv, StoreTypes, KnownMarkets
  <2>4. ResultsAreFinal'
    <3>1. \A t \in Ticker : rows'[t] # "none" =>
            market'[t] = [status |-> "finalized", result |-> rows'[t]]
      BY <2>1 DEF SettlementInv, ResultsAreFinal, PendingIsFinal
    <3>2. NoRows' = NoRows
      BY DEF NoRows
    <3>3. QED
      BY <2>1, <3>1, <3>2, QuitKeeps DEF ResultsAreFinal
  <2>5. ViewIsSettled' /\ NoFillTwice'
    <3>1. \A t \in Ticker : rows[t] # "none" => rows'[t] # "none"
      BY <2>1
    <3>2. QED
      BY <2>1, <3>1, ViewKept
  <2>6. QED
    BY <2>3, <2>4, <2>5 DEF SettlementInv
<1>6. ASSUME NEW p \in Proc, Abort(p) PROVE SettlementInv'
  <2>1. Quit(p) /\ UNCHANGED <<market, fills, rows, view>>
    BY <1>6 DEF Abort
  <2>2. StoreTypes' /\ KnownMarkets' /\ PendingIsFinal'
    BY <2>1, QuitKeeps DEF SettlementInv, StoreTypes, KnownMarkets
  <2>3. ResultsAreFinal'
    <3>1. NoRows' = NoRows
      BY DEF NoRows
    <3>2. QED
      BY <2>1, <3>1, QuitKeeps DEF SettlementInv, ResultsAreFinal
  <2>4. ViewIsSettled' /\ NoFillTwice'
    BY <2>1, ViewKept
  <2>5. QED
    BY <2>2, <2>3, <2>4 DEF SettlementInv
<1>7. ASSUME ReadPnl PROVE SettlementInv'
  <2>1. UNCHANGED <<market, fills, rows, txn, todo, writer>>
    BY <1>7 DEF ReadPnl, checkVars
  <2>2. KnownMarkets' /\ ResultsAreFinal' /\ PendingIsFinal'
    BY <2>1 DEF SettlementInv, KnownMarkets, ResultsAreFinal, PendingIsFinal, NoRows
  <2>3. SettledFills' = SettledFills
    BY <2>1 DEF SettledFills
  <2>4. CASE view.stage = "settled"
    <3>1. view' = [stage |-> "open", settled |-> SettledFills, open |-> {}]
      BY <1>7, <2>4 DEF ReadPnl
    <3>2. QED
      BY <2>1, <2>2, <2>3, <3>1 DEF SettlementInv, StoreTypes, ViewIsSettled, NoFillTwice
  <2>5. CASE view.stage # "settled"
    <3>1. view' = [view EXCEPT !.stage = "settled", !.open = OpenFills]
      BY <1>7, <2>5 DEF ReadPnl
    <3>2. view' = [stage |-> "settled", settled |-> view.settled, open |-> OpenFills]
      BY <3>1 DEF SettlementInv, StoreTypes
    <3>3. view.settled \cap OpenFills = {}
      BY <2>5 DEF SettlementInv, StoreTypes, ViewIsSettled, OpenFills
    <3>4. ViewIsSettled' /\ NoFillTwice'
      BY <3>2, <3>3 DEF ViewIsSettled, NoFillTwice
    <3>5. StoreTypes'
      BY <2>1, <3>2 DEF SettlementInv, StoreTypes
    <3>6. QED
      BY <2>2, <3>4, <3>5 DEF SettlementInv
  <2>6. QED
    BY <2>4, <2>5
<1>8. ASSUME UNCHANGED vars PROVE SettlementInv'
  <2>1. KnownMarkets'
    BY <1>8 DEF vars, checkVars, SettlementInv, KnownMarkets
  <2>2. QED
    BY <1>8, <2>1, StoreKept DEF vars, checkVars
<1>9. ASSUME NEW p \in Proc, BeginTick(p) \/ LeaveTick(p) PROVE SettlementInv'
  <2>1. UNCHANGED <<market, fills, rows, todo, txn, writer, view>>
    BY <1>9 DEF BeginTick, LeaveTick
  <2>2. KnownMarkets'
    BY <2>1 DEF SettlementInv, KnownMarkets
  <2>3. QED
    BY <2>1, <2>2, StoreKept
<1>10. QED
  BY <1>1, <1>2, <1>3, <1>4, <1>5, <1>6, <1>7, <1>8, <1>9, MarketStep DEF Next, CheckStep

LEMMA SettlementInvariant == Spec => []SettlementInv
  BY SettlementInit, SettlementNext, PTL DEF Spec

\* Whatever number of processes check at once and wherever they are cut short, a
\* recorded result is the exchange's final one (settlements.py:45-53).
THEOREM ResultsAlwaysFinal == Spec => []ResultsAreFinal
<1>1. SettlementInv => ResultsAreFinal
  BY DEF SettlementInv
<1>2. QED
  BY <1>1, SettlementInvariant, PTL

\* The dashboard never counts a fill both as settled and as open, whatever is
\* committed between its two queries (queries.py:158-201).
THEOREM DashboardCountsOnce == Spec => []NoFillTwice
<1>1. SettlementInv => NoFillTwice
  BY DEF SettlementInv
<1>2. QED
  BY <1>1, SettlementInvariant, PTL

-----------------------------------------------------------------------------
\* The types, with what makes the sums of the table's counts numbers.
TypeInv == TypeOK /\ IsFiniteSet(fills)

\* What load_portfolio reads is a portfolio.
LEMMA LoadType == TypeInv => LoadPortfolio \in Portfolio
<1> SUFFICES ASSUME TypeInv PROVE LoadPortfolio \in Portfolio
  OBVIOUS
<1>1. IsFiniteSet(fills) /\ \A r \in fills : r.count \in Nat
  BY CapsAssumption DEF TypeInv, TypeOK
<1>2. \A R : R \subseteq fills => Contracts(R) \in Nat
  <2> SUFFICES ASSUME NEW R, R \subseteq fills PROVE Contracts(R) \in Nat
    OBVIOUS
  <2>1. IsFiniteSet(R) /\ \A r \in R : r.count \in Nat
    BY <1>1, FS_Subset
  <2>2. QED
    BY <2>1, ContractsType
<1>3. Contracts(fills) \in Int
  BY <1>2
<1>4. [t \in Ticker |-> Contracts({r \in fills : r.ticker = t})] \in [Ticker -> Int]
  BY <1>2
<1>5. [e \in Event |-> Contracts({r \in fills : EventOf[r.ticker] = e})] \in [Event -> Int]
  BY <1>2
<1>6. QED
  BY <1>3, <1>4, <1>5 DEF LoadPortfolio, Portfolio

\* A fill has a number of its own and between one contract and the market cap.
LEMMA BuyType ==
  ASSUME TypeInv, NEW p \in Proc, NEW t \in Ticker, NEW side \in Side, NEW price \in Price,
         Buy(p, t, side, price)
  PROVE  TypeInv'
<1> DEFINE size == ApproveOrder(t, Requested, LoadPortfolio).size
           id == Cardinality(fills) + 1
           fill == [id |-> id, ticker |-> t, side |-> side, price |-> price, count |-> size]
<1>1. /\ size > 0 /\ Cardinality(fills) < MaxFills
      /\ fills' = fills \cup {fill}
      /\ UNCHANGED <<market, rows, checkVars, view>>
  BY DEF Buy
<1>2. size \in 1..MaxPerMarket
  <2>1. size \in Nat /\ size <= Requested
    BY <1>1, LoadType, RequestedInt, ApproveSound
  <2> HIDE DEF size
  <2>2. Requested <= MaxPerMarket
    BY CapsAssumption DEF Requested, Lesser
  <2>3. QED
    BY <1>1, <2>1, <2>2, RequestedInt, CapsAssumption
<1>3. id \in 1..MaxFills
  <2>1. Cardinality(fills) \in Nat
    BY FS_CardinalityType DEF TypeInv
  <2>2. QED
    BY <1>1, <2>1, MaxFillsAssumption
<1> HIDE DEF size, id
<1>4. fill \in [id: 1..MaxFills, ticker: Ticker, side: Side, price: Price,
                count: 1..MaxPerMarket]
  BY <1>2, <1>3
<1> HIDE DEF fill
<1>5. IsFiniteSet(fills')
  BY <1>1, FS_AddElement DEF TypeInv
<1>6. fills' \subseteq [id: 1..MaxFills, ticker: Ticker, side: Side, price: Price,
                        count: 1..MaxPerMarket]
  BY <1>1, <1>4 DEF TypeInv, TypeOK
<1>7. view' \in [stage: {"settled", "open"}, settled: SUBSET fills', open: SUBSET fills']
  BY <1>1 DEF TypeInv, TypeOK
<1>8. QED
  BY <1>1, <1>5, <1>6, <1>7 DEF TypeInv, TypeOK, checkVars, NoRows, Outcome

\* A check that ends keeps nothing.
LEMMA QuitType ==
  ASSUME TypeInv, NEW p \in Proc, Quit(p)
  PROVE  /\ pc' \in [Proc -> {"idle", "tick", "ask"}]
         /\ todo' \in [Proc -> SUBSET Ticker]
         /\ txn' \in [Proc -> [Ticker -> Outcome \cup {"none"}]]
         /\ writer' \in Proc \cup {"none"}
         /\ \A q \in Proc : pc'[q] # "ask" => todo'[q] = {} /\ txn'[q] = NoRows /\ writer' # q
<1>1. NoRows \in [Ticker -> Outcome \cup {"none"}]
  BY DEF NoRows
<1>2. /\ pc' = [pc EXCEPT ![p] = "idle"] /\ todo' = [todo EXCEPT ![p] = {}]
      /\ txn' = [txn EXCEPT ![p] = NoRows]
      /\ writer' = IF writer = p THEN "none" ELSE writer
  BY DEF Quit
<1>3. /\ pc' \in [Proc -> {"idle", "tick", "ask"}] /\ todo' \in [Proc -> SUBSET Ticker]
      /\ txn' \in [Proc -> [Ticker -> Outcome \cup {"none"}]]
      /\ writer' \in Proc \cup {"none"}
  BY <1>1, <1>2 DEF TypeInv, TypeOK
<1>4. ASSUME NEW q \in Proc, pc'[q] # "ask"
      PROVE  todo'[q] = {} /\ txn'[q] = NoRows /\ writer' # q
  <2>1. CASE q = p
    BY <1>2, <2>1, ProcAssumption DEF TypeInv, TypeOK
  <2>2. CASE q # p
    <3>1. pc[q] # "ask" /\ todo'[q] = todo[q] /\ txn'[q] = txn[q]
      BY <1>2, <1>4, <2>2 DEF TypeInv, TypeOK
    <3>2. todo[q] = {} /\ txn[q] = NoRows /\ writer # q
      BY <3>1 DEF TypeInv, TypeOK
    <3>3. QED
      BY <1>2, <3>1, <3>2, ProcAssumption
  <2>3. QED
    BY <2>1, <2>2
<1>5. QED
  BY <1>3, <1>4

LEMMA TypeInit == Init => TypeInv
<1> SUFFICES ASSUME Init PROVE TypeInv
  OBVIOUS
<1>1. TypeOK
  BY ProcAssumption DEF Init, TypeOK, NoRows, Outcome
<1>2. IsFiniteSet(fills)
  BY FS_EmptySet DEF Init
<1>3. QED
  BY <1>1, <1>2 DEF TypeInv

LEMMA TypeNext == TypeInv /\ [Next]_vars => TypeInv'
<1> SUFFICES ASSUME TypeInv, [Next]_vars PROVE TypeInv'
  OBVIOUS
<1> NoRows' = NoRows
  BY DEF NoRows
<1>1. ASSUME NEW p \in Proc, StartCheck(p) PROVE TypeInv'
  <2>1. UnsettledTickers \subseteq Ticker
    BY DEF UnsettledTickers, TypeInv, TypeOK
  <2>2. /\ todo' = [todo EXCEPT ![p] = UnsettledTickers]
        /\ pc' = [pc EXCEPT ![p] = "ask"]
        /\ UNCHANGED <<market, fills, rows, txn, writer, view>>
    BY <1>1 DEF StartCheck
  <2>3. todo' \in [Proc -> SUBSET Ticker] /\ pc' \in [Proc -> {"idle", "tick", "ask"}]
    BY <2>1, <2>2 DEF TypeInv, TypeOK
  <2>4. \A q \in Proc : pc'[q] # "ask" => todo'[q] = {} /\ txn'[q] = NoRows /\ writer' # q
    BY <2>2 DEF TypeInv, TypeOK
  <2>5. QED
    BY <2>2, <2>3, <2>4 DEF TypeInv, TypeOK
<1>2. ASSUME NEW p \in Proc, NEW t \in todo[p], Ask(p, t) PROVE TypeInv'
  <2>1. /\ pc[p] = "ask" /\ todo' = [todo EXCEPT ![p] = @ \ {t}]
        /\ UNCHANGED <<market, fills, rows, pc, view>>
    BY <1>2 DEF Ask
  <2>2. todo' \in [Proc -> SUBSET Ticker] /\ t \in Ticker
    BY <2>1 DEF TypeInv, TypeOK
  <2>3. CASE UNCHANGED <<txn, writer>>
    <3>1. \A q \in Proc : pc'[q] # "ask" => todo'[q] = {} /\ txn'[q] = NoRows /\ writer' # q
      BY <2>1, <2>3 DEF TypeInv, TypeOK
    <3>2. QED
      BY <2>1, <2>2, <2>3, <3>1 DEF TypeInv, TypeOK
  <2>4. CASE Insert(p, t, market[t].result)
    <3>1. writer' = p
          /\ txn' = [txn EXCEPT ![p][t] = IF rows[t] = "none" THEN market[t].result ELSE "none"]
      BY <2>4 DEF Insert
    <3>2. market[t].result \in Outcome \cup {"none"}
      BY <2>2 DEF TypeInv, TypeOK
    <3>3. txn' \in [Proc -> [Ticker -> Outcome \cup {"none"}]]
      BY <2>2, <3>1, <3>2 DEF TypeInv, TypeOK
    <3>4. \A q \in Proc : pc'[q] # "ask" => todo'[q] = {} /\ txn'[q] = NoRows /\ writer' # q
      BY <2>1, <3>1 DEF TypeInv, TypeOK
    <3>5. QED
      BY <2>1, <2>2, <3>1, <3>3, <3>4 DEF TypeInv, TypeOK
  <2>5. QED
    BY <1>2, <2>3, <2>4 DEF Ask
<1>3. ASSUME NEW p \in Proc, NEW t \in todo[p], AskFails(p, t) PROVE TypeInv'
  <2>1. /\ pc[p] = "ask" /\ todo' = [todo EXCEPT ![p] = @ \ {t}]
        /\ UNCHANGED <<market, fills, rows, pc, txn, writer, view>>
    BY <1>3 DEF AskFails
  <2>2. todo' \in [Proc -> SUBSET Ticker]
    BY <2>1 DEF TypeInv, TypeOK
  <2>3. \A q \in Proc : pc'[q] # "ask" => todo'[q] = {} /\ txn'[q] = NoRows /\ writer' # q
    BY <2>1 DEF TypeInv, TypeOK
  <2>4. QED
    BY <2>1, <2>2, <2>3 DEF TypeInv, TypeOK
<1>4. ASSUME NEW p \in Proc, Finish(p) PROVE TypeInv'
  <2>1. /\ rows' = [t \in Ticker |-> IF txn[p][t] = "none" THEN rows[t] ELSE txn[p][t]]
        /\ Quit(p) /\ UNCHANGED <<market, fills, view>>
    BY <1>4 DEF Finish
  <2>2. rows' \in [Ticker -> Outcome \cup {"none"}]
    BY <2>1 DEF TypeInv, TypeOK
  <2>3. QED
    BY <2>1, <2>2, QuitType DEF TypeInv, TypeOK
<1>5. ASSUME NEW p \in Proc, Abort(p) PROVE TypeInv'
  BY <1>5, QuitType DEF Abort, TypeInv, TypeOK
<1>6. ASSUME NEW t \in Ticker, CloseMarket(t) \/ Finalize(t) PROVE TypeInv'
  <2>1. PICK to \in [status: {"closed", "finalized"}, result: Outcome \cup {"none"}] :
          market' = [market EXCEPT ![t] = to]
    <3>1. CASE CloseMarket(t)
      BY <3>1 DEF CloseMarket
    <3>2. CASE Finalize(t)
      BY <3>2 DEF Finalize
    <3>3. QED
      BY <1>6, <3>1, <3>2
  <2>2. market' \in [Ticker -> [status: {"active", "closed", "finalized"},
                                result: Outcome \cup {"none"}]]
    BY <2>1 DEF TypeInv, TypeOK
  <2>3. UNCHANGED <<fills, rows, checkVars, view>>
    BY <1>6 DEF CloseMarket, Finalize
  <2>4. QED
    BY <2>2, <2>3 DEF TypeInv, TypeOK, checkVars
<1>7. ASSUME ReadPnl PROVE TypeInv'
  <2>1. UNCHANGED <<market, fills, rows, checkVars>>
    BY <1>7 DEF ReadPnl
  <2>2. SettledFills \subseteq fills /\ OpenFills \subseteq fills
    BY DEF SettledFills, OpenFills
  <2>3. view' \in [stage: {"settled", "open"}, settled: SUBSET fills, open: SUBSET fills]
    <3>1. CASE view.stage = "settled"
      BY <1>7, <2>2, <3>1 DEF ReadPnl
    <3>2. CASE view.stage # "settled"
      <4>1. view' = [view EXCEPT !.stage = "settled", !.open = OpenFills]
        BY <1>7, <3>2 DEF ReadPnl
      <4>2. view \in [stage: {"settled", "open"}, settled: SUBSET fills, open: SUBSET fills]
        BY DEF TypeInv, TypeOK
      <4>3. QED
        BY <2>2, <4>1, <4>2
    <3>3. QED
      BY <3>1, <3>2
  <2>4. QED
    BY <2>1, <2>3 DEF TypeInv, TypeOK, checkVars
<1>8. ASSUME UNCHANGED vars PROVE TypeInv'
  BY <1>8 DEF vars, checkVars, TypeInv, TypeOK
<1>9. ASSUME NEW p \in Proc, BeginTick(p) \/ LeaveTick(p) PROVE TypeInv'
  <2>1. PICK stage \in {"idle", "tick"} : pc' = [pc EXCEPT ![p] = stage]
    BY <1>9 DEF BeginTick, LeaveTick
  <2>2. UNCHANGED <<market, fills, rows, todo, txn, writer, view>> /\ pc[p] # "ask"
    BY <1>9 DEF BeginTick, LeaveTick
  <2>3. pc' \in [Proc -> {"idle", "tick", "ask"}]
    BY <2>1 DEF TypeInv, TypeOK
  <2>4. \A q \in Proc : pc'[q] # "ask" => todo'[q] = {} /\ txn'[q] = NoRows /\ writer' # q
    BY <2>1, <2>2 DEF TypeInv, TypeOK
  <2>5. QED
    BY <2>2, <2>3, <2>4 DEF TypeInv, TypeOK
<1>10. QED
  BY <1>1, <1>2, <1>3, <1>4, <1>5, <1>6, <1>7, <1>8, <1>9, BuyType DEF Next, CheckStep

\* Every variable has its type, and a process that is not checking keeps nothing
\* of a check: no list, no open transaction, no write lock, however the check
\* ended (settlements.py:25-65).
THEOREM TypeCorrect == Spec => []TypeOK
<1>1. TypeInv => TypeOK
  BY DEF TypeInv
<1>2. QED
  BY <1>1, TypeInit, TypeNext, PTL DEF Spec
=============================================================================
