------------------------- MODULE PaperTrading_proofs -------------------------
(***************************************************************************)
(* Proofs about PaperTrading for every set of markets, events and caps.    *)
(* Type correctness holds for any number of traders; the caps, the single  *)
(* entry and the exposure ledger hold for one trader on the database.      *)
(***************************************************************************)
EXTENDS PaperTrading, RiskLimits_proofs

\* Leaving a tick keeps the types of the process variables.
LEMMA LeaveType ==
  ASSUME TypeOK, NEW p \in Proc, Leave(p)
  PROVE  /\ pc' \in [Proc -> Stage] /\ tick' \in [Proc -> Nat]
         /\ todo' \in [Proc -> SUBSET Ticker]
         /\ pending' \in [Proc -> [ticker: Ticker \cup {"none"}, size: Nat]]
         /\ mem' \in [Proc -> Portfolio]
  BY NoPositionsType DEF TypeOK, Leave, Stage, NoFill

\* And the other processes' fills keep their rows.
LEMMA LeavePending ==
  ASSUME TypeOK, PendingHasRow, NEW p \in Proc, Leave(p), fills' = fills
  PROVE  PendingHasRow'
<1> SUFFICES ASSUME NEW q \in Proc, pc'[q] = "record"
             PROVE  /\ pending'[q].ticker \in Ticker /\ pending'[q].size > 0
                    /\ [tick |-> tick'[q], ticker |-> pending'[q].ticker,
                        count |-> pending'[q].size] \in fills'
  BY DEF PendingHasRow
<1>1. q # p
  BY DEF Leave, TypeOK
<1>2. pc'[q] = pc[q] /\ tick'[q] = tick[q] /\ pending'[q] = pending[q]
  BY <1>1 DEF Leave, TypeOK
<1>3. QED
  BY <1>2 DEF PendingHasRow

\* Type correctness and the rows behind pending fills are inductive for any
\* number of traders.
TypeInv == TypeOK /\ PendingHasRow

LEMMA TypeInvInit == Init => TypeInv
<1> SUFFICES ASSUME Init PROVE TypeOK /\ PendingHasRow
  BY DEF TypeInv
<1>1. /\ pc \in [Proc -> Stage] /\ tick \in [Proc -> Nat]
      /\ todo \in [Proc -> SUBSET Ticker]
  BY DEF Init, Stage
<1>2. pending \in [Proc -> [ticker: Ticker \cup {"none"}, size: Nat]]
  BY DEF Init, NoFill
<1>3. mem \in [Proc -> Portfolio] /\ book \in Portfolio
  BY NoPositionsType DEF Init
<1>4. TypeOK
  BY <1>1, <1>2, <1>3 DEF Init, TypeOK
<1>5. PendingHasRow
  BY DEF Init, PendingHasRow
<1>6. QED
  BY <1>4, <1>5

LEMMA TypeInvNext == TypeInv /\ [Next]_vars => TypeInv'
<1> SUFFICES ASSUME TypeOK, PendingHasRow, [Next]_vars
             PROVE  TypeOK' /\ PendingHasRow'
  BY DEF TypeInv
<1> USE DEF dbVars, procVars
<1>1. ASSUME NEW p \in Proc, StartTick(p)
      PROVE  TypeOK' /\ PendingHasRow'
  <2>1. TypeOK'
    BY <1>1 DEF StartTick, TypeOK, Stage
  <2>2. PendingHasRow'
    BY <1>1 DEF StartTick, TypeOK, PendingHasRow
  <2>3. QED
    BY <2>1, <2>2
<1>2. ASSUME NEW p \in Proc, NEW S \in Picks, Scan(p, S)
      PROVE  TypeOK' /\ PendingHasRow'
  <2>1. TypeOK'
    BY <1>2 DEF Scan, TypeOK, Stage, Picks
  <2>2. PendingHasRow'
    BY <1>2 DEF Scan, TypeOK, PendingHasRow
  <2>3. QED
    BY <2>1, <2>2
<1>3. ASSUME NEW p \in Proc, Load(p)
      PROVE  TypeOK' /\ PendingHasRow'
  <2>1. CASE todo[p] = {}
    <3>1. Leave(p) /\ UNCHANGED <<lock, dbVars, ticks, resolved>>
      BY <1>3, <2>1 DEF Load
    <3>2. TypeOK'
      BY <3>1, LeaveType DEF TypeOK
    <3>3. PendingHasRow'
      BY <3>1, LeavePending
    <3>4. QED
      BY <3>2, <3>3
  <2>2. CASE todo[p] # {}
    <3>1. /\ mem' = [mem EXCEPT ![p] = book] /\ pc' = [pc EXCEPT ![p] = "route"]
          /\ UNCHANGED <<tick, todo, pending, lock, dbVars, ticks, resolved>>
      BY <1>3, <2>2 DEF Load
    <3>2. mem' \in [Proc -> Portfolio] /\ pc' \in [Proc -> Stage]
      BY <3>1 DEF TypeOK, Stage
    <3>3. TypeOK'
      BY <3>1, <3>2 DEF TypeOK
    <3>4. PendingHasRow'
      BY <3>1 DEF TypeOK, PendingHasRow
    <3>5. QED
      BY <3>3, <3>4
  <2>3. QED
    BY <2>1, <2>2
<1>4. ASSUME NEW p \in Proc, NEW t \in todo[p], RouteSkip(p, t)
      PROVE  TypeOK' /\ PendingHasRow'
  <2>1. t \in Ticker /\ mem[p] \in Portfolio
    BY <1>4 DEF TypeOK
  <2> DEFINE d == ApproveOrder(t, Requested, mem[p])
  <2>2. d.size = 0 /\ d.reason \in RefuseReason
    BY <1>4, <2>1, ApproveSound, RequestedInt DEF RouteSkip
  <2> HIDE DEF d
  <2>3. /\ decisions' = decisions \cup
             {[tick |-> tick[p], ticker |-> t, action |-> d.reason, size |-> 0]}
        /\ todo' = [todo EXCEPT ![p] = @ \ {t}]
        /\ pc' = [pc EXCEPT ![p] = IF todo'[p] = {} THEN "settle" ELSE "route"]
        /\ pc[p] = "route"
        /\ UNCHANGED <<lock, tick, pending, mem, fills, book, settled, ticks, resolved>>
    BY <1>4 DEF RouteSkip, Advance, d
  <2>4. decisions' \subseteq
          [tick: Nat, ticker: Ticker, action: RefuseReason \cup {"buy"}, size: Nat]
    BY <2>1, <2>2, <2>3 DEF TypeOK
  <2>5. todo' \in [Proc -> SUBSET Ticker] /\ pc' \in [Proc -> Stage]
    BY <2>3 DEF TypeOK, Stage
  <2>6. TypeOK'
    BY <2>3, <2>4, <2>5 DEF TypeOK
  <2>7. PendingHasRow'
    BY <2>3 DEF PendingHasRow, TypeOK
  <2>8. QED
    BY <2>6, <2>7
<1>5. ASSUME NEW p \in Proc, NEW t \in todo[p], RouteFill(p, t)
      PROVE  TypeOK' /\ PendingHasRow'
  <2>1. t \in Ticker /\ mem[p] \in Portfolio /\ tick[p] \in Nat
    BY <1>5 DEF TypeOK
  <2> DEFINE d == ApproveOrder(t, Requested, mem[p])
             row == [tick |-> tick[p], ticker |-> t, count |-> d.size]
  <2>2. d.size \in Nat \ {0}
    BY <1>5, <2>1, ApproveSound, RequestedInt DEF RouteFill
  <2>3. /\ fills' = fills \cup {row}
        /\ book' = With(book, t, d.size)
        /\ pending' = [pending EXCEPT ![p] = [ticker |-> t, size |-> d.size]]
        /\ todo' = [todo EXCEPT ![p] = @ \ {t}]
        /\ pc' = [pc EXCEPT ![p] = "record"]
        /\ UNCHANGED <<lock, tick, mem, decisions, settled, ticks, resolved>>
    BY <1>5 DEF RouteFill
  <2> HIDE DEF d
  <2>4. book' \in Portfolio
    BY <2>1, <2>2, <2>3, WithEffect DEF TypeOK
  <2>5. fills' \subseteq [tick: Nat, ticker: Ticker, count: Nat \ {0}]
    BY <2>1, <2>2, <2>3 DEF TypeOK
  <2>6. pending' \in [Proc -> [ticker: Ticker \cup {"none"}, size: Nat]]
    BY <2>1, <2>2, <2>3 DEF TypeOK
  <2>7. todo' \in [Proc -> SUBSET Ticker] /\ pc' \in [Proc -> Stage]
    BY <2>3 DEF TypeOK, Stage
  <2>8. TypeOK'
    BY <2>3, <2>4, <2>5, <2>6, <2>7 DEF TypeOK
  <2>9. PendingHasRow'
    BY <2>1, <2>2, <2>3 DEF PendingHasRow, TypeOK
  <2>10. QED
    BY <2>8, <2>9
<1>6. ASSUME NEW p \in Proc, RecordFill(p)
      PROVE  TypeOK' /\ PendingHasRow'
  <2>1. /\ pc[p] = "record"
        /\ mem' = [mem EXCEPT ![p] = ApplyFill(@, pending[p].ticker, pending[p].size)]
        /\ decisions' = decisions \cup
             {[tick |-> tick[p], ticker |-> pending[p].ticker,
               action |-> "buy", size |-> pending[p].size]}
        /\ pending' = [pending EXCEPT ![p] = NoFill]
        /\ pc' = [pc EXCEPT ![p] = IF todo'[p] = {} THEN "settle" ELSE "route"]
        /\ UNCHANGED <<lock, tick, todo, fills, book, settled, ticks, resolved>>
    BY <1>6 DEF RecordFill, Advance
  <2>2. /\ pending[p].ticker \in Ticker /\ pending[p].size \in Nat
        /\ mem[p] \in Portfolio /\ tick[p] \in Nat
    BY <2>1 DEF TypeOK, PendingHasRow
  <2>3. mem' \in [Proc -> Portfolio]
    BY <2>1, <2>2, WithEffect DEF TypeOK, ApplyFill
  <2>4. decisions' \subseteq
          [tick: Nat, ticker: Ticker, action: RefuseReason \cup {"buy"}, size: Nat]
    BY <2>1, <2>2 DEF TypeOK
  <2>5. pc' \in [Proc -> Stage]
    BY <2>1 DEF TypeOK, Stage
  <2>6. pending' \in [Proc -> [ticker: Ticker \cup {"none"}, size: Nat]]
    BY <2>1 DEF TypeOK, NoFill
  <2>7. TypeOK'
    BY <2>1, <2>3, <2>4, <2>5, <2>6 DEF TypeOK
  <2>8. PendingHasRow'
    BY <2>1 DEF PendingHasRow, TypeOK
  <2>9. QED
    BY <2>7, <2>8
<1>7. ASSUME NEW p \in Proc, NEW S \in SUBSET (UnsettledTickers \cap resolved),
             Settle(p, S)
      PROVE  TypeOK' /\ PendingHasRow'
  <2>1. settled' \subseteq Ticker
    BY <1>7 DEF Settle, TypeOK
  <2>2. Leave(p) /\ UNCHANGED <<lock, fills, book, decisions, ticks, resolved>>
    BY <1>7 DEF Settle
  <2>3. TypeOK'
    BY <2>1, <2>2, LeaveType DEF TypeOK
  <2>4. PendingHasRow'
    BY <2>2, LeavePending
  <2>5. QED
    BY <2>3, <2>4
<1>8. ASSUME NEW p \in Proc, Abort(p)
      PROVE  TypeOK' /\ PendingHasRow'
  <2>1. Leave(p) /\ UNCHANGED <<lock, dbVars, ticks, resolved>>
    BY <1>8 DEF Abort
  <2>2. TypeOK'
    BY <2>1, LeaveType DEF TypeOK
  <2>3. PendingHasRow'
    BY <2>1, LeavePending
  <2>4. QED
    BY <2>2, <2>3
<1>9. ASSUME Kill \/ Unkill \/ (\E t \in Ticker : Resolve(t)) \/ UNCHANGED vars
      PROVE  TypeOK' /\ PendingHasRow'
  <2>1. lock' \in BOOLEAN /\ resolved' \subseteq Ticker /\ UNCHANGED <<procVars, dbVars, ticks>>
    BY <1>9 DEF Kill, Unkill, Resolve, vars, TypeOK
  <2>2. QED
    BY <2>1 DEF TypeOK, PendingHasRow
<1>10. QED
  BY <1>1, <1>2, <1>3, <1>4, <1>5, <1>6, <1>7, <1>8, <1>9 DEF Next, TickStep

\* Every reachable state is well typed, whatever the number of traders.
THEOREM TypeCorrect == Spec => []TypeOK
<1>1. Spec => []TypeInv
  BY TypeInvInit, TypeInvNext, PTL DEF Spec
<1>2. TypeInv => TypeOK
  BY DEF TypeInv
<1>3. QED
  BY <1>1, <1>2, PTL

-----------------------------------------------------------------------------
\* From here on: one trader at a time works on the database.
OneTrader == \A p, q \in Proc : p = q

\* The parts of the invariant that relate the database to the caps.
BookInv == RowsAreEntries /\ ShortPositionsAreFinal /\ CapsHeld /\ EnteredOnce

\* The step that buys: from a portfolio that satisfies the invariant, an
\* approved fill is a first entry of at most the requested size inside the
\* caps, and leaves the invariant true.
LEMMA FillIsEntry ==
  ASSUME TypeOK, BookInv, MemoryFollows, NEW p \in Proc, NEW t \in todo[p],
         RouteFill(p, t)
  PROVE  /\ t \in Ticker
         /\ BookInv'
         /\ \E n \in 1..Requested : Ledger!Enter(t, n)
<1> DEFINE d == ApproveOrder(t, Requested, mem[p])
           row == [tick |-> tick[p], ticker |-> t, count |-> d.size]
           e == EventOf[t]
<1>1. /\ t \in Ticker /\ e \in Event /\ book \in Portfolio /\ Requested \in Int
      /\ mem[p] = book
  BY RequestedInt, MarketsAssumption DEF TypeOK, RouteFill, MemoryFollows
<1>2. /\ d.size \in Nat \ {0}
      /\ book.perTicker[t] < Requested
      /\ d.size <= Requested
      /\ d.size <= RoomMarket(book, t)
      /\ d.size <= RoomEvent(book, t)
      /\ d.size <= RoomTotal(book)
      /\ \/ d.size = Requested
         \/ d.size = RoomMarket(book, t)
         \/ d.size = RoomEvent(book, t)
         \/ d.size = RoomTotal(book)
  BY <1>1, ApproveSound DEF RouteFill
<1>3. /\ fills' = fills \cup {row}
      /\ book' = With(book, t, d.size)
  BY DEF RouteFill
<1> HIDE DEF d
<1>4. /\ book' \in Portfolio
      /\ \A u \in Ticker : book'.perTicker[u] =
           IF u = t THEN book.perTicker[u] + d.size ELSE book.perTicker[u]
      /\ \A f \in Event : book'.perEvent[f] =
           IF f = e THEN book.perEvent[f] + d.size ELSE book.perEvent[f]
      /\ book'.total = book.total + d.size
  <2>1. d.size \in Int
    BY <1>2
  <2>2. /\ With(book, t, d.size) \in Portfolio
        /\ \A u \in Ticker : With(book, t, d.size).perTicker[u] =
             IF u = t THEN book.perTicker[u] + d.size ELSE book.perTicker[u]
        /\ \A f \in Event : With(book, t, d.size).perEvent[f] =
             IF f = EventOf[t] THEN book.perEvent[f] + d.size ELSE book.perEvent[f]
        /\ With(book, t, d.size).total = book.total + d.size
    BY <1>1, <2>1, WithEffect
  <2>3. QED
    BY <1>3, <2>2
<1>5. /\ \A u \in Ticker : book.perTicker[u] \in Int
      /\ \A f \in Event : book.perEvent[f] \in Int
      /\ book.total \in Int
  BY <1>1 DEF Portfolio
<1>6. book.perTicker[t] = 0
  BY <1>1, <1>2, <1>5, CapsAssumption
     DEF BookInv, ShortPositionsAreFinal, RoomEvent, RoomTotal
<1>7. CapsHeld'
  BY <1>1, <1>2, <1>4, <1>5, CapsAssumption
     DEF BookInv, CapsHeld, WithinCaps, RoomMarket, RoomEvent, RoomTotal
<1>8. RowsAreEntries'
  <2>1. \A r \in fills : r.ticker \in Ticker /\ r.count \in Nat \ {0}
    BY DEF TypeOK
  <2>2. \A r \in fills : r.ticker # t
    BY <1>6, <2>1 DEF BookInv, RowsAreEntries
  <2>3. \A r \in fills : book'.perTicker[r.ticker] = r.count
    BY <1>4, <2>1, <2>2 DEF BookInv, RowsAreEntries
  <2>4. book'.perTicker[row.ticker] = row.count
    BY <1>1, <1>2, <1>4, <1>6
  <2>5. \A u \in Ticker : 0 <= book'.perTicker[u]
    BY <1>2, <1>4, <1>5 DEF BookInv, RowsAreEntries
  <2>6. QED
    BY <1>3, <2>3, <2>4, <2>5 DEF RowsAreEntries
<1>9. EnteredOnce'
  <2>1. \A r \in fills : r.ticker \in Ticker /\ r.count \in Nat \ {0}
    BY DEF TypeOK
  <2>2. \A r \in fills : r.ticker # t
    BY <1>6, <2>1 DEF BookInv, RowsAreEntries
  <2>3. row.count <= Requested /\ row.ticker = t
    BY <1>2
  <2>4. QED
    BY <1>3, <2>2, <2>3 DEF BookInv, EnteredOnce
<1>10. ShortPositionsAreFinal'
  <2>1. \/ book'.perTicker[t] = Requested
        \/ MaxPerEvent <= book'.perEvent[e]
        \/ MaxTotal <= book'.total
    <3>1. RoomMarket(book, t) >= Requested
      BY <1>1, <1>6, CapsAssumption DEF RoomMarket, Requested, Lesser
    <3>2. QED
      BY <1>1, <1>2, <1>4, <1>5, <1>6, <3>1, CapsAssumption
         DEF RoomMarket, RoomEvent, RoomTotal
  <2>2. ASSUME NEW u \in Ticker, u # t
        PROVE  \/ book'.perTicker[u] = 0
               \/ book'.perTicker[u] = Requested
               \/ MaxPerEvent <= book'.perEvent[EventOf[u]]
               \/ MaxTotal <= book'.total
    <3>1. EventOf[u] \in Event
      BY MarketsAssumption
    <3>2. /\ book'.perTicker[u] = book.perTicker[u]
          /\ book'.perEvent[EventOf[u]] >= book.perEvent[EventOf[u]]
          /\ book'.total >= book.total
      BY <1>2, <1>4, <1>5, <2>2, <3>1
    <3>3. /\ book'.perEvent[EventOf[u]] \in Int /\ book'.total \in Int
          /\ book.perEvent[EventOf[u]] \in Int /\ book.total \in Int
      BY <1>4, <3>1, <1>5 DEF Portfolio
    <3>4. QED
      BY <3>2, <3>3, CapsAssumption DEF BookInv, ShortPositionsAreFinal
  <2>3. QED
    BY <2>1, <2>2 DEF ShortPositionsAreFinal
<1>11. \E n \in 1..Requested : Ledger!Enter(t, n)
  <2>1. d.size \in 1..Requested
    BY <1>1, <1>2
  <2>2. Ledger!Enter(t, d.size)
    BY <1>2, <1>3, <1>6, <1>7 DEF Ledger!Enter, CapsHeld, WithinCaps, With,
       Ledger!WithinCaps, Ledger!With, Ledger!Requested, Requested, Lesser, Ledger!Lesser
  <2>3. QED
    BY <2>1, <2>2
<1>12. QED
  BY <1>1, <1>7, <1>8, <1>9, <1>10, <1>11 DEF BookInv

\* A step that changes no row keeps the database's part of the invariant.
LEMMA BookKept ==
  ASSUME BookInv, fills' = fills, book' = book
  PROVE  BookInv'
  BY DEF BookInv, RowsAreEntries, ShortPositionsAreFinal, CapsHeld, WithinCaps, EnteredOnce

\* Init establishes the invariant.
LEMMA OneTraderInvInit == Init => OneTraderInv
<1> SUFFICES ASSUME Init PROVE OneTraderInv
  OBVIOUS
<1>1. TypeOK /\ PendingHasRow
  BY TypeInvInit DEF TypeInv
<1>2. MemoryFollows
  BY DEF Init, MemoryFollows
<1>3. /\ fills = {} /\ book = NoPositions
      /\ \A t \in Ticker : book.perTicker[t] = 0
      /\ \A e \in Event : book.perEvent[e] = 0
      /\ book.total = 0
  BY DEF Init, NoPositions
<1>4. RowsAreEntries /\ ShortPositionsAreFinal /\ CapsHeld /\ EnteredOnce
  BY <1>3, CapsAssumption DEF RowsAreEntries, ShortPositionsAreFinal, CapsHeld,
     WithinCaps, EnteredOnce
<1>5. QED
  BY <1>1, <1>2, <1>4 DEF OneTraderInv

\* Every step of a lone trader keeps the invariant, and is an entry of the
\* ledger or leaves the book alone.
LEMMA OneTraderStep ==
  ASSUME OneTrader, OneTraderInv, [Next]_vars
  PROVE  OneTraderInv' /\ [Ledger!LedgerNext]_book
<1>1. TypeOK /\ PendingHasRow /\ MemoryFollows /\ BookInv
  BY DEF OneTraderInv, BookInv
<1>2. TypeOK' /\ PendingHasRow'
  BY <1>1, TypeInvNext DEF TypeInv
<1>3. SUFFICES MemoryFollows' /\ BookInv' /\ [Ledger!LedgerNext]_book
  BY <1>2 DEF OneTraderInv, BookInv
<1> USE DEF dbVars, procVars
<1>4. ASSUME NEW p \in Proc, NEW t \in todo[p], RouteFill(p, t)
      PROVE  MemoryFollows' /\ BookInv' /\ [Ledger!LedgerNext]_book
  <2>1. BookInv' /\ t \in Ticker /\ [Ledger!LedgerNext]_book
    BY <1>1, <1>4, FillIsEntry DEF Ledger!LedgerNext, Ledger!Requested, Requested,
       Ledger!Lesser, Lesser
  <2> DEFINE n == ApproveOrder(t, Requested, mem[p]).size
  <2>2. /\ pc[p] = "route" /\ mem' = mem /\ pc' = [pc EXCEPT ![p] = "record"]
        /\ pending' = [pending EXCEPT ![p] = [ticker |-> t, size |-> n]]
        /\ book' = With(book, t, n)
    BY <1>4 DEF RouteFill
  <2> HIDE DEF n
  <2>3. mem[p] = book
    BY <1>1, <2>2 DEF MemoryFollows
  <2>4. pc'[p] = "record" /\ pending'[p] = [ticker |-> t, size |-> n]
    BY <1>1, <2>2 DEF TypeOK
  <2>5. book' = With(mem'[p], pending'[p].ticker, pending'[p].size)
    BY <2>2, <2>3, <2>4
  <2>6. MemoryFollows'
    BY <2>4, <2>5 DEF OneTrader, MemoryFollows
  <2>7. QED
    BY <2>1, <2>6
<1>5. ASSUME fills' = fills, book' = book, MemoryFollows'
      PROVE  MemoryFollows' /\ BookInv' /\ [Ledger!LedgerNext]_book
  BY <1>1, <1>5, BookKept
<1>6. ASSUME NEW p \in Proc, Leave(p), book' = book
      PROVE  MemoryFollows'
  BY <1>1, <1>6 DEF Leave, MemoryFollows, TypeOK
<1>7. ASSUME NEW p \in Proc, RecordFill(p)
      PROVE  MemoryFollows'
  <2>1. /\ pc[p] = "record" /\ book' = book
        /\ mem' = [mem EXCEPT ![p] = With(@, pending[p].ticker, pending[p].size)]
        /\ pc' = [pc EXCEPT ![p] = IF todo'[p] = {} THEN "settle" ELSE "route"]
    BY <1>7 DEF RecordFill, Advance, ApplyFill
  <2>2. mem'[p] = book /\ pc'[p] \in {"settle", "route"}
    BY <1>1, <2>1 DEF MemoryFollows, TypeOK
  <2>3. QED
    BY <2>1, <2>2 DEF OneTrader, MemoryFollows
<1>8. ASSUME NEW p \in Proc, Load(p)
      PROVE  MemoryFollows'
  <2>1. CASE todo[p] = {}
    BY <1>6, <1>8, <2>1 DEF Load
  <2>2. CASE todo[p] # {}
    <3>1. mem'[p] = book /\ pc'[p] = "route" /\ book' = book
      BY <1>1, <1>8, <2>2 DEF Load, TypeOK
    <3>2. QED
      BY <3>1 DEF OneTrader, MemoryFollows
  <2>3. QED
    BY <2>1, <2>2
<1>9. ASSUME NEW p \in Proc, NEW t \in todo[p], RouteSkip(p, t)
      PROVE  MemoryFollows'
  <2>1. mem[p] = book /\ mem' = mem /\ book' = book
    BY <1>1, <1>9 DEF RouteSkip, MemoryFollows
  <2>2. pc'[p] \in {"settle", "route"}
    BY <1>1, <1>9 DEF RouteSkip, Advance, TypeOK
  <2>3. QED
    BY <2>1, <2>2 DEF OneTrader, MemoryFollows
<1>10. ASSUME NEW p \in Proc, StartTick(p) \/ \E S \in Picks : Scan(p, S)
       PROVE  MemoryFollows'
  BY <1>1, <1>10 DEF StartTick, Scan, MemoryFollows, TypeOK
<1>11. ASSUME Kill \/ Unkill \/ (\E t \in Ticker : Resolve(t)) \/ UNCHANGED vars
       PROVE  UNCHANGED <<procVars, dbVars>> /\ MemoryFollows'
  BY <1>1, <1>11 DEF Kill, Unkill, Resolve, vars, MemoryFollows
<1>12. ASSUME NEW p \in Proc, TickStep(p)
       PROVE  MemoryFollows' /\ BookInv' /\ [Ledger!LedgerNext]_book
  <2>1. CASE StartTick(p) \/ \E S \in Picks : Scan(p, S)
    BY <1>5, <1>10, <2>1 DEF StartTick, Scan
  <2>2. CASE Load(p)
    BY <1>5, <1>8, <2>2 DEF Load
  <2>3. CASE \E t \in todo[p] : RouteSkip(p, t)
    BY <1>5, <1>9, <2>3 DEF RouteSkip
  <2>4. CASE \E t \in todo[p] : RouteFill(p, t)
    BY <1>4, <2>4
  <2>5. CASE RecordFill(p)
    BY <1>5, <1>7, <2>5 DEF RecordFill
  <2>6. CASE \E S \in SUBSET (UnsettledTickers \cap resolved) : Settle(p, S)
    BY <1>5, <1>6, <2>6 DEF Settle
  <2>7. CASE Abort(p)
    BY <1>5, <1>6, <2>7 DEF Abort
  <2>8. QED
    BY <1>12, <2>1, <2>2, <2>3, <2>4, <2>5, <2>6, <2>7 DEF TickStep
<1>13. QED
  BY <1>5, <1>11, <1>12 DEF Next

LEMMA OneTraderInvariant == OneTrader /\ Spec => []OneTraderInv
<1>1. OneTrader /\ OneTraderInv /\ [Next]_vars => OneTraderInv'
  BY OneTraderStep
<1>2. SUFFICES ASSUME OneTrader PROVE Spec => []OneTraderInv
  OBVIOUS
<1>3. OneTraderInv /\ [Next]_vars => OneTraderInv'
  BY <1>1, <1>2
<1>4. QED
  BY <1>3, OneTraderInvInit, PTL DEF Spec

\* With one trader the database never exceeds a cap (limits.py:52-69).
THEOREM CapsAlwaysHeld == OneTrader /\ Spec => []CapsHeld
<1>1. OneTraderInv => CapsHeld
  BY DEF OneTraderInv
<1>2. QED
  BY <1>1, OneTraderInvariant, PTL

\* With one trader no market is entered twice (limits.py:53).
THEOREM AlwaysEnteredOnce == OneTrader /\ Spec => []EnteredOnce
<1>1. OneTraderInv => EnteredOnce
  BY DEF OneTraderInv
<1>2. QED
  BY <1>1, OneTraderInvariant, PTL

\* With one trader the ticks implement the exposure ledger.
THEOREM TicksImplementLedger == OneTrader /\ Spec => ImplementsLedger
<1>1. SUFFICES ASSUME OneTrader PROVE Spec => ImplementsLedger
  OBVIOUS
<1>2. Init => Ledger!LedgerInit
  BY DEF Init, Ledger!LedgerInit, NoPositions, Ledger!NoPositions
<1>3. OneTraderInv /\ [Next]_vars => [Ledger!LedgerNext]_book
  BY <1>1, OneTraderStep
<1>4. Spec => []OneTraderInv
  BY <1>1, OneTraderInvariant
<1>5. QED
  BY <1>2, <1>3, <1>4, PTL DEF Spec, ImplementsLedger, Ledger!LedgerSpec

-----------------------------------------------------------------------------
\* From here on again: any number of traders.

\* What the database has of tick n and market t.
Decided(n, t) == \E d \in decisions : d.tick = n /\ d.ticker = t
Bought(n, t) == \E r \in fills : r.tick = n /\ r.ticker = t

\* Ticks have numbers of their own, and the tables are of ticks that started.
TicksApart ==
  /\ \A p \in Proc : tick[p] <= ticks /\ (tick[p] = 0 <=> pc[p] = "idle")
  /\ \A p, q \in Proc : tick[p] = tick[q] /\ tick[p] # 0 => p = q
  /\ \A r \in fills : 1 <= r.tick /\ r.tick <= ticks
  /\ \A d \in decisions : 1 <= d.tick /\ d.tick <= ticks

\* A pick that is yet to route has left nothing, a scan is yet to come from
\* nothing, and a fill yet to be accounted for is its tick's only one without
\* a decision.
PicksFresh ==
  \A p \in Proc :
    /\ pc[p] = "fetch" => \A t \in Ticker : ~Decided(tick[p], t) /\ ~Bought(tick[p], t)
    /\ pc[p] \in {"idle", "fetch", "settle"} => todo[p] = {}
    /\ \A t \in todo[p] : ~Decided(tick[p], t) /\ ~Bought(tick[p], t)
    /\ pc[p] = "record" =>
         /\ pending[p].ticker \notin todo[p]
         /\ ~Decided(tick[p], pending[p].ticker)
         /\ \A r \in Unaudited : r.tick = tick[p] => r.ticker = pending[p].ticker
                                                       /\ r.count = pending[p].size

AuditInv == TicksApart /\ PicksFresh /\ AuditTrail

LEMMA AuditInvInit == Init => AuditInv
<1> SUFFICES ASSUME Init PROVE AuditInv
  OBVIOUS
<1>1. TicksApart
  BY DEF Init, TicksApart
<1>2. PicksFresh
  BY DEF Init, PicksFresh, Decided, Bought
<1>3. fills = {} /\ decisions = {} /\ Unaudited = {}
  BY DEF Init, Unaudited
<1>4. AuditTrail
  <2> HIDE DEF Unaudited
  <2>1. QED
    BY <1>3 DEF AuditTrail
<1>5. QED
  BY <1>1, <1>2, <1>4 DEF AuditInv

\* A step that leaves both tables alone.
LEMMA AuditSameTables ==
  ASSUME fills' = fills, decisions' = decisions
  PROVE  /\ Unaudited' = Unaudited
         /\ \A n, t : (Decided(n, t)' <=> Decided(n, t)) /\ (Bought(n, t)' <=> Bought(n, t))
  BY DEF Unaudited, Decided, Bought

LEMMA AuditLeave ==
  ASSUME TypeOK, AuditInv, NEW p \in Proc, Leave(p),
         fills' = fills, decisions' = decisions, ticks' = ticks
  PROVE  AuditInv'
<1>1. /\ pc'[p] = "idle" /\ tick'[p] = 0 /\ todo'[p] = {}
      /\ \A q \in Proc \ {p} : /\ pc'[q] = pc[q] /\ tick'[q] = tick[q]
                               /\ todo'[q] = todo[q] /\ pending'[q] = pending[q]
  BY DEF Leave, TypeOK
<1>2. 0 <= ticks /\ \A r \in Unaudited : r.tick # 0
  BY DEF TypeOK, AuditInv, TicksApart, Unaudited
<1>3. TicksApart'
  BY <1>1, <1>2 DEF AuditInv, TicksApart
<1>4. PicksFresh'
  BY <1>1, AuditSameTables DEF AuditInv, PicksFresh
<1>5. AuditTrail'
  BY <1>1, <1>2, AuditSameTables DEF AuditInv, AuditTrail
<1>6. QED
  BY <1>3, <1>4, <1>5 DEF AuditInv

\* The steps of one process before it routes, and those of the others.
LEMMA AuditQuiet ==
  ASSUME TypeOK, AuditInv, NEW p \in Proc, TypeOK',
         \/ StartTick(p)
         \/ \E S \in Picks : Scan(p, S)
         \/ Load(p)
         \/ \E S \in SUBSET (UnsettledTickers \cap resolved) : Settle(p, S)
         \/ Abort(p)
  PROVE  AuditInv'
<1> USE DEF dbVars
<1>1. CASE StartTick(p)
  <2>1. /\ pc[p] = "idle" /\ pc'[p] = "fetch" /\ tick'[p] = ticks + 1 /\ todo' = todo
        /\ ticks' = ticks + 1 /\ pending' = pending
        /\ fills' = fills /\ decisions' = decisions
        /\ \A q \in Proc \ {p} : pc'[q] = pc[q] /\ tick'[q] = tick[q]
    BY <1>1 DEF StartTick, TypeOK
  <2>2. /\ ticks \in Nat /\ \A q \in Proc : tick[q] \in Nat /\ tick[q] <= ticks
        /\ \A r \in fills : r.tick \in Nat /\ r.tick <= ticks
        /\ \A d \in decisions : d.tick \in Nat /\ d.tick <= ticks
    BY DEF TypeOK, AuditInv, TicksApart
  <2>3. TicksApart'
    BY <2>1, <2>2 DEF AuditInv, TicksApart
  <2>4. \A t : ~Decided(ticks + 1, t) /\ ~Bought(ticks + 1, t)
    BY <2>2 DEF Decided, Bought
  <2>5. PicksFresh'
    BY <2>1, <2>4, AuditSameTables DEF AuditInv, PicksFresh
  <2>6. \A r \in Unaudited : r.tick # ticks + 1
    BY <2>2 DEF Unaudited
  <2>7. AuditTrail'
    BY <2>1, <2>6, AuditSameTables DEF AuditInv, AuditTrail
  <2>8. QED
    BY <2>3, <2>5, <2>7 DEF AuditInv
<1>2. CASE \E S \in Picks : Scan(p, S)
  <2>1. PICK S \in Picks : Scan(p, S)
    BY <1>2
  <2>2. /\ pc[p] = "fetch" /\ pc'[p] = "load" /\ todo'[p] = S /\ S \subseteq Ticker
        /\ tick' = tick /\ ticks' = ticks /\ pending' = pending
        /\ fills' = fills /\ decisions' = decisions
        /\ \A q \in Proc \ {p} : pc'[q] = pc[q] /\ todo'[q] = todo[q]
    BY <2>1 DEF Scan, TypeOK, Picks
  <2>3. TicksApart'
    BY <2>2 DEF AuditInv, TicksApart
  <2>4. PicksFresh'
    BY <2>2, AuditSameTables DEF AuditInv, PicksFresh
  <2>5. AuditTrail'
    BY <2>2, AuditSameTables DEF AuditInv, AuditTrail
  <2>6. QED
    BY <2>3, <2>4, <2>5 DEF AuditInv
<1>3. CASE Load(p)
  <2>1. CASE todo[p] = {}
    BY <1>3, <2>1, AuditLeave DEF Load
  <2>2. CASE todo[p] # {}
    <3>1. /\ pc[p] = "load" /\ pc'[p] = "route"
          /\ tick' = tick /\ ticks' = ticks /\ pending' = pending /\ todo' = todo
          /\ fills' = fills /\ decisions' = decisions
          /\ \A q \in Proc \ {p} : pc'[q] = pc[q]
      BY <1>3, <2>2 DEF Load, TypeOK
    <3>2. TicksApart'
      BY <3>1 DEF AuditInv, TicksApart
    <3>3. PicksFresh'
      BY <3>1, AuditSameTables DEF AuditInv, PicksFresh
    <3>4. AuditTrail'
      BY <3>1, AuditSameTables DEF AuditInv, AuditTrail
    <3>5. QED
      BY <3>2, <3>3, <3>4 DEF AuditInv
  <2>3. QED
    BY <2>1, <2>2
<1>4. CASE \E S \in SUBSET (UnsettledTickers \cap resolved) : Settle(p, S)
  BY <1>4, AuditLeave DEF Settle
<1>5. CASE Abort(p)
  BY <1>5, AuditLeave DEF Abort
<1>6. QED
  BY <1>1, <1>2, <1>3, <1>4, <1>5

LEMMA AuditSkip ==
  ASSUME TypeOK, AuditInv, NEW p \in Proc, NEW t \in todo[p], RouteSkip(p, t)
  PROVE  AuditInv'
<1> DEFINE d == ApproveOrder(t, Requested, mem[p])
           skip == [tick |-> tick[p], ticker |-> t, action |-> d.reason, size |-> 0]
<1>1. t \in Ticker /\ mem[p] \in Portfolio /\ tick[p] \in Nat
  BY DEF TypeOK
<1>2. d.reason \in RefuseReason
  BY <1>1, ApproveSound, RequestedInt DEF RouteSkip
<1>3. /\ pc[p] = "route" /\ pc'[p] \in {"settle", "route"}
      /\ pc'[p] = "settle" => todo'[p] = {}
      /\ todo'[p] = todo[p] \ {t}
      /\ decisions' = decisions \cup {skip}
      /\ fills' = fills /\ tick' = tick /\ ticks' = ticks /\ pending' = pending
      /\ \A q \in Proc \ {p} : pc'[q] = pc[q] /\ todo'[q] = todo[q]
  BY DEF RouteSkip, Advance, TypeOK
<1>4. skip.tick = tick[p] /\ skip.ticker = t /\ skip.action # "buy"
  BY <1>2 DEF RefuseReason
<1> HIDE DEF d, skip
<1>5. /\ tick[p] # 0 /\ tick[p] <= ticks /\ 1 <= tick[p]
      /\ \A q \in Proc \ {p} : tick[q] # tick[p]
  BY <1>1, <1>3 DEF AuditInv, TicksApart
<1>6. ~Decided(tick[p], t) /\ ~Bought(tick[p], t)
  BY DEF AuditInv, PicksFresh
<1>7. TicksApart'
  BY <1>3, <1>4, <1>5 DEF AuditInv, TicksApart
<1>8. /\ \A n, u : Decided(n, u)' => Decided(n, u) \/ (n = tick[p] /\ u = t)
      /\ \A n, u : Bought(n, u)' <=> Bought(n, u)
      /\ Unaudited' \subseteq Unaudited
  BY <1>3, <1>4 DEF Decided, Bought, Unaudited
<1>9. PicksFresh'
  BY <1>3, <1>5, <1>8 DEF AuditInv, PicksFresh
<1>10. AuditTrail'
  <2>1. \A e \in decisions' : e.action = "buy" =>
          [tick |-> e.tick, ticker |-> e.ticker, count |-> e.size] \in fills'
    BY <1>3, <1>4 DEF AuditInv, AuditTrail
  <2>2. \A e, f \in decisions' : e.tick = f.tick /\ e.ticker = f.ticker => e = f
    BY <1>3, <1>4, <1>6 DEF AuditInv, AuditTrail, Decided
  <2>3. \A r, s \in Unaudited' : r.tick = s.tick => r = s
    BY <1>8 DEF AuditInv, AuditTrail
  <2>4. \A r \in Unaudited', q \in Proc : tick'[q] = r.tick => pc'[q] = "record"
    BY <1>3, <1>5, <1>8 DEF AuditInv, AuditTrail
  <2>5. QED
    BY <2>1, <2>2, <2>3, <2>4 DEF AuditTrail
<1>11. QED
  BY <1>7, <1>9, <1>10 DEF AuditInv

LEMMA AuditFill ==
  ASSUME TypeOK, AuditInv, NEW p \in Proc, NEW t \in todo[p], RouteFill(p, t)
  PROVE  AuditInv'
<1> DEFINE n == ApproveOrder(t, Requested, mem[p]).size
           row == [tick |-> tick[p], ticker |-> t, count |-> n]
<1>1. t \in Ticker /\ tick[p] \in Nat
  BY DEF TypeOK
<1>2. /\ pc[p] = "route" /\ pc'[p] = "record"
      /\ todo'[p] = todo[p] \ {t} /\ pending'[p] = [ticker |-> t, size |-> n]
      /\ fills' = fills \cup {row}
      /\ decisions' = decisions /\ tick' = tick /\ ticks' = ticks
      /\ \A q \in Proc \ {p} : /\ pc'[q] = pc[q] /\ todo'[q] = todo[q]
                               /\ pending'[q] = pending[q]
  BY DEF RouteFill, TypeOK
<1>3. row.tick = tick[p] /\ row.ticker = t /\ row.count = n
  OBVIOUS
<1> HIDE DEF n, row
<1>4. /\ tick[p] # 0 /\ tick[p] <= ticks /\ 1 <= tick[p]
      /\ \A q \in Proc \ {p} : tick[q] # tick[p]
  BY <1>1, <1>2 DEF AuditInv, TicksApart
<1>5. /\ ~Decided(tick[p], t) /\ ~Bought(tick[p], t)
      /\ \A r \in Unaudited : r.tick # tick[p]
  BY <1>2 DEF AuditInv, PicksFresh, AuditTrail
<1>6. TicksApart'
  BY <1>2, <1>3, <1>4 DEF AuditInv, TicksApart
<1>7. /\ \A m, u : Bought(m, u)' => Bought(m, u) \/ (m = tick[p] /\ u = t)
      /\ \A m, u : Decided(m, u)' <=> Decided(m, u)
      /\ Unaudited' \subseteq Unaudited \cup {row}
  BY <1>2, <1>3 DEF Decided, Bought, Unaudited
<1>8. PicksFresh'
  BY <1>2, <1>3, <1>4, <1>5, <1>7 DEF AuditInv, PicksFresh
<1>9. AuditTrail'
  <2>1. \A d \in decisions' : d.action = "buy" =>
          [tick |-> d.tick, ticker |-> d.ticker, count |-> d.size] \in fills'
    BY <1>2 DEF AuditInv, AuditTrail
  <2>2. \A d, e \in decisions' : d.tick = e.tick /\ d.ticker = e.ticker => d = e
    BY <1>2 DEF AuditInv, AuditTrail
  <2>3. \A r, s \in Unaudited' : r.tick = s.tick => r = s
    BY <1>3, <1>5, <1>7 DEF AuditInv, AuditTrail
  <2>4. \A r \in Unaudited', q \in Proc : tick'[q] = r.tick => pc'[q] = "record"
    BY <1>2, <1>3, <1>4, <1>7 DEF AuditInv, AuditTrail
  <2>5. QED
    BY <2>1, <2>2, <2>3, <2>4 DEF AuditTrail
<1>10. QED
  BY <1>6, <1>8, <1>9 DEF AuditInv

LEMMA AuditRecord ==
  ASSUME TypeOK, PendingHasRow, AuditInv, NEW p \in Proc, RecordFill(p)
  PROVE  AuditInv'
<1> DEFINE t == pending[p].ticker
           buy == [tick |-> tick[p], ticker |-> t, action |-> "buy", size |-> pending[p].size]
<1>1. /\ pc[p] = "record" /\ pc'[p] \in {"settle", "route"}
      /\ pc'[p] = "settle" => todo'[p] = {}
      /\ decisions' = decisions \cup {buy}
      /\ fills' = fills /\ tick' = tick /\ ticks' = ticks /\ todo' = todo
      /\ \A q \in Proc \ {p} : pc'[q] = pc[q] /\ pending'[q] = pending[q]
  BY DEF RecordFill, Advance, TypeOK
<1>2. /\ buy.tick = tick[p] /\ buy.ticker = t /\ buy.size = pending[p].size
      /\ [tick |-> buy.tick, ticker |-> buy.ticker, count |-> buy.size] \in fills
  BY <1>1 DEF PendingHasRow
<1>3. /\ tick[p] \in Nat /\ tick[p] # 0 /\ tick[p] <= ticks /\ 1 <= tick[p]
      /\ \A q \in Proc \ {p} : tick[q] # tick[p]
  BY <1>1 DEF TypeOK, AuditInv, TicksApart
<1>4. t \notin todo[p] /\ ~Decided(tick[p], t)
  BY <1>1 DEF AuditInv, PicksFresh
<1>5. /\ Unaudited' \subseteq Unaudited
      /\ \A r \in Unaudited' : r.tick # tick[p]
  <2>1. Unaudited' \subseteq Unaudited
    BY <1>1 DEF Unaudited
  <2>2. SUFFICES ASSUME NEW r \in Unaudited', r.tick = tick[p] PROVE FALSE
    BY <2>1
  <2>3. r.ticker = t /\ r.count = pending[p].size
    BY <1>1, <2>1, <2>2 DEF AuditInv, PicksFresh
  <2>4. [tick |-> r.tick, ticker |-> r.ticker, action |-> "buy", size |-> r.count] = buy
    BY <2>2, <2>3
  <2>5. QED
    BY <1>1, <2>4 DEF Unaudited
<1> HIDE DEF t, buy
<1>6. /\ \A n, u : Decided(n, u)' => Decided(n, u) \/ (n = tick[p] /\ u = t)
      /\ \A n, u : Bought(n, u)' <=> Bought(n, u)
  BY <1>1, <1>2 DEF Decided, Bought
<1>7. TicksApart'
  BY <1>1, <1>2, <1>3 DEF AuditInv, TicksApart
<1>8. PicksFresh'
  BY <1>1, <1>3, <1>4, <1>5, <1>6 DEF AuditInv, PicksFresh
<1>9. AuditTrail'
  <2>1. \A d \in decisions' : d.action = "buy" =>
          [tick |-> d.tick, ticker |-> d.ticker, count |-> d.size] \in fills'
    BY <1>1, <1>2 DEF AuditInv, AuditTrail
  <2>2. \A d, e \in decisions' : d.tick = e.tick /\ d.ticker = e.ticker => d = e
    BY <1>1, <1>2, <1>4 DEF AuditInv, AuditTrail, Decided
  <2>3. \A r, s \in Unaudited' : r.tick = s.tick => r = s
    BY <1>5 DEF AuditInv, AuditTrail
  <2>4. \A r \in Unaudited', q \in Proc : tick'[q] = r.tick => pc'[q] = "record"
    BY <1>1, <1>5 DEF AuditInv, AuditTrail
  <2>5. QED
    BY <2>1, <2>2, <2>3, <2>4 DEF AuditTrail
<1>10. QED
  BY <1>7, <1>8, <1>9 DEF AuditInv

LEMMA AuditInvNext == TypeInv /\ AuditInv /\ [Next]_vars => AuditInv'
<1> SUFFICES ASSUME TypeInv, AuditInv, [Next]_vars PROVE AuditInv'
  OBVIOUS
<1>1. TypeOK /\ PendingHasRow /\ TypeOK'
  BY TypeInvNext DEF TypeInv
<1>2. ASSUME NEW p \in Proc, TickStep(p)
      PROVE  AuditInv'
  BY <1>1, <1>2, AuditQuiet, AuditSkip, AuditFill, AuditRecord DEF TickStep
<1>3. ASSUME Kill \/ Unkill \/ (\E t \in Ticker : Resolve(t)) \/ UNCHANGED vars
      PROVE  AuditInv'
  <2>1. UNCHANGED <<procVars, dbVars, ticks>>
    BY <1>3 DEF Kill, Unkill, Resolve, vars
  <2>2. QED
    BY <2>1, AuditSameTables
       DEF procVars, dbVars, AuditInv, TicksApart, PicksFresh, AuditTrail
<1>4. QED
  BY <1>2, <1>3 DEF Next

\* The audit trail holds for any number of traders on the database, through
\* crashes between a fill and its decision (router.py:3).
THEOREM AlwaysAudited == Spec => []AuditTrail
<1>1. Init => TypeInv /\ AuditInv
  BY TypeInvInit, AuditInvInit
<1>2. AuditInv => AuditTrail
  BY DEF AuditInv
<1>3. QED
  BY <1>1, <1>2, TypeInvNext, AuditInvNext, PTL DEF Spec

-----------------------------------------------------------------------------
\* The kill switch, for any number of traders.

\* The picks of a scan: finitely many, one of each event at most.
LEMMA PicksFewerThanEvents ==
  ASSUME NEW S \in Picks
  PROVE  IsFiniteSet(S) /\ Cardinality(S) \in Nat /\ Cardinality(S) <= Cardinality(Event)
<1> DEFINE h == [t \in S |-> EventOf[t]]
<1>1. h \in Injection(S, Event)
  BY MarketsAssumption DEF Picks, Injection, IsInjective
<1>2. QED
  BY <1>1, FiniteAssumption, FS_Injection, FS_CardinalityType

\* The table and the picks in flight stay finite.
FiniteInv == IsFiniteSet(fills) /\ \A p \in Proc : IsFiniteSet(todo[p])

LEMMA FiniteInvNext == TypeOK /\ FiniteInv /\ [Next]_vars => FiniteInv'
<1> SUFFICES ASSUME TypeOK, FiniteInv, [Next]_vars PROVE FiniteInv'
  OBVIOUS
<1> USE DEF dbVars, procVars
<1>1. IsFiniteSet({})
  BY FS_EmptySet
<1>2. ASSUME NEW p \in Proc, fills' = fills, Leave(p)
      PROVE  FiniteInv'
  BY <1>1, <1>2 DEF FiniteInv, Leave, TypeOK
<1>3. ASSUME NEW p \in Proc, NEW S \in Picks, Scan(p, S)
      PROVE  FiniteInv'
  <2>1. IsFiniteSet(S)
    BY PicksFewerThanEvents
  <2>2. QED
    BY <1>3, <2>1 DEF FiniteInv, Scan, TypeOK
<1>4. ASSUME NEW p \in Proc, NEW t \in todo[p], RouteSkip(p, t) \/ RouteFill(p, t)
      PROVE  FiniteInv'
  <2>1. IsFiniteSet(todo[p] \ {t})
    BY FS_RemoveElement DEF FiniteInv
  <2>2. todo'[p] = todo[p] \ {t} /\ \A q \in Proc \ {p} : todo'[q] = todo[q]
    BY <1>4 DEF RouteSkip, RouteFill, TypeOK
  <2>3. IsFiniteSet(fills')
    <3>1. CASE RouteSkip(p, t)
      BY <3>1 DEF RouteSkip, FiniteInv
    <3>2. CASE RouteFill(p, t)
      <4>1. \E row : fills' = fills \cup {row}
        BY <3>2 DEF RouteFill
      <4>2. QED
        BY <4>1, FS_AddElement DEF FiniteInv
    <3>3. QED
      BY <1>4, <3>1, <3>2
  <2>4. QED
    BY <2>1, <2>2, <2>3 DEF FiniteInv
<1>5. ASSUME NEW p \in Proc, StartTick(p) \/ RecordFill(p)
      PROVE  FiniteInv'
  BY <1>5 DEF FiniteInv, StartTick, RecordFill
<1>6. ASSUME NEW p \in Proc, Load(p)
      PROVE  FiniteInv'
  BY <1>2, <1>6 DEF FiniteInv, Load
<1>7. ASSUME NEW p \in Proc, TickStep(p)
      PROVE  FiniteInv'
  BY <1>2, <1>3, <1>4, <1>5, <1>6, <1>7 DEF TickStep, Settle, Abort
<1>8. ASSUME Kill \/ Unkill \/ (\E t \in Ticker : Resolve(t)) \/ UNCHANGED vars
      PROVE  FiniteInv'
  BY <1>8 DEF FiniteInv, Kill, Unkill, Resolve, vars
<1>9. QED
  BY <1>7, <1>8 DEF Next

\* How many picks a process has left.
LEMMA PicksLeftType ==
  ASSUME FiniteInv
  PROVE  /\ Cardinality(fills) \in Nat
         /\ \A p \in Proc : PicksLeft(p) \in Nat
  BY FiniteAssumption, FS_CardinalityType DEF FiniteInv, PicksLeft

\* A step of one process, seen by the sum over all of them.
LEMMA DrainStep ==
  ASSUME FiniteInv, FiniteInv', NEW p \in Proc,
         \A q \in Proc \ {p} : PicksLeft(q)' = PicksLeft(q),
         Cardinality(fills') + PicksLeft(p)' <= Cardinality(fills) + PicksLeft(p)
  PROVE  Cardinality(fills') + Outstanding' <= Cardinality(fills) + Outstanding
<1> DEFINE f == [q \in Proc |-> PicksLeft(q)]
           g == [q \in Proc |-> PicksLeft(q)']
<1>1. /\ Cardinality(fills) \in Nat /\ \A q \in Proc : PicksLeft(q) \in Nat
  BY PicksLeftType
<1>2. /\ Cardinality(fills') \in Nat /\ \A q \in Proc : PicksLeft(q)' \in Nat
  <2>1. FiniteInv' => Cardinality(fills') \in Nat /\ \A q \in Proc : PicksLeft(q)' \in Nat
    BY FiniteAssumption, FS_CardinalityType DEF FiniteInv, PicksLeft
  <2>2. QED
    BY <2>1
<1>3. NatOn(f, Proc) /\ NatOn(g, Proc) /\ \A q \in Proc \ {p} : f[q] = g[q]
  BY <1>1, <1>2 DEF NatOn
<1>4. f[p] = PicksLeft(p) /\ g[p] = PicksLeft(p)'
  OBVIOUS
<1>5. Outstanding = SumOf(f, Proc) /\ Outstanding' = SumOf(g, Proc)
  BY DEF Outstanding
<1>6. Cardinality(fills') + g[p] <= Cardinality(fills) + f[p]
  BY <1>4
<1> HIDE DEF f, g
<1>7. Cardinality(fills') + SumOf(g, Proc) <= Cardinality(fills) + SumOf(f, Proc)
  BY <1>1, <1>2, <1>3, <1>6, FiniteAssumption, SumTrade
<1>8. QED
  BY <1>5, <1>7

\* While the lock stays, no tick starts: what is bought uses up the picks of
\* the ticks in flight (loop.py:200).
LEMMA KillStep ==
  ASSUME TypeOK, FiniteInv, [Next]_vars, lock, lock'
  PROVE  Cardinality(fills') + Outstanding' <= Cardinality(fills) + Outstanding
<1> USE DEF dbVars, procVars
<1>1. FiniteInv'
  BY FiniteInvNext
<1>2. /\ Cardinality(fills) \in Nat /\ \A p \in Proc : PicksLeft(p) \in Nat
  BY PicksLeftType
<1>3. ASSUME NEW p \in Proc, Leave(p), fills' = fills
      PROVE  Cardinality(fills') + Outstanding' <= Cardinality(fills) + Outstanding
  <2>1. pc'[p] = "idle" /\ \A q \in Proc \ {p} : pc'[q] = pc[q] /\ todo'[q] = todo[q]
    BY <1>3 DEF Leave, TypeOK
  <2>2. PicksLeft(p)' = 0 /\ \A q \in Proc \ {p} : PicksLeft(q)' = PicksLeft(q)
    BY <2>1 DEF PicksLeft
  <2>3. Cardinality(fills') + PicksLeft(p)' <= Cardinality(fills) + PicksLeft(p)
    BY <1>2, <1>3, <2>2
  <2>4. QED
    BY <1>1, <2>2, <2>3, DrainStep
<1>4. ASSUME NEW p \in Proc, NEW S \in Picks, Scan(p, S)
      PROVE  Cardinality(fills') + Outstanding' <= Cardinality(fills) + Outstanding
  <2>1. /\ pc[p] = "fetch" /\ pc'[p] = "load" /\ todo'[p] = S /\ fills' = fills
        /\ \A q \in Proc \ {p} : pc'[q] = pc[q] /\ todo'[q] = todo[q]
    BY <1>4 DEF Scan, TypeOK
  <2>2. /\ PicksLeft(p) = Cardinality(Event) /\ PicksLeft(p)' = Cardinality(S)
        /\ \A q \in Proc \ {p} : PicksLeft(q)' = PicksLeft(q)
    BY <2>1 DEF PicksLeft
  <2>3. Cardinality(S) \in Nat /\ Cardinality(S) <= Cardinality(Event)
    BY PicksFewerThanEvents
  <2>4. Cardinality(fills') + PicksLeft(p)' <= Cardinality(fills) + PicksLeft(p)
    BY <1>2, <2>1, <2>2, <2>3
  <2>5. QED
    BY <1>1, <2>2, <2>4, DrainStep
<1>5. ASSUME NEW p \in Proc, NEW t \in todo[p], RouteSkip(p, t) \/ RouteFill(p, t)
      PROVE  Cardinality(fills') + Outstanding' <= Cardinality(fills) + Outstanding
  <2>1. /\ pc[p] = "route" /\ pc'[p] \in {"route", "settle", "record"}
        /\ todo'[p] = todo[p] \ {t}
        /\ \A q \in Proc \ {p} : pc'[q] = pc[q] /\ todo'[q] = todo[q]
    BY <1>5 DEF RouteSkip, RouteFill, Advance, TypeOK
  <2>2. /\ Cardinality(todo[p]) \in Nat
        /\ Cardinality(todo'[p]) = Cardinality(todo[p]) - 1
        /\ Cardinality(todo'[p]) \in Nat
    <3>1. IsFiniteSet(todo[p]) /\ IsFiniteSet(todo[p] \ {t})
      BY FS_RemoveElement DEF FiniteInv
    <3>2. Cardinality(todo[p] \ {t}) = Cardinality(todo[p]) - 1
      BY <3>1, FS_RemoveElement
    <3>3. QED
      BY <2>1, <3>1, <3>2, FS_CardinalityType
  <2>3. /\ Cardinality(fills') \in Nat
        /\ Cardinality(fills') <= Cardinality(fills) + 1
    <3>1. CASE RouteSkip(p, t)
      BY <1>2, <3>1 DEF RouteSkip
    <3>2. CASE RouteFill(p, t)
      <4>1. PICK row : fills' = fills \cup {row}
        BY <3>2 DEF RouteFill
      <4>2. Cardinality(fills \cup {row}) =
              IF row \in fills THEN Cardinality(fills) ELSE Cardinality(fills) + 1
        BY FS_AddElement DEF FiniteInv
      <4>3. QED
        BY <1>2, <4>1, <4>2
    <3>3. QED
      BY <1>5, <3>1, <3>2
  <2>4. /\ PicksLeft(p) = Cardinality(todo[p])
        /\ PicksLeft(p)' \in Nat /\ PicksLeft(p)' <= Cardinality(todo'[p])
        /\ \A q \in Proc \ {p} : PicksLeft(q)' = PicksLeft(q)
    BY <2>1, <2>2 DEF PicksLeft
  <2>5. Cardinality(fills') + PicksLeft(p)' <= Cardinality(fills) + PicksLeft(p)
    BY <1>2, <2>2, <2>3, <2>4
  <2>6. QED
    BY <1>1, <2>4, <2>5, DrainStep
<1>6. ASSUME NEW p \in Proc, fills' = fills, todo' = todo,
             \/ pc[p] = "load" /\ pc'[p] = "route"
             \/ pc[p] = "record" /\ pc'[p] \in {"route", "settle"},
             \A q \in Proc \ {p} : pc'[q] = pc[q]
      PROVE  Cardinality(fills') + Outstanding' <= Cardinality(fills) + Outstanding
  <2>1. Cardinality(todo[p]) \in Nat
    BY FS_CardinalityType DEF FiniteInv
  <2>2. /\ PicksLeft(p) = Cardinality(todo[p])
        /\ PicksLeft(p)' \in Nat /\ PicksLeft(p)' <= Cardinality(todo[p])
        /\ \A q \in Proc \ {p} : PicksLeft(q)' = PicksLeft(q)
    BY <1>6, <2>1 DEF PicksLeft
  <2>3. Cardinality(fills') + PicksLeft(p)' <= Cardinality(fills) + PicksLeft(p)
    BY <1>2, <1>6, <2>1, <2>2
  <2>4. QED
    BY <1>1, <2>2, <2>3, DrainStep
<1>7. ASSUME NEW p \in Proc, Load(p)
      PROVE  Cardinality(fills') + Outstanding' <= Cardinality(fills) + Outstanding
  <2>1. CASE todo[p] = {}
    BY <1>3, <1>7, <2>1 DEF Load
  <2>2. CASE todo[p] # {}
    BY <1>6, <1>7, <2>2 DEF Load, TypeOK
  <2>3. QED
    BY <2>1, <2>2
<1>8. ASSUME NEW p \in Proc, RecordFill(p)
      PROVE  Cardinality(fills') + Outstanding' <= Cardinality(fills) + Outstanding
  BY <1>6, <1>8 DEF RecordFill, Advance, TypeOK
<1>9. ASSUME NEW p \in Proc, TickStep(p)
      PROVE  Cardinality(fills') + Outstanding' <= Cardinality(fills) + Outstanding
  <2>1. ~StartTick(p)
    BY DEF StartTick
  <2>2. QED
    BY <1>3, <1>4, <1>5, <1>7, <1>8, <1>9, <2>1 DEF TickStep, Settle, Abort
<1>10. ASSUME Kill \/ Unkill \/ (\E t \in Ticker : Resolve(t)) \/ UNCHANGED vars
      PROVE  Cardinality(fills') + Outstanding' <= Cardinality(fills) + Outstanding
  <2>1. fills' = fills /\ pc' = pc /\ todo' = todo
    BY <1>10 DEF Kill, Unkill, Resolve, vars
  <2>2. Outstanding' = Outstanding
    BY <2>1 DEF Outstanding, PicksLeft
  <2>3. Outstanding \in Nat
    <3>1. NatOn([p \in Proc |-> PicksLeft(p)], Proc)
      BY <1>2 DEF NatOn
    <3>2. QED
      BY <3>1, FiniteAssumption, SumType DEF Outstanding
  <2>4. QED
    BY <1>2, <2>1, <2>2, <2>3
<1>11. QED
  BY <1>9, <1>10 DEF Next

\* The kill switch bounds what is still bought, for any number of traders.
THEOREM KillAlwaysDrains == Spec => KillDrains
<1>1. Init => TypeInv /\ FiniteInv
  BY TypeInvInit, FS_EmptySet DEF Init, FiniteInv
<1>2. TypeInv /\ FiniteInv /\ [Next]_vars => FiniteInv'
  BY FiniteInvNext DEF TypeInv
<1>3. TypeInv /\ FiniteInv /\ [Next]_vars =>
        [lock /\ lock' =>
           Cardinality(fills') + Outstanding' <= Cardinality(fills) + Outstanding]_vars
  BY KillStep DEF TypeInv
<1>4. QED
  BY <1>1, <1>2, <1>3, TypeInvNext, PTL DEF Spec, KillDrains

-----------------------------------------------------------------------------
\* The sums beside the table, for any number of traders.
BookIsTable == book = LoadPortfolio(fills)

\* Where a sum over the table takes the new row.
LEMMA RowCounts ==
  ASSUME NEW rows, IsFiniteSet(rows), \A r \in rows : r.count \in Nat,
         NEW s, s.count \in Nat, s \notin rows, NEW P, P \subseteq rows \cup {s}
  PROVE  Contracts(P) = Contracts(P \cap rows) + IF s \in P THEN s.count ELSE 0
<1>1. IsFiniteSet(P \cap rows)
  BY FS_Subset
<1>2. CASE s \in P
  <2>1. P = (P \cap rows) \cup {s}
    BY <1>2
  <2>2. Contracts((P \cap rows) \cup {s}) = Contracts(P \cap rows) + s.count
    BY <1>1, ContractsAdd
  <2>3. QED
    BY <1>2, <2>1, <2>2
<1>3. CASE s \notin P
  <2>1. P = P \cap rows
    BY <1>3
  <2>2. Contracts(P \cap rows) \in Nat
    BY <1>1, ContractsType
  <2>3. QED
    BY <1>3, <2>1, <2>2
<1>4. QED
  BY <1>2, <1>3

\* What load_portfolio reads after a new row is what apply_fill makes of what
\* it read before.
LEMMA LoadAfterFill ==
  ASSUME TypeOK, IsFiniteSet(fills), NEW row, row.ticker \in Ticker,
         row.count \in Nat, row \notin fills
  PROVE  LoadPortfolio(fills \cup {row}) = With(LoadPortfolio(fills), row.ticker, row.count)
<1> DEFINE rows == fills \cup {row}
           t == row.ticker
           n == row.count
           old == LoadPortfolio(fills)
<1>1. \A r \in fills : r.count \in Nat /\ r.ticker \in Ticker
  BY DEF TypeOK
<1>2. ASSUME NEW u \in Ticker
      PROVE  Contracts({r \in rows : r.ticker = u}) =
               Contracts({r \in fills : r.ticker = u}) + IF u = t THEN n ELSE 0
  <2> DEFINE P == {r \in rows : r.ticker = u}
  <2>1. P \subseteq fills \cup {row} /\ P \cap fills = {r \in fills : r.ticker = u}
        /\ (row \in P <=> u = t)
    OBVIOUS
  <2> HIDE DEF P
  <2>2. Contracts(P) = Contracts(P \cap fills) + IF row \in P THEN n ELSE 0
    BY <1>1, <2>1, RowCounts
  <2>3. QED
    BY <2>1, <2>2 DEF P
<1>3. ASSUME NEW e \in Event
      PROVE  Contracts({r \in rows : EventOf[r.ticker] = e}) =
               Contracts({r \in fills : EventOf[r.ticker] = e})
                 + IF e = EventOf[t] THEN n ELSE 0
  <2> DEFINE P == {r \in rows : EventOf[r.ticker] = e}
  <2>1. P \subseteq fills \cup {row} /\ P \cap fills = {r \in fills : EventOf[r.ticker] = e}
        /\ (row \in P <=> e = EventOf[t])
    OBVIOUS
  <2> HIDE DEF P
  <2>2. Contracts(P) = Contracts(P \cap fills) + IF row \in P THEN n ELSE 0
    BY <1>1, <2>1, RowCounts
  <2>3. QED
    BY <2>1, <2>2 DEF P
<1>4. Contracts(rows) = Contracts(fills) + n
  BY <1>1, ContractsAdd
<1>5. /\ \A u \in Ticker : Contracts({r \in fills : r.ticker = u}) \in Nat
      /\ \A e \in Event : Contracts({r \in fills : EventOf[r.ticker] = e}) \in Nat
  BY <1>1, FS_Subset, ContractsType
<1>6. LoadPortfolio(rows).perTicker = [old.perTicker EXCEPT ![t] = @ + n]
  BY <1>2, <1>5 DEF LoadPortfolio
<1>7. LoadPortfolio(rows).perEvent = [old.perEvent EXCEPT ![EventOf[t]] = @ + n]
  BY <1>3, <1>5, MarketsAssumption DEF LoadPortfolio
<1>8. QED
  BY <1>4, <1>6, <1>7 DEF LoadPortfolio, With

LEMMA BookIsTableInit == Init => BookIsTable
<1> SUFFICES ASSUME Init PROVE book = LoadPortfolio(fills)
  BY DEF BookIsTable
<1>1. /\ fills = {} /\ book = NoPositions
      /\ \A t : {r \in fills : r.ticker = t} = {}
      /\ \A e : {r \in fills : EventOf[r.ticker] = e} = {}
  BY DEF Init
<1>2. QED
  BY <1>1, ContractsEmpty DEF LoadPortfolio, NoPositions

\* A step fills a picked market with a row of its own, or leaves the table.
LEMMA TableStep ==
  ASSUME TypeOK, [Next]_vars
  PROVE  \/ fills' = fills /\ book' = book
         \/ \E p \in Proc : \E t \in todo[p] : RouteFill(p, t)
  BY DEF Next, TickStep, StartTick, Scan, Load, RouteSkip, RecordFill, Settle, Abort,
         Kill, Unkill, Resolve, vars, dbVars

LEMMA BookIsTableNext ==
  TypeOK /\ FiniteInv /\ AuditInv /\ BookIsTable /\ [Next]_vars => BookIsTable'
<1> SUFFICES ASSUME TypeOK, FiniteInv, AuditInv, BookIsTable, [Next]_vars
             PROVE  BookIsTable'
  OBVIOUS
<1>1. CASE fills' = fills /\ book' = book
  BY <1>1 DEF BookIsTable, LoadPortfolio
<1>2. ASSUME NEW p \in Proc, NEW t \in todo[p], RouteFill(p, t)
      PROVE  BookIsTable'
  <2> DEFINE n == ApproveOrder(t, Requested, mem[p]).size
             row == [tick |-> tick[p], ticker |-> t, count |-> n]
  <2>1. t \in Ticker /\ mem[p] \in Portfolio
    BY DEF TypeOK
  <2>2. n \in Nat
    BY <2>1, ApproveSound, RequestedInt
  <2>3. fills' = fills \cup {row} /\ book' = With(book, t, n)
    BY <1>2 DEF RouteFill
  <2> HIDE DEF n
  <2>4. row.ticker = t /\ row.count = n /\ row.tick = tick[p]
    OBVIOUS
  <2> HIDE DEF row
  <2>5. row \notin fills
    BY <2>4 DEF AuditInv, PicksFresh, Bought
  <2>6. LoadPortfolio(fills \cup {row}) = With(LoadPortfolio(fills), t, n)
    BY <2>1, <2>2, <2>4, <2>5, LoadAfterFill DEF FiniteInv
  <2>7. QED
    BY <2>3, <2>6 DEF BookIsTable
<1>3. QED
  BY <1>1, <1>2, TableStep

\* All that holds for any number of traders, in one invariant.
SharedInv == TypeInv /\ AuditInv /\ FiniteInv /\ BookIsTable

LEMMA SharedInvariant == Spec => []SharedInv
<1>1. Init => SharedInv
  BY TypeInvInit, AuditInvInit, BookIsTableInit, FS_EmptySet DEF Init, FiniteInv, SharedInv
<1>2. SharedInv /\ [Next]_vars => SharedInv'
  BY TypeInvNext, AuditInvNext, FiniteInvNext, BookIsTableNext DEF SharedInv, TypeInv
<1>3. QED
  BY <1>1, <1>2, PTL DEF Spec

\* With one trader what a tick accumulates is what it would read back from the
\* table (limits.py:73, paper.py:97).
THEOREM MemoryAlwaysAgrees == OneTrader /\ Spec => []MemoryAgrees
<1>1. SharedInv /\ OneTraderInv => MemoryAgrees
  BY DEF SharedInv, OneTraderInv, BookIsTable, MemoryFollows, MemoryAgrees
<1>2. QED
  BY <1>1, SharedInvariant, OneTraderInvariant, PTL

-----------------------------------------------------------------------------
\* The overshoot of several traders.

\* The portfolio a trading process gates on, with the fill it has committed.
Seen(p) ==
  IF pc[p] = "record" THEN With(mem[p], pending[p].ticker, pending[p].size) ELSE mem[p]

\* What it may still buy at a gate.
Room(p, g) ==
  IF pc[p] \in {"route", "record"} /\ Held(Seen(p), g) < Cap(g)
  THEN Cap(g) - Held(Seen(p), g)
  ELSE 0

Rooms(g) == [p \in Proc |-> Room(p, g)]

\* What is held and what may still be bought by what was read of it: a process
\* that reads finds no more room than the cap less what is held, so each adds
\* at most its cap once.
OvershootInv ==
  /\ \A p \in Proc : pc[p] \in {"route", "record"} =>
       \A g \in Gate : Held(Seen(p), g) \in Nat
  /\ \A g \in Gate : Held(book, g) + SumOf(Rooms(g), Proc) <= Cardinality(Proc) * Cap(g)

LEMMA RoomType ==
  ASSUME TypeOK, OvershootInv, NEW g \in Gate
  PROVE  /\ \A p \in Proc : Room(p, g) \in Nat /\ Room(p, g) <= Cap(g)
         /\ NatOn(Rooms(g), Proc)
  BY GateTypes DEF OvershootInv, Room, Rooms, NatOn

\* What the table holds at a gate is a natural number.
LEMMA BookNat == SharedInv => \A g \in Gate : Held(book, g) \in Nat
<1> SUFFICES ASSUME SharedInv, NEW g \in Gate PROVE Held(book, g) \in Nat
  OBVIOUS
<1>1. \A r \in fills : r.count \in Nat
  BY DEF SharedInv, TypeInv, TypeOK
<1>2. \A P \in SUBSET fills : Contracts(P) \in Nat
  BY <1>1, FS_Subset, ContractsType DEF SharedInv, FiniteInv
<1>3. /\ \A t \in Ticker : LoadPortfolio(fills).perTicker[t] \in Nat
      /\ \A e \in Event : LoadPortfolio(fills).perEvent[e] \in Nat
      /\ LoadPortfolio(fills).total \in Nat
  BY <1>2 DEF LoadPortfolio
<1>4. QED
  BY <1>3 DEF SharedInv, BookIsTable, Held, Gate, TotalGate

LEMMA BookNatNext == SharedInv' => \A g \in Gate : Held(book', g) \in Nat
<1>1. (SharedInv => \A g \in Gate : Held(book, g) \in Nat)'
  BY BookNat, PTL
<1>2. QED
  BY <1>1

\* A step of process p that buys no more than its room shrinks by.
LEMMA OvershootSpend ==
  ASSUME SharedInv, SharedInv', OvershootInv, NEW p \in Proc,
         \A q \in Proc \ {p} : /\ pc'[q] = pc[q] /\ mem'[q] = mem[q]
                               /\ pending'[q] = pending[q],
         pc'[p] \in {"route", "record"} => \A g \in Gate : Held(Seen(p)', g) \in Nat,
         \A g \in Gate : Held(book', g) + Room(p, g)' <= Held(book, g) + Room(p, g)
  PROVE  OvershootInv'
<1>1. \A q \in Proc \ {p} : Seen(q)' = Seen(q) /\ \A g : Room(q, g)' = Room(q, g)
  BY DEF Seen, Room
<1>2. \A q \in Proc : pc'[q] \in {"route", "record"} =>
        \A g \in Gate : Held(Seen(q)', g) \in Nat
  BY <1>1 DEF OvershootInv
<1>3. ASSUME NEW g \in Gate
      PROVE  Held(book', g) + SumOf(Rooms(g)', Proc) <= Cardinality(Proc) * Cap(g)
  <2> DEFINE f == Rooms(g)
             h == Rooms(g)'
  <2>1. NatOn(f, Proc)
    BY RoomType DEF SharedInv, TypeInv
  <2>2. NatOn(h, Proc)
    BY <1>2, GateTypes DEF Room, Rooms, NatOn
  <2>3. /\ \A q \in Proc \ {p} : f[q] = h[q]
        /\ f[p] = Room(p, g) /\ h[p] = Room(p, g)'
    BY <1>1 DEF Rooms
  <2>4. Held(book, g) \in Nat
    BY BookNat
  <2>5. Held(book', g) \in Nat
    BY BookNatNext
  <2>6. Held(book', g) + h[p] <= Held(book, g) + f[p]
    BY <2>3
  <2>7. Held(book, g) + SumOf(f, Proc) <= Cardinality(Proc) * Cap(g)
    BY DEF OvershootInv
  <2> HIDE DEF f, h
  <2>8. Held(book', g) + SumOf(h, Proc) <= Held(book, g) + SumOf(f, Proc)
    BY <2>1, <2>2, <2>3, <2>4, <2>5, <2>6, FiniteAssumption, SumTrade
  <2>9. SumOf(f, Proc) \in Nat /\ SumOf(h, Proc) \in Nat
    BY <2>1, <2>2, FiniteAssumption, SumType
  <2>10. Cardinality(Proc) * Cap(g) \in Nat
    BY FiniteAssumption, FS_CardinalityType, GateTypes
  <2>11. Held(book', g) + SumOf(h, Proc) <= Cardinality(Proc) * Cap(g)
    BY <2>4, <2>5, <2>7, <2>8, <2>9, <2>10
  <2>12. QED
    BY <2>11 DEF h
<1>4. QED
  BY <1>2, <1>3 DEF OvershootInv

LEMMA OvershootStep ==
  ASSUME SharedInv, SharedInv', OvershootInv, [Next]_vars
  PROVE  OvershootInv'
<1>1. /\ TypeOK /\ PendingHasRow
      /\ \A g \in Gate : Held(book, g) \in Nat
      /\ \A g \in Gate : Cap(g) \in Nat
      /\ \A p \in Proc, g \in Gate : Room(p, g) \in Nat
  BY BookNat, RoomType, GateTypes DEF SharedInv, TypeInv
<1> USE DEF dbVars, procVars
<1>2. ASSUME NEW p \in Proc, book' = book, pc'[p] \notin {"route", "record"},
             \A q \in Proc \ {p} : /\ pc'[q] = pc[q] /\ mem'[q] = mem[q]
                                   /\ pending'[q] = pending[q]
      PROVE  OvershootInv'
  <2>1. \A g \in Gate : Held(book', g) + Room(p, g)' <= Held(book, g) + Room(p, g)
    <3>1. \A g : Room(p, g)' = 0
      BY <1>2 DEF Room
    <3>2. QED
      BY <1>1, <1>2, <3>1
  <2>2. QED
    BY <1>2, <2>1, OvershootSpend
<1>3. ASSUME NEW p \in Proc, StartTick(p) \/ (\E S \in Picks : Scan(p, S))
      PROVE  OvershootInv'
  BY <1>1, <1>2, <1>3 DEF StartTick, Scan, TypeOK
<1>4. ASSUME NEW p \in Proc, Leave(p), book' = book
      PROVE  OvershootInv'
  BY <1>1, <1>2, <1>4 DEF Leave, TypeOK
<1>5. ASSUME NEW p \in Proc, pc[p] = "load", todo[p] # {}, Load(p)
      PROVE  OvershootInv'
  <2>1. /\ pc'[p] = "route" /\ mem'[p] = book /\ book' = book
        /\ \A q \in Proc \ {p} : /\ pc'[q] = pc[q] /\ mem'[q] = mem[q]
                                 /\ pending'[q] = pending[q]
    BY <1>1, <1>5 DEF Load, TypeOK
  <2>2. /\ Seen(p)' = book
        /\ \A q \in Proc \ {p} : Seen(q)' = Seen(q) /\ \A g : Room(q, g)' = Room(q, g)
        /\ \A g : Room(p, g) = 0
    BY <1>5, <2>1 DEF Seen, Room
  <2>3. \A q \in Proc : pc'[q] \in {"route", "record"} =>
          \A g \in Gate : Held(Seen(q)', g) \in Nat
    BY <1>1, <2>1, <2>2 DEF OvershootInv
  <2>4. ASSUME NEW g \in Gate
        PROVE  Held(book', g) + SumOf(Rooms(g)', Proc) <= Cardinality(Proc) * Cap(g)
    <3> DEFINE f == Rooms(g)
               h == Rooms(g)'
    <3>1. NatOn(f, Proc) /\ \A q \in Proc : f[q] <= Cap(g)
      BY <1>1, RoomType DEF Rooms
    <3>2. NatOn(h, Proc)
      BY <2>3, GateTypes DEF Room, Rooms, NatOn
    <3>3. /\ \A q \in Proc \ {p} : f[q] = h[q]
          /\ f[p] = 0
          /\ h[p] = IF Held(book, g) < Cap(g) THEN Cap(g) - Held(book, g) ELSE 0
      BY <2>1, <2>2 DEF Rooms, Room
    <3>4. Held(book, g) + SumOf(f, Proc) <= Cardinality(Proc) * Cap(g)
      BY DEF OvershootInv
    <3> HIDE DEF f, h
    <3>5. Held(book, g) + SumOf(h, Proc) <= Cardinality(Proc) * Cap(g)
      BY <1>1, <3>1, <3>2, <3>3, <3>4, FiniteAssumption, SumRefill
    <3>6. QED
      BY <2>1, <3>5 DEF h
  <2>5. QED
    BY <2>3, <2>4 DEF OvershootInv
<1>6. ASSUME NEW p \in Proc, NEW t \in todo[p], RouteSkip(p, t)
      PROVE  OvershootInv'
  <2>1. /\ pc[p] = "route" /\ pc'[p] \in {"route", "settle"}
        /\ mem' = mem /\ pending' = pending /\ book' = book
        /\ \A q \in Proc \ {p} : pc'[q] = pc[q]
    BY <1>1, <1>6 DEF RouteSkip, Advance, TypeOK
  <2>2. Seen(p)' = Seen(p) /\ \A g \in Gate : Room(p, g)' \in {Room(p, g), 0}
    BY <2>1 DEF Seen, Room
  <2>3. \A g \in Gate : Held(book', g) + Room(p, g)' <= Held(book, g) + Room(p, g)
    BY <1>1, <2>1, <2>2
  <2>4. QED
    BY <2>1, <2>2, <2>3, OvershootSpend DEF OvershootInv
<1>7. ASSUME NEW p \in Proc, RecordFill(p)
      PROVE  OvershootInv'
  <2>1. /\ pc[p] = "record" /\ pc'[p] \in {"route", "settle"}
        /\ mem'[p] = With(mem[p], pending[p].ticker, pending[p].size) /\ book' = book
        /\ \A q \in Proc \ {p} : /\ pc'[q] = pc[q] /\ mem'[q] = mem[q]
                                 /\ pending'[q] = pending[q]
    BY <1>1, <1>7 DEF RecordFill, Advance, ApplyFill, TypeOK
  <2>2. Seen(p)' = Seen(p) /\ \A g \in Gate : Room(p, g)' \in {Room(p, g), 0}
    BY <2>1 DEF Seen, Room
  <2>3. \A g \in Gate : Held(book', g) + Room(p, g)' <= Held(book, g) + Room(p, g)
    BY <1>1, <2>1, <2>2
  <2>4. QED
    BY <2>1, <2>2, <2>3, OvershootSpend DEF OvershootInv
<1>8. ASSUME NEW p \in Proc, NEW t \in todo[p], RouteFill(p, t)
      PROVE  OvershootInv'
  <2> DEFINE n == ApproveOrder(t, Requested, mem[p]).size
  <2>1. /\ t \in Ticker /\ mem[p] \in Portfolio /\ book \in Portfolio
        /\ n \in Nat
    BY <1>1, ApproveSound, RequestedInt DEF TypeOK
  <2>2. /\ pc[p] = "route" /\ pc'[p] = "record" /\ mem' = mem
        /\ pending'[p] = [ticker |-> t, size |-> n]
        /\ book' = With(book, t, n)
        /\ \A q \in Proc \ {p} : pc'[q] = pc[q] /\ pending'[q] = pending[q]
        /\ n # 0
    BY <1>1, <1>8 DEF RouteFill, TypeOK
  <2>3. \A g \in GatesOf(t) : Held(mem[p], g) + n <= Cap(g)
    BY <2>1, <2>2, ApprovedFits
  <2> HIDE DEF n
  <2>4. Seen(p) = mem[p] /\ Seen(p)' = With(mem[p], t, n)
    BY <2>2 DEF Seen
  <2>5. \A g \in Gate : Held(mem[p], g) \in Nat
    BY <2>2, <2>4 DEF OvershootInv
  <2>6. \A g \in Gate :
          /\ Held(Seen(p)', g) = IF g \in GatesOf(t) THEN Held(mem[p], g) + n
                                 ELSE Held(mem[p], g)
          /\ Held(book', g) = IF g \in GatesOf(t) THEN Held(book, g) + n ELSE Held(book, g)
    BY <2>1, <2>2, <2>4, WithHeld
  <2>7. ASSUME NEW g \in Gate
        PROVE  Held(book', g) + Room(p, g)' <= Held(book, g) + Room(p, g)
    <3>1. Room(p, g) = IF Held(mem[p], g) < Cap(g) THEN Cap(g) - Held(mem[p], g) ELSE 0
      BY <2>2, <2>4 DEF Room
    <3>2. Room(p, g)' = IF Held(Seen(p)', g) < Cap(g) THEN Cap(g) - Held(Seen(p)', g) ELSE 0
      BY <2>2 DEF Room
    <3>3. CASE g \in GatesOf(t)
      <4>1. Held(mem[p], g) + n <= Cap(g)
        BY <2>3, <3>3
      <4>2. Room(p, g) = Cap(g) - Held(mem[p], g) /\ Room(p, g)' = Cap(g) - Held(mem[p], g) - n
        BY <1>1, <2>1, <2>2, <2>5, <2>6, <3>1, <3>2, <3>3, <4>1
      <4>3. QED
        BY <1>1, <2>1, <2>5, <2>6, <3>3, <4>2
    <3>4. CASE g \notin GatesOf(t)
      <4>1. Held(book', g) = Held(book, g) /\ Room(p, g)' = Room(p, g)
        BY <2>6, <3>1, <3>2, <3>4
      <4>2. QED
        BY <1>1, <4>1
    <3>5. QED
      BY <3>3, <3>4
  <2>8. \A g \in Gate : Held(Seen(p)', g) \in Nat
    BY <2>1, <2>5, <2>6
  <2>9. QED
    BY <2>2, <2>7, <2>8, OvershootSpend
<1>9. ASSUME NEW p \in Proc, TickStep(p)
      PROVE  OvershootInv'
  BY <1>3, <1>4, <1>5, <1>6, <1>7, <1>8, <1>9 DEF TickStep, Load, Settle, Abort
<1>10. ASSUME Kill \/ Unkill \/ (\E t \in Ticker : Resolve(t)) \/ UNCHANGED vars
       PROVE  OvershootInv'
  <2>1. pc' = pc /\ mem' = mem /\ pending' = pending /\ book' = book
    BY <1>10 DEF Kill, Unkill, Resolve, vars
  <2>2. QED
    BY <2>1 DEF OvershootInv, Rooms, Room, Seen
<1>11. QED
  BY <1>9, <1>10 DEF Next

LEMMA OvershootInit == Init => OvershootInv
<1> SUFFICES ASSUME Init PROVE OvershootInv
  OBVIOUS
<1>1. \A g \in Gate : Held(book, g) = 0
  BY DEF Init, NoPositions, Held, Gate, TotalGate
<1>2. ASSUME NEW g \in Gate PROVE SumOf(Rooms(g), Proc) <= Cardinality(Proc) * 0
  <2>1. NatOn(Rooms(g), Proc) /\ \A p \in Proc : 0 <= Rooms(g)[p] /\ Rooms(g)[p] <= 0
    BY DEF Init, Rooms, Room, NatOn
  <2>2. QED
    BY <2>1, FiniteAssumption, SumBetween
<1>3. Cardinality(Proc) \in Nat
  BY FiniteAssumption, FS_CardinalityType
<1>4. ASSUME NEW g \in Gate
      PROVE  Held(book, g) + SumOf(Rooms(g), Proc) <= Cardinality(Proc) * Cap(g)
  <2>1. SumOf(Rooms(g), Proc) \in Nat
    <3>1. NatOn(Rooms(g), Proc)
      BY DEF Init, Rooms, Room, NatOn
    <3>2. QED
      BY <3>1, FiniteAssumption, SumType
  <2>2. SumOf(Rooms(g), Proc) = 0
    BY <1>2, <1>3, <2>1
  <2>3. Cardinality(Proc) * Cap(g) \in Nat
    BY <1>3, GateTypes
  <2>4. QED
    BY <1>1, <2>2, <2>3
<1>5. QED
  BY <1>4 DEF OvershootInv, Init

\* Any number of traders on one database overshoot a cap by no more than its
\* value for each of them beyond the first.
THEOREM OvershootAlwaysBounded == Spec => []OvershootBounded
<1>1. SharedInv /\ SharedInv' /\ OvershootInv /\ [Next]_vars => OvershootInv'
  BY OvershootStep
<1>2. SharedInv /\ OvershootInv => OvershootBounded
  <2> SUFFICES ASSUME SharedInv, OvershootInv PROVE OvershootBounded
    OBVIOUS
  <2>1. ASSUME NEW g \in Gate PROVE Held(book, g) <= Cardinality(Proc) * Cap(g)
    <3>1. SumOf(Rooms(g), Proc) \in Nat
      BY RoomType, FiniteAssumption, SumType DEF SharedInv, TypeInv
    <3>2. Held(book, g) \in Nat /\ Cardinality(Proc) * Cap(g) \in Nat
      BY BookNat, FiniteAssumption, FS_CardinalityType, GateTypes
    <3>3. QED
      BY <3>1, <3>2 DEF OvershootInv
  <2>2. /\ \A t \in Ticker : <<"market", t>> \in Gate
        /\ \A e \in Event : <<"event", e>> \in Gate
        /\ TotalGate \in Gate
    BY DEF Gate
  <2>3. /\ \A t \in Ticker : /\ Held(book, <<"market", t>>) = book.perTicker[t]
                             /\ Cap(<<"market", t>>) = MaxPerMarket
        /\ \A e \in Event : /\ Held(book, <<"event", e>>) = book.perEvent[e]
                            /\ Cap(<<"event", e>>) = MaxPerEvent
        /\ Held(book, TotalGate) = book.total /\ Cap(TotalGate) = MaxTotal
    BY DEF Held, Cap, TotalGate
  <2>4. QED
    BY <2>1, <2>2, <2>3 DEF OvershootBounded
<1>3. QED
  BY <1>1, <1>2, OvershootInit, SharedInvariant, PTL DEF Spec
=============================================================================
