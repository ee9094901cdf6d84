---------------------------- MODULE PaperTrading ----------------------------
(***************************************************************************)
(* Trading ticks in paper mode: run_tick (scheduler/loop.py) with the      *)
(* router and PaperBroker it drives, over the recorder's database.  The    *)
(* processes that run ticks are the daemon and one-shot `tick` commands;   *)
(* they share nothing but the database and the kill.lock file.  A process  *)
(* may lose its tick at any await (an exception, a cancellation or the end *)
(* of the process): what it committed stays, its memory goes.              *)
(*                                                                         *)
(* `fills` is the table; `book` is the same table as the three sums        *)
(* load_portfolio takes of it (MemoryAgrees ties the two together).          *)
(***************************************************************************)
EXTENDS RiskLimits

CONSTANTS
  Proc,      \* processes that run ticks
  MaxTicks   \* bound: ticks started in a behaviour

ASSUME MaxTicksAssumption == MaxTicks \in Nat
ASSUME FiniteAssumption == IsFiniteSet(Proc) /\ IsFiniteSet(Event)

VARIABLES
  lock,       \* kill.lock exists
  pc,         \* where each process is in run_tick
  tick,       \* the tick each process runs (tick_id)
  todo,       \* picks each process has yet to route
  pending,    \* the fill each process has committed and not yet accounted for
  mem,        \* the PortfolioState each process gates on
  fills,      \* rows of the fills table
  book,       \* their sums per market, per event and in total
  decisions,  \* rows of the decisions table
  ticks,      \* ticks started so far
  resolved,   \* markets the exchange has settled
  settled     \* rows of market_settlements

procVars == <<pc, tick, todo, pending, mem>>
dbVars == <<fills, book, decisions, settled>>
vars == <<lock, procVars, dbVars, ticks, resolved>>

Stage == {"idle", "fetch", "load", "route", "record", "settle"}
NoFill == [ticker |-> "none", size |-> 0]

Init ==
  /\ lock = FALSE
  /\ pc = [p \in Proc |-> "idle"]
  /\ tick = [p \in Proc |-> 0]
  /\ todo = [p \in Proc |-> {}]
  /\ pending = [p \in Proc |-> NoFill]
  /\ mem = [p \in Proc |-> NoPositions]
  /\ fills = {} /\ book = NoPositions /\ decisions = {}
  /\ ticks = 0
  /\ resolved = {} /\ settled = {}

\* The process is out of its tick and has forgotten it.
Leave(p) ==
  /\ pc' = [pc EXCEPT ![p] = "idle"]
  /\ tick' = [tick EXCEPT ![p] = 0]
  /\ todo' = [todo EXCEPT ![p] = {}]
  /\ pending' = [pending EXCEPT ![p] = NoFill]
  /\ mem' = [mem EXCEPT ![p] = NoPositions]

\* Mutant: the tick does not look at the lock.
StartTickUnlocked(p) ==
  /\ pc[p] = "idle" /\ ticks < MaxTicks
  /\ ticks' = ticks + 1
  /\ tick' = [tick EXCEPT ![p] = ticks + 1]
  /\ pc' = [pc EXCEPT ![p] = "fetch"]
  /\ UNCHANGED <<lock, todo, pending, mem, dbVars, resolved>>

\* run_tick up to its first await: a fresh tick_id, and the only look at the
\* kill switch.  With the lock present the tick returns and changes nothing.
StartTick(p) ==
  /\ pc[p] = "idle" /\ ticks < MaxTicks
  /\ ~lock
  /\ ticks' = ticks + 1
  /\ tick' = [tick EXCEPT ![p] = ticks + 1]
  /\ pc' = [pc EXCEPT ![p] = "fetch"]
  /\ UNCHANGED <<lock, todo, pending, mem, dbVars, resolved>>

\* _pick_per_event_best: among open markets, at most one flagged market of
\* each event.  Which ones is up to the forecasts and the quotes.
Picks == {S \in SUBSET (Ticker \ resolved) :
            \A t, u \in S : EventOf[t] = EventOf[u] => t = u}

\* The inputs arrive, the rows are built and persisted, the picks chosen.
Scan(p, S) ==
  /\ pc[p] = "fetch"
  /\ todo' = [todo EXCEPT ![p] = S]
  /\ pc' = [pc EXCEPT ![p] = "load"]
  /\ UNCHANGED <<lock, tick, pending, mem, dbVars, ticks, resolved>>

\* PaperBroker.load_portfolio: every fill ever recorded counts, summed per
\* market, per event and in total; the day's P&L keeps its default.
LoadPortfolio(rows) ==
  [perTicker |-> [t \in Ticker |-> Contracts({r \in rows : r.ticker = t})],
   perEvent |-> [e \in Event |-> Contracts({r \in rows : EventOf[r.ticker] = e})],
   total |-> Contracts(rows),
   dailyPnl |-> 0]

\* The portfolio is read once for the whole tick.  Without picks the tick
\* returns here, before the settlement check.
Load(p) ==
  /\ pc[p] = "load"
  /\ IF todo[p] = {}
     THEN Leave(p)
     ELSE /\ mem' = [mem EXCEPT ![p] = book]
          /\ pc' = [pc EXCEPT ![p] = "route"]
          /\ UNCHANGED <<tick, todo, pending>>
  /\ UNCHANGED <<lock, dbVars, ticks, resolved>>

\* After the last pick the tick goes on to the settlement check.
Advance(p) ==
  pc' = [pc EXCEPT ![p] = IF todo'[p] = {} THEN "settle" ELSE "route"]

\* route, refused: the skip is recorded and committed.
RouteSkip(p, t) ==
  LET decision == ApproveOrder(t, Requested, mem[p])
  IN /\ pc[p] = "route" /\ t \in todo[p]
     /\ decision.size = 0
     /\ decisions' = decisions \cup
          {[tick |-> tick[p], ticker |-> t, action |-> decision.reason, size |-> 0]}
     /\ todo' = [todo EXCEPT ![p] = @ \ {t}]
     /\ Advance(p)
     /\ UNCHANGED <<lock, tick, pending, mem, fills, book, settled, ticks, resolved>>

\* route, approved: PaperBroker.taker_buy inserts the order and its fill and
\* commits both at once.  A pick's side has a quote (evaluate makes no
\* candidate without one), so the paper broker always fills the whole size.
RouteFill(p, t) ==
  LET decision == ApproveOrder(t, Requested, mem[p])
  IN /\ pc[p] = "route" /\ t \in todo[p]
     /\ decision.size # 0
     /\ fills' = fills \cup
          {[tick |-> tick[p], ticker |-> t, count |-> decision.size]}
     /\ book' = With(book, t, decision.size)
     /\ pending' = [pending EXCEPT ![p] = [ticker |-> t, size |-> decision.size]]
     /\ todo' = [todo EXCEPT ![p] = @ \ {t}]
     /\ pc' = [pc EXCEPT ![p] = "record"]
     /\ UNCHANGED <<lock, tick, mem, decisions, settled, ticks, resolved>>

\* Mutant: the decision of a fill is not recorded.
RecordFillSilently(p) ==
  /\ pc[p] = "record"
  /\ mem' = [mem EXCEPT ![p] = ApplyFill(@, pending[p].ticker, pending[p].size)]
  /\ pending' = [pending EXCEPT ![p] = NoFill]
  /\ UNCHANGED todo
  /\ Advance(p)
  /\ UNCHANGED <<lock, tick, dbVars, ticks, resolved>>

\* route, after the broker: the tick's portfolio takes the fill, then the
\* decision is recorded in a commit of its own.
RecordFill(p) ==
  /\ pc[p] = "record"
  /\ mem' = [mem EXCEPT ![p] = ApplyFill(@, pending[p].ticker, pending[p].size)]
  /\ decisions' = decisions \cup
       {[tick |-> tick[p], ticker |-> pending[p].ticker,
         action |-> "buy", size |-> pending[p].size]}
  /\ pending' = [pending EXCEPT ![p] = NoFill]
  /\ UNCHANGED todo
  /\ Advance(p)
  /\ UNCHANGED <<lock, tick, fills, book, settled, ticks, resolved>>

\* Markets with fills and no settlement row.
UnsettledTickers == {r.ticker : r \in fills} \ settled

\* check_settlements at the end of the tick: each market is asked about in
\* turn, a failed request skips it, the new rows are committed together.  An
\* exception of the whole check is swallowed: S may be any subset.
Settle(p, S) ==
  /\ pc[p] = "settle"
  /\ settled' = settled \cup S
  /\ Leave(p)
  /\ UNCHANGED <<lock, fills, book, decisions, ticks, resolved>>

\* An exception, a cancellation or a crash ends the tick between two commits.
Abort(p) ==
  /\ pc[p] # "idle"
  /\ Leave(p)
  /\ UNCHANGED <<lock, dbVars, ticks, resolved>>

\* The kill and unkill commands.
Kill ==
  /\ ~lock /\ lock' = TRUE
  /\ UNCHANGED <<procVars, dbVars, ticks, resolved>>

Unkill ==
  /\ lock /\ lock' = FALSE
  /\ UNCHANGED <<procVars, dbVars, ticks, resolved>>

\* The exchange settles a market.
Resolve(t) ==
  /\ t \notin resolved
  /\ resolved' = resolved \cup {t}
  /\ UNCHANGED <<lock, procVars, dbVars, ticks>>

TickStep(p) ==
  \/ StartTick(p)
  \/ \E S \in Picks : Scan(p, S)
  \/ Load(p)
  \/ \E t \in todo[p] : RouteSkip(p, t) \/ RouteFill(p, t)
  \/ RecordFill(p)
  \/ \E S \in SUBSET (UnsettledTickers \cap resolved) : Settle(p, S)
  \/ Abort(p)

Next ==
  \/ \E p \in Proc : TickStep(p)
  \/ Kill \/ Unkill
  \/ \E t \in Ticker : Resolve(t)

Spec == Init /\ [][Next]_vars

-----------------------------------------------------------------------------
\* Every variable has its type.
TypeOK ==
  /\ lock \in BOOLEAN
  /\ pc \in [Proc -> Stage]
  /\ tick \in [Proc -> Nat]
  /\ todo \in [Proc -> SUBSET Ticker]
  /\ pending \in [Proc -> [ticker: Ticker \cup {"none"}, size: Nat]]
  /\ mem \in [Proc -> Portfolio]
  /\ fills \subseteq [tick: Nat, ticker: Ticker, count: Nat \ {0}]
  /\ book \in Portfolio
  /\ decisions \subseteq
       [tick: Nat, ticker: Ticker, action: RefuseReason \cup {"buy"}, size: Nat]
  /\ ticks \in Nat
  /\ resolved \subseteq Ticker
  /\ settled \subseteq Ticker

\* What the database holds never exceeds the per-market, per-event and total
\* caps (risk/limits.py:55-68), whatever the ticks, failures and restarts.
CapsHeld == WithinCaps(book)

\* The two computations of a portfolio agree: what a tick accumulates with
\* apply_fill (limits.py:73) is what load_portfolio (paper.py:97) would read
\* back from the table at that moment, and `book` is that reading too.
MemoryAgrees ==
  /\ book = LoadPortfolio(fills)
  /\ \A p \in Proc : pc[p] = "route" => mem[p] = LoadPortfolio(fills)

\* A market is entered once: the position_filled gate (limits.py:53) and the
\* clamp leave no way to add to a position on a later tick, after a crash, or
\* after a position was cut short by a cap.
EnteredOnce ==
  /\ \A r, s \in fills : r.ticker = s.ticker => r = s
  /\ \A r \in fills : r.count <= Requested

\* A fill waiting for its decision is a row of the table.
PendingHasRow ==
  \A p \in Proc : pc[p] = "record" =>
    /\ pending[p].ticker \in Ticker
    /\ pending[p].size > 0
    /\ [tick |-> tick[p], ticker |-> pending[p].ticker, count |-> pending[p].size]
         \in fills

\* What a lone trader's tick holds in memory is the table, or the table before
\* the fill it has yet to account for.
MemoryFollows ==
  \A p \in Proc :
    /\ pc[p] = "route" => mem[p] = book
    /\ pc[p] = "record" => book = With(mem[p], pending[p].ticker, pending[p].size)

\* The row of a market is the whole position in it.
RowsAreEntries ==
  /\ \A r \in fills : book.perTicker[r.ticker] = r.count
  /\ \A t \in Ticker : 0 <= book.perTicker[t]

\* A position short of the requested size was cut by a cap that stays used up.
ShortPositionsAreFinal ==
  \A t \in Ticker :
    \/ book.perTicker[t] = 0
    \/ book.perTicker[t] = Requested
    \/ MaxPerEvent <= book.perEvent[EventOf[t]]
    \/ MaxTotal <= book.total

\* The inductive invariant of one trader: the caps and the single entry rest
\* on memory being the table and on short positions being final
\* (limits.py:52-69, loop.py:250-267).
OneTraderInv ==
  /\ TypeOK /\ PendingHasRow /\ MemoryFollows
  /\ RowsAreEntries /\ ShortPositionsAreFinal
  /\ CapsHeld /\ EnteredOnce

\* Fills whose decision is not in the table.
Unaudited ==
  {r \in fills : [tick |-> r.tick, ticker |-> r.ticker,
                  action |-> "buy", size |-> r.count] \notin decisions}

\* The audit trail (router.py:3): a buy decision has its fill, a pick has one
\* decision, and only the last fill of a tick can lack its decision: while the
\* tick is about to write it, or for ever when the tick was lost there.
AuditTrail ==
  /\ \A d \in decisions : d.action = "buy" =>
       [tick |-> d.tick, ticker |-> d.ticker, count |-> d.size] \in fills
  /\ \A d, e \in decisions : d.tick = e.tick /\ d.ticker = e.ticker => d = e
  /\ \A r, s \in Unaudited : r.tick = s.tick => r = s
  /\ \A r \in Unaudited, p \in Proc : tick[p] = r.tick => pc[p] = "record"

\* Fills the ticks in flight may still make.
PicksLeft(p) ==
  CASE pc[p] = "fetch" -> Cardinality(Event)
    [] pc[p] \in {"load", "route", "record"} -> Cardinality(todo[p])
    [] OTHER -> 0

Outstanding == SumOf([p \in Proc |-> PicksLeft(p)], Proc)

\* The kill switch bounds what is still bought: while the lock stays, every
\* fill uses up one of the picks the ticks in flight had left, and nothing
\* ever adds to those (loop.py:200, killswitch.py:3).
KillDrains ==
  [][lock /\ lock' =>
       Cardinality(fills') + Outstanding' <= Cardinality(fills) + Outstanding]_vars

\* With n traders on one database each may overshoot on the portfolio it read
\* before the others bought, once: every sum stays within n times its cap.
OvershootBounded ==
  LET n == Cardinality(Proc)
  IN /\ \A t \in Ticker : book.perTicker[t] <= n * MaxPerMarket
     /\ \A e \in Event : book.perEvent[e] <= n * MaxPerEvent
     /\ book.total <= n * MaxTotal

Ledger == INSTANCE ExposureLedger WITH exposure <- book

\* One trader implements the exposure ledger: every change of the database is
\* one first entry into a market, inside the caps.
ImplementsLedger == Ledger!LedgerSpec

\* limits.py:23 says the state is a snapshot of current positions: none of
\* them is in a market whose settlement is already recorded.
LoadedPositionsAreOpen ==
  \A p \in Proc, t \in Ticker :
    pc[p] = "route" /\ mem[p].perTicker[t] > 0 => t \notin settled
=============================================================================
