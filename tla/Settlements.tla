----------------------------- MODULE Settlements -----------------------------
(***************************************************************************)
(* What becomes of a position: check_settlements and compute_realized_pnl  *)
(* (recorder/settlements.py), run by the daemon's ticks and the `settle`   *)
(* command on one SQLite database, and the dashboard's read_pnl, which     *)
(* reads that database in two queries.  SQLite in WAL mode gives readers   *)
(* the last commit and lets one connection at a time hold writes.          *)
(*                                                                         *)
(* A tick is here its buys, one step each (module PaperTrading has them in *)
(* full), and the check at its end, which it reaches only if it had picks. *)
(***************************************************************************)
EXTENDS RiskLimits, Fees, FiniteSets, FiniteSetsExt

CONSTANTS
  Proc,      \* processes that check settlements
  Trader,    \* those whose checks end a tick; the others run the settle command
  Side,      \* sides of a market that ticks buy
  Price,     \* costs of a contract, in cents
  MaxFills   \* bound: fills in a behaviour

ASSUME ProcAssumption == "none" \notin Proc /\ Trader \subseteq Proc
ASSUME SideAssumption == Side \subseteq {"yes", "no"}
ASSUME PriceAssumption == Price \subseteq 1..99
ASSUME MaxFillsAssumption == MaxFills \in Nat

VARIABLES
  market,   \* the exchange's status and result of each market
  fills,    \* the fills table, with the side of each fill's order
  rows,     \* market_settlements: the result recorded, or "none"
  pc,       \* each process: "idle", in the "tick" before its check, or asking
  todo,     \* the markets it has yet to ask about
  txn,      \* the rows it has inserted and not committed
  writer,   \* the process that holds SQLite's write lock, or "none"
  view      \* what the dashboard has read: the stage and the fills seen

checkVars == <<pc, todo, txn, writer>>
vars == <<market, fills, rows, checkVars, view>>

Outcome == {"yes", "no"}
NoRows == [t \in Ticker |-> "none"]

Init ==
  /\ market = [t \in Ticker |-> [status |-> "active", result |-> "none"]]
  /\ fills = {} /\ rows = NoRows
  /\ pc = [p \in Proc |-> "idle"] /\ todo = [p \in Proc |-> {}]
  /\ txn = [p \in Proc |-> NoRows] /\ writer = "none"
  /\ view = [stage |-> "settled", settled |-> {}, open |-> {}]

\* PaperBroker.load_portfolio: the day's P&L keeps its default.
LoadPortfolio ==
  [perTicker |-> [t \in Ticker |-> Contracts({r \in fills : r.ticker = t})],
   perEvent |-> [e \in Event |-> Contracts({r \in fills : EventOf[r.ticker] = e})],
   total |-> Contracts(fills),
   dailyPnl |-> 0]

\* A tick has loaded its portfolio.
BeginTick(p) ==
  /\ p \in Trader /\ pc[p] = "idle"
  /\ pc' = [pc EXCEPT ![p] = "tick"]
  /\ UNCHANGED <<market, fills, rows, todo, txn, writer, view>>

\* It returns before the check when it has no picks; or it is lost on the way.
LeaveTick(p) ==
  /\ pc[p] = "tick"
  /\ pc' = [pc EXCEPT ![p] = "idle"]
  /\ UNCHANGED <<market, fills, rows, todo, txn, writer, view>>

\* A tick buys at the price of the side it takes: the ask for yes, 100 - bid
\* for no (PaperBroker.taker_buy).
Buy(p, t, side, price) ==
  LET decision == ApproveOrder(t, Requested, LoadPortfolio)
  IN /\ pc[p] = "tick"
     /\ market[t].status = "active" /\ writer = "none"
     /\ Cardinality(fills) < MaxFills
     /\ decision.size > 0
     /\ fills' = fills \cup {[id |-> Cardinality(fills) + 1, ticker |-> t, side |-> side,
                             price |-> price, count |-> decision.size]}
     /\ UNCHANGED <<market, rows, checkVars, view>>

-----------------------------------------------------------------------------
\* Mutant: the join with the settlements does not compare the markets.
UnsettledTickersUnjoined == {t \in {f.ticker : f \in fills} : rows = NoRows}

\* _unsettled_tickers: markets with fills and no committed row.
UnsettledTickers == {t \in {f.ticker : f \in fills} : rows[t] = "none"}

\* The check at the end of a tick, or of the settle command.
StartCheck(p) ==
  /\ pc[p] = IF p \in Trader THEN "tick" ELSE "idle"
  /\ todo' = [todo EXCEPT ![p] = UnsettledTickers]
  /\ pc' = [pc EXCEPT ![p] = "ask"]
  /\ UNCHANGED <<market, fills, rows, txn, writer, view>>

\* INSERT OR IGNORE: a row that is there stays.
Insert(p, t, result) ==
  /\ writer \in {"none", p} /\ writer' = p
  /\ txn' = [txn EXCEPT ![p][t] = IF rows[t] = "none" THEN result ELSE "none"]

\* Mutant: any result is taken, whatever the market's status.
AskAnyStatus(p, t) ==
  /\ pc[p] = "ask" /\ t \in todo[p]
  /\ todo' = [todo EXCEPT ![p] = @ \ {t}]
  /\ IF market[t].result = "none" THEN UNCHANGED <<txn, writer>>
     ELSE Insert(p, t, market[t].result)
  /\ UNCHANGED <<market, fills, rows, pc, view>>

\* The exchange answers about one market: only a final result is inserted (the
\* statuses "settled" and "finalized" are one here).
Ask(p, t) ==
  /\ pc[p] = "ask" /\ t \in todo[p]
  /\ todo' = [todo EXCEPT ![p] = @ \ {t}]
  /\ IF market[t].status # "finalized" \/ market[t].result = "none"
     THEN UNCHANGED <<txn, writer>>
     ELSE Insert(p, t, market[t].result)
  /\ UNCHANGED <<market, fills, rows, pc, view>>

\* The request fails or its answer does not parse: the market is passed over.
AskFails(p, t) ==
  /\ pc[p] = "ask" /\ t \in todo[p]
  /\ todo' = [todo EXCEPT ![p] = @ \ {t}]
  /\ UNCHANGED <<market, fills, rows, pc, txn, writer, view>>

\* Mutant: the database connection is left open, its transaction with it.
QuitOpen(p) ==
  /\ pc' = [pc EXCEPT ![p] = "idle"]
  /\ todo' = [todo EXCEPT ![p] = {}]
  /\ UNCHANGED <<txn, writer>>

\* The check is over and its connection closed: what was not committed is gone.
Quit(p) ==
  /\ pc' = [pc EXCEPT ![p] = "idle"]
  /\ todo' = [todo EXCEPT ![p] = {}]
  /\ txn' = [txn EXCEPT ![p] = NoRows]
  /\ writer' = IF writer = p THEN "none" ELSE writer

\* The new rows are committed together, if there are any.
Finish(p) ==
  /\ pc[p] = "ask" /\ todo[p] = {}
  /\ rows' = [t \in Ticker |-> IF txn[p][t] = "none" THEN rows[t] ELSE txn[p][t]]
  /\ Quit(p)
  /\ UNCHANGED <<market, fills, view>>

\* The check ends in between: a crash, a cancellation, or an insert that waited
\* too long for the write lock.  What it inserted is rolled back.
Abort(p) ==
  /\ pc[p] = "ask"
  /\ Quit(p)
  /\ UNCHANGED <<market, fills, rows, view>>

\* The exchange: trading closes, with or without a first result; the result
\* becomes final later.
CloseMarket(t) ==
  /\ market[t].status = "active"
  /\ \E r \in Outcome \cup {"none"} :
       market' = [market EXCEPT ![t] = [status |-> "closed", result |-> r]]
  /\ UNCHANGED <<fills, rows, checkVars, view>>

Finalize(t) ==
  /\ market[t].status = "closed"
  /\ \E r \in Outcome : market' = [market EXCEPT ![t] = [status |-> "finalized", result |-> r]]
  /\ UNCHANGED <<fills, rows, checkVars, view>>

-----------------------------------------------------------------------------
SettledFills == {f \in fills : rows[f.ticker] # "none"}
OpenFills == fills \ SettledFills

\* Mutant: the open positions are read first.
ReadPnlOpenFirst ==
  /\ IF view.stage = "settled"
     THEN view' = [stage |-> "open", settled |-> {}, open |-> OpenFills]
     ELSE view' = [view EXCEPT !.stage = "settled", !.settled = SettledFills]
  /\ UNCHANGED <<market, fills, rows, checkVars>>

\* read_pnl: the settled fills, then the open ones, each query on the last commit.
ReadPnl ==
  /\ IF view.stage = "settled"
     THEN view' = [stage |-> "open", settled |-> SettledFills, open |-> {}]
     ELSE view' = [view EXCEPT !.stage = "settled", !.open = OpenFills]
  /\ UNCHANGED <<market, fills, rows, checkVars>>

\* compute_realized_pnl for one settled fill.
RealizedPnl(f) ==
  LET fee == TakerFee(f.count, f.price)
  IN IF f.side = "yes"
     THEN (IF rows[f.ticker] = "yes" THEN 100 - f.price ELSE -f.price) * f.count - fee
     ELSE (IF rows[f.ticker] = "no" THEN f.price ELSE -(100 - f.price)) * f.count - fee

\* Steps of a check in progress.
CheckStep(p) ==
  \/ Finish(p) \/ Abort(p)
  \/ \E t \in todo[p] : Ask(p, t) \/ AskFails(p, t)

Next ==
  \/ \E p \in Proc : BeginTick(p) \/ LeaveTick(p) \/ StartCheck(p) \/ CheckStep(p)
  \/ \E p \in Proc, t \in Ticker, side \in Side, price \in Price : Buy(p, t, side, price)
  \/ \E t \in Ticker : CloseMarket(t) \/ Finalize(t)
  \/ ReadPnl

Spec == Init /\ [][Next]_vars

\* Every await of a check ends, and no request is answered with an error for
\* ever.  Nothing makes a tick come to its check, or an operator run a command.
FairSpec ==
  /\ Spec
  /\ \A p \in Proc : WF_vars(CheckStep(p)) /\ \A t \in Ticker : SF_vars(Ask(p, t))

-----------------------------------------------------------------------------
\* Every variable has its type, and a process that is not checking keeps
\* nothing of a check: no list, no open transaction, no write lock.
TypeOK ==
  /\ market \in [Ticker -> [status: {"active", "closed", "finalized"},
                            result: Outcome \cup {"none"}]]
  /\ fills \subseteq [id: 1..MaxFills, ticker: Ticker, side: Side,
                      price: Price, count: 1..MaxPerMarket]
  /\ rows \in [Ticker -> Outcome \cup {"none"}]
  /\ pc \in [Proc -> {"idle", "tick", "ask"}]
  /\ todo \in [Proc -> SUBSET Ticker]
  /\ txn \in [Proc -> [Ticker -> Outcome \cup {"none"}]]
  /\ writer \in Proc \cup {"none"}
  /\ \A p \in Proc : pc[p] # "ask" => todo[p] = {} /\ txn[p] = NoRows /\ writer # p
  /\ view \in [stage: {"settled", "open"}, settled: SUBSET fills, open: SUBSET fills]

\* A recorded result is the exchange's final one, and two processes that check
\* at once never change it (settlements.py:45-53).
ResultsAreFinal ==
  /\ \A t \in Ticker : rows[t] # "none" =>
       market[t] = [status |-> "finalized", result |-> rows[t]]
  /\ \A p \in Proc : txn[p] # NoRows => writer = p

\* The dashboard's two queries never count a fill both as settled and as open,
\* whatever is committed between them (queries.py:158-201).
NoFillTwice == view.settled \cap view.open = {}

\* Process p loses its check: with markets yet to ask about, or with rows that
\* are then not in the table.
Loses(p) ==
  /\ pc[p] = "ask" /\ pc'[p] = "idle"
  /\ todo[p] # {} \/ (txn[p] # NoRows /\ rows' = rows)

ChecksKeepComing == []<>(\E p \in Proc : pc[p] = "ask")

\* If checks keep coming, an operator's or those of ticks that have picks, and
\* are not cut short for ever, every position in a finalized market gets its
\* settlement row, through failed requests, a competing writer and any number of
\* lost checks (settlements.py:25-65).  The premise is no promise of the code: a
\* tick without picks returns before its check (loop.py:251-253).
SettlesEventually ==
  ChecksKeepComing /\ <>[][\A p \in Proc : ~Loses(p)]_vars =>
  \A t \in Ticker :
    (market[t].status = "finalized" /\ \E f \in fills : f.ticker = t) ~> rows[t] # "none"

\* What a settled fill earned: one dollar a contract if its side won, less its
\* cost and fee.
Cash(f) ==
  (IF f.side = rows[f.ticker] THEN 100 ELSE 0) * f.count
    - f.price * f.count - TakerFee(f.count, f.price)

\* settlements.py:69 says compute_realized_pnl gives per-fill realized P&L.
RealizedIsCash == \A f \in SettledFills : RealizedPnl(f) = Cash(f)

\* limits.py:9-10 says the gate fires when the realized loss reaches the limit.
LossHaltsTrading ==
  [][MapThenSumSet(Cash, SettledFills) <= -MaxDailyLossUsd * 100 => fills' = fills]_vars
=============================================================================
