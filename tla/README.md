# Verification of the Kalshi weather bot

TLA+ models of the trading bot in `src/src/kalshi_weather_bot`, TLC runs that
check them on small instances, and TLAPS proofs of what matters most for every
instance. Paths below are relative to that package unless they begin with
`src/`.

- [The system](#the-system)
- [The modules](#the-modules)
- [The runs](#the-runs)
- [Fairness](#fairness)
- [The proofs](#the-proofs)
- [Where the code and its documents part](#where-the-code-and-its-documents-part)
- [What is assumed and what is left out](#what-is-assumed-and-what-is-left-out)
- [Plan](#plan)

## The system

A daemon (`cli.py run`) fires a *tick* on a cron schedule. A tick fetches
markets, ensemble forecasts and NWS forecasts, builds a table of edges, picks
at most one market per event, sizes each pick against risk limits, buys, and
asks the exchange which markets have settled. Orders go to a simulated broker
(paper mode) or to the exchange (demo and live mode). Everything a tick does is
recorded in one SQLite database; an operator stops the bot with a lock file.

| Component | State it keeps | Operations |
|---|---|---|
| Risk limits, sizing (`risk/limits.py`, `execution/sizing.py`) | none; works on a `PortfolioState` | `approve_order`, `apply_fill`, `flat_size` |
| Tick (`scheduler/loop.py`) | locals of `run_tick`: picks, portfolio | lock check, fetch, scan, reconcile, load, route, settlement check |
| Router (`execution/router.py`) | rows of `decisions` | `route` |
| Paper broker (`execution/paper.py`) | rows of `orders`, `fills` | `taker_buy`, `load_portfolio` |
| Live broker (`kalshi/orders.py`) | the same rows, and orders at the exchange | `taker_buy` (intent, post, poll, cancel, book), `load_portfolio` |
| Reconciliation (`risk/health.py`, `scheduler/loop.py`) | none | compare the fills table with the exchange's positions |
| Daemon (`scheduler/daemon.py`) | running flag, failure counter | `__call__`, start, shutdown |
| Kill switch (`risk/killswitch.py`) | the file `kill.lock` | `activate`, `deactivate`, `is_killed` |
| Alerts (`alerts/notifier.py`) | none | `send` |
| Edge table (`edge/inspect.py`, `edge/detector.py`, `edge/fees.py`) | rows under construction | `_build_rows`, `evaluate`, fees, vetoes |
| Settlements (`recorder/settlements.py`) | rows of `market_settlements` | `check_settlements`, `compute_realized_pnl` |
| HTTP client (`kalshi/client.py`) | token bucket | `acquire`, `_request` with retries |
| Dashboard (`dashboard/`) | none; reads the database | `read_pnl` and other queries |
| Backfill (`recorder/snapshot.py`) | an open transaction; rows of raw snapshots | pull Kalshi, commit, pull the weather, commit |
| Database (`recorder/db.py`, SQLite) | the tables; who holds the write lock | `execute`, `commit`, close with rollback |
| Weather (`weather/`) | none | daily maxima of the ensemble, highs of the NWS |
| Probability (`probability/`) | none | `contract_probability` in two regimes |
| Markets (`kalshi/markets.py`, `models.py`) | none | quotes from listings and order books; parsing |
| Configuration, prompt, logging | none | read once at start |

They interact through four things only: calls within a tick, the database
(shared by the daemon, one-shot `tick`, `settle` and `backfill` commands and
the dashboard), the lock file (shared by every process), and the exchange.
Nothing else is shared, so what is hard is what those four make hard:

- a tick awaits between reading something and acting on it: the lock, the
  portfolio, the exchange's answers;
- two processes may run ticks on one database;
- a tick can end at any await by an exception, a cancellation at shutdown or
  the end of the process, with what it committed left behind;
- the exchange executes orders in its own time, and an answer that is lost says
  nothing about the order;
- failures are counted across ticks, and the handler that counts them can fail
  itself.

What makes each part correct: the caps hold for the account and not only for
each call; a market is entered once; the database can account for every order;
a difference between the accounts is found; the daemon runs one tick at a time,
stops when told and goes on when cleared; a recorded result is final; the table
shows what is traded and the edge survives the fees; requests keep to the rate.

## The modules

`RiskLimits` and `Fees` are pure: operators translated from `limits.py`,
`sizing.py` and `fees.py`, with the caps and the markets as constants. The
other modules extend them. `Sums` is under `RiskLimits`: a sum of contracts is the
number of pairs of a row and one of its contracts, so that what SQL's `SUM`
returns can be reasoned about as a cardinality, without recursion.

**`ExposureLedger`** is the abstract specification of trading: a portfolio that
grows by first entries into markets, inside the caps, and does nothing else.

**`PaperTrading`** is `run_tick` in paper mode, for any set of processes.
`pc[p]` is the stretch of `run_tick` between two awaits that process `p` is in:

| Action | Code |
|---|---|
| `StartTick` | to the first await; the only look at the lock (`loop.py:195-206`) |
| `Scan` | inputs arrive, rows built and persisted, picks chosen (`206-224`) |
| `Load` | `load_portfolio`; returns when there is no pick (`250-253`) |
| `RouteSkip`, `RouteFill`, `RecordFill` | `route`: refused; bought and committed; accounted for and the decision committed |
| `Settle` | the settlement check (`277-295`) |
| `Abort` | the tick is lost at an await |
| `Kill`, `Unkill`, `Resolve` | the commands; the exchange settling a market |

`fills` is the table. `book` is its three sums, kept beside it: `MemoryAgrees`
says, and `BookIsTable` proves, that it is what `load_portfolio` reads from the
table. `ImplementsLedger` is the refinement: `book` implements
`ExposureLedger`'s `exposure`.

**`Daemon`** is `_TickRunner.__call__` between awaits, with the cron trigger,
signals, shutdown, crash and restart, and the lock with its reason. `alerts`
says whether the process in charge has an ntfy topic; a restart may change it.
`run_tick` is abstracted to how it ends. Several jobs may fire at once (`max_instances`
is 1 in the code): the overlap guard is shown to need no help.

**`DaemonDatabase`** extends `Daemon` with the SQLite database that ticks share
with `backfill` commands: each of its steps is one of `Daemon` or leaves it alone,
by the way it is written. `tick[j]` opens `run_tick` up into
the stretches between its transactions; `writer` is the connection that holds
SQLite's one write lock.

| Action | Code |
|---|---|
| `BeginTick`, `InputsArrive` | the tick's own look at the lock file; `fetch_inputs` |
| `SaveScan`, `Routed` | `_persist_scan`; the short transactions of brokers and router. Each commits without an await on the network, so it is one step that needs the lock free |
| `InsertResult`, `CheckEnds` | the settlement check, which holds the lock across requests |
| `LockTimeout`, `TickFails` | "database is locked" after SQLite's wait, or any other exception, leaves `run_tick` and is counted |
| `StartBackfill`, `Pull`, `PassOver`, `Commit`, `BackfillFails` | `run_backfill`: one connection, rows inserted answer by answer, a commit after each of the two phases, cities without NWS data passed over, rollback on the way out |
| `DbShutdown`, `DbCrash` | every connection of the process closes |

An insert's row does not matter, only which pull it is of: `unsaved` and `saved`
are sets of pulls.

**`LiveTrading`** is `run_tick` in demo and live mode with the exchange. The
stretches of `KalshiBroker.taker_buy` are the stages `route` (the intent is
committed), `post` (each attempt reaches the exchange or not, and is answered
or not), `poll`, `close` (the cancel, which may fail), `book` (outcome and fill
are committed), then `record` or `skip` back in the router. `orders`, `fills`
and `decisions` are the tables, `exch` the exchange's side of the same orders,
`Position` what `/portfolio/positions` says of it. The exchange keeps the cost
of each contract it executes (`costs`, whose length is what was executed); `Poll` averages those of the fills an
answer lists, by the price of their side or, where the answer does not have it,
by the complement of the other (`PricedBySide`). One process: what two do to each
other is in `PaperTrading`.

**`OrderLife`** is the abstract specification of one live order: its row (`status`,
`size`), whether the exchange has it (`placed`), what was `executed` and what is
`booked`. `Order(id)` in `LiveTrading` reads these off the tables and the exchange,
and `ImplementsOrderLife` says that every order keeps to it. Ticks, attempts,
polls, prices, the cancel and the kill switch are below it; that an order with a
final row may still execute is part of it, since nothing in the code prevents it.

**`Settlements`** is what becomes of a position: `check_settlements` in several
processes with SQLite's one writer and its rollback: at the end of a tick that has
picks (`BeginTick`, `Buy`, `StartCheck`; one without them goes by `LeaveTick`) for
processes that are a `Trader`, on command for the others. Beside them the exchange closing and
finalizing markets, and the dashboard's `read_pnl` with its two queries, each on
the last commit.

**`TokenBucket`** is `_TokenBucket` and `_request` under concurrent tasks: the
asyncio lock as a queue, the sleep that keeps it, cancellation anywhere, the
retries.

**`Forecast`** is pure: from weather data to fair probabilities. `Samples` is
`parse_daily_max` on columns of readings with nulls; `DailyHigh` picks the NWS
high of a date, the last daytime period with a temperature; `Median2`, `Far` and
`ContractProbability` are the two regimes of the probability model with the
choice between them: kernel density near the median, the smoothed share of
members far from it. The normal distribution at a bandwidth is a parameter, the
kernel, so both of Silverman's inputs (spread and size) are inputs here. A
reading, strike or time that is missing is `None`, a number below all of them.

**`EdgeScan`** is the way from the inputs to the picks, for the events of a city
(`Events`) and the markets each lists (`Listed`). `Init` has what
`fetch_inputs` delivers: strikes, quotes from listings filled in from order books
(`Enriched`), readings, NWS periods, each market's hours to the close, today's date. `_build_rows`
goes event by event (past events, missing forecasts, NWS divergence, `evaluate`
on each market, the undershoot veto; `scanned` counts them),
`_pick_per_event_best` row by row; then
`_persist_scan`, so that the picks are compared with the table that is saved.

`MC...` modules hold the instances; `..._proofs` the proofs. Operators marked
`Mutant` are plausible bugs of the definition that follows them. They are part
of no specification: they exist so that each property can be shown to notice.

## The runs

Passing runs, with the question each answers and the bounds:

| Run | Question | Instance |
|---|---|---|
| `paper_one_trader` | Do the caps, the single entry, the audit trail and the kill switch hold through failures? | 3 markets, 2 of one event; 3 ticks; cap of a market 3, event 3, total 4, size 2 |
| `paper_two_traders` | How far can two processes overshoot? | 2 markets, 2 processes, 3 ticks |
| `daemon_database` | One call at a time, the failure limit, rest after a kill, scans going on beside backfills; does the write lock come back and is what a backfill leaves whole? | 2 concurrent firings, limit 3, with and without alerts; 2 backfills, 2 pulls in each phase |
| `live_faults` | What do lost answers, late matches, failed cancels and crashes cost, and does a later tick repeat an order? | 2 markets of one event, both sides, 2 ticks, 2 posts, 2 polls, one cost, answers with and without the side's price |
| `live_two_events` | Does every order keep to its life, are fills booked at what they cost, and is a lasting difference between the accounts found? | 2 markets of 2 events, NO only, 1 tick, 2 posts, 2 polls, total cap 2, costs of 3 and 4 cents, answers with the side's price |
| `settle` | Are results final, fills counted once, and is every position settled if checks keep coming? | 2 markets, 2 processes (the daemon and the `settle` command), 2 fills |
| `throttle` | Does the bucket keep its rate and its lock free, and how much more goes out by retries? | 2 tasks, 2 attempts, burst 2, 2 time units a token, 4 requests, 5 time units |
| `edge` | Is the trade of an event its best offer, on its own day's weather, with an edge that survives the fees, and do a ladder's prices add up? | a ladder of 3 markets and one market of the next day listed among them; 2 ladders (one lacks a cap), 2 or 3 of 3 quotes a market, 5 ensembles, 3 NWS forecasts, 2 kernels, 12 assignments of times to the close (none, near, far) to the markets, 2 dates of today |

Why the bounds are enough for what is asked. The caps are chosen so that each
gate is the one that binds somewhere: size 2 against caps of 3 and 4 gives
whole fills, clamped fills of 1, and refusals by the event and by the total;
two markets of one event are the least for the event's cap to matter and three
the least for the total to matter beside it. Three ticks are one to enter, one
to be cut short and one to try again. Two processes are enough for a stale read
to be acted on; the bound they get, once each, is stated in the number of
processes. Two attempts and two polls give every order of *first lost, second
late*. A ladder of three is a whole one (below, between, above), so its prices
can be summed, and the market of another day listed among its rungs makes the
rows of events interleave. The ensembles are chosen for what they do: around the
ladder, far below and far above it, without spread and without a second day, with
a member whose warm hours are missing; the NWS forecasts for a request that
failed, a reading in Celsius, and a far high before a near night. `EdgeMin` is
such that three members are enough for `FarPicksHaveMembers` to speak and two
are not. The liveness runs of `LiveTrading` and `Settlements` buy one side only:
which side is bought matters to the money (`settle_pnl`) and to netting, not to
what they ask. In `live_two_events` one tick with picks is followed by any
number without. Each of the two backfills of `daemon_database` runs once, so
`ScansGoOn` speaks of the time after them: with a backfill started over and over
a tick could meet a taken lock each time. Two of them can pass the lock to each
other, and two pulls in a phase put an await between an insert and the commit.
Two costs a cent apart tell a first price, a last price and an average apart.
Answers without the side's price are in `live_faults`; what they book is for
`FillsAlwaysPriced` to say, and what two events leave of the total cap in live
mode for `CapsAlwaysBind`. The bounds `MaxTicks`, `MaxFills`, `MaxTime`, `MaxRequests` and
`MaxSize` only cut behaviours short; `MaxFailures` is the code's own.

`CHECK_DEADLOCK FALSE` appears where the system stops: the end of one scan
(`edge`) and the end of the bounded clock (`throttle`).

The properties, beyond one type invariant a module:

- `CapsHeld`, `EnteredOnce`, `ImplementsLedger`: what a lone trader promises.
- `MemoryAgrees`: the portfolio a tick keeps with `apply_fill` is the one it
  would read back from the table.
- `AuditTrail`: one decision a pick, a fill for each buy, and only the last
  fill of a tick can be without its decision.
- `KillDrains`: with the lock there, every fill uses up a pick of a tick that
  was already in flight, and nothing adds to those.
- `OvershootBounded`: n traders exceed no cap by more than n times.
- `OneCallAtATime`, `QuietLimitArms`, `KillQuiesces`: the daemon's calls never
  overlap; without alerts the failure limit arms the switch; an armed switch
  brings the daemon to rest.
- `LockHasHolder`, `LockIsFreed`: SQLite's write lock never outlives what it was
  taken for, and is free again and again.
- `ScansGoOn`: with the switch clear the daemon keeps saving scans and going on
  to trade, whatever the backfills delayed or made fail.
- `SnapshotsWhole`: a backfill leaves whole phases, wherever it fails.
- `IntentFirst`: an order is recorded before it can exist at the exchange, and
  no fill is recorded that was not executed.
- `StatusTells`: an order's status agrees with the fills table.
- `ImplementsOrderLife`: the exchange gets an order once, after its intent and
  before its outcome; it has one outcome for good; what is booked was executed
  by then.
- `CapsUpToUnrecorded`: the account exceeds a cap by at most the executed
  contracts the fills table lacks, whatever was lost. It bounds what missed
  contracts cost and does not say that there are none: an order that rests and
  fills late is among them, and nothing in the code excludes it.
- `ReordersOnlyShort`: a tick orders in a market again only if what earlier ticks
  recorded of it is less than the size to order, unless the market is settled or
  was bought on both sides; every tick's orders are new ones for the exchange, so
  the position the tick loads is all that keeps it from repeating an order.
- `FillsPriced`: a fill is booked at the average cost of the contracts it counts,
  or at what an answer without the side's price makes of the limit.
- `DriftHasCause`: reconciliation halts trading only for contracts the table
  lacks, two sides of one market, or a settled market. It says what the halts are
  for; that the last two are no fault of anybody's is a divergence listed below.
- `KillDrains` (in `LiveTrading`): with the lock there every new order uses up a
  pick of the tick in flight.
- `DriftIsCaught`: a lasting difference between the accounts arms the switch.
- `ResultsAreFinal`, `NoFillTwice`: a recorded result is the exchange's final one;
  the dashboard never counts a fill both settled and open.
- `SettlesEventually`: *if* checks keep coming and are not cut short for ever, every
  position in a finalized market gets its row.
- `AcquiresThrottled`, `SendsBounded`, `QueueIsWaiters`: grants fit the burst and
  the rate in every stretch of time; what goes out is more, by the factor of the
  retries; nobody waits behind a task that is gone.
- `PicksAreBest`: the two passes come to one trade an event, its best offer, on
  the side the saved table flags, and to none only where nothing is on offer.
- `TradesAgreeWithNws`: an event is traded on its own day's weather, within 3
  degrees of the high the NWS gives for that day.
- `EdgeSurvivesFees`: the edge survives the fee of an order of any size.
- `LadderAddsUp`: the prices of rungs that meet at most in a strike exceed one by
  no more than the mixing of the two regimes explains.
- `FarPicksHaveMembers`: smoothing alone is no reason to trade, if the ensemble
  is large enough for the threshold.

## Fairness

`DaemonDatabase` and `Daemon`: a call in progress goes on (every await of the
code ends: HTTP requests have timeouts, SQLite's wait for a lock has one), so does
a backfill that has begun, the trigger keeps firing, and a signal is acted on.
`DaemonDatabase` adds strong fairness of `InputsArrive` and `SaveScan`: requests
do not fail for ever, and a tick does not lose the race for a lock that is free
again and again (SQLite makes no queue, it polls). Nothing is assumed of the
operator, of crashes, or that a backfill is ever run.

`LiveTrading`: the daemon keeps ticking and awaits end (weak fairness of the
tick's steps), and neither the inputs nor the positions fail for ever (strong
fairness of `ScanSome` and `Reconcile`): a fetch that fails ends the tick or
passes over reconciliation, so without this a drift could stay unseen. The
exchange and the operator owe nothing.

`Settlements`: a check that has begun goes on or ends (weak fairness of
`CheckStep`), and its requests do not fail for ever (strong fairness of `Ask`).
Nothing is assumed of ticks or of the operator: a tick without picks leaves before
its check (`LeaveTick`, `loop.py:251-253`), and a daemon that finds no edge any
more records no settlement. So `SettlesEventually` has two premises of its own, that
checks keep coming (`ChecksKeepComing`: ticks with picks, or `settle` commands) and
that they are not for ever cut short with markets left or with rows that are then
rolled back. The code promises neither; what the property says is that beyond
them nothing is needed, whatever the other process, the exchange and single
failures do.

`PaperTrading`, `TokenBucket` and `EdgeScan` are checked for safety and assume
no fairness.

## The proofs

Every type invariant, every safety invariant, every action property and every
refinement of the passing runs is a theorem: TLC shows it on a small instance,
TLAPS for every value of the constants.

| Module | Theorems of |
|---|---|
| `Sums_proofs` | the sums: of a union, of an update, of a trade between two elements, of intervals side by side |
| `RiskLimits_proofs` | `approve_order`, `apply_fill` and the three gates |
| `PaperTrading_proofs` | `TypeOK`, `CapsHeld`, `EnteredOnce`, `ImplementsLedger`, `MemoryAgrees`, `AuditTrail`, `KillDrains`, `OvershootBounded` |
| `LiveTrading_proofs` | `TypeOK`, `IntentFirst`, `StatusTells`, `FillsPriced`, `DriftHasCause`, `CapsUpToUnrecorded`, `ReordersOnlyShort`, `ImplementsOrderLife`, `KillDrains` |
| `DaemonDatabase_proofs` | `OneCallAtATime`, `QuietLimitArms`, `DbTypeOK`, `LockHasHolder`, `SnapshotsWhole` |
| `Settlements_proofs` | `TypeOK`, `ResultsAreFinal`, `NoFillTwice` |
| `TokenBucket_proofs` | `TypeOK`, `AcquiresThrottled`, `QueueIsWaiters`, `SendsBounded` |
| `EdgeScan_proofs` | `TypeOK`, `PicksAreBest`, `EdgeSurvivesFees`, `TradesAgreeWithNws`, `LadderAddsUp`, `FarPicksHaveMembers` |

They rest on the named assumptions of the modules and on nothing else: markets
belong to events; caps, sizes, costs and budgets are numbers of the range the
configuration gives them; the failure limit, the burst and the time a token takes
are positive; no process is called `none`, jobs and backfills are different
processes, and the two phases of a backfill pull different things; traders,
markets, events and tasks are finitely many, since sums and counts are taken over
them (a database and an exchange have no others); quotes are whole cents, readings
whole degrees, and a kernel is the upper half of a distribution, a sequence that
never falls from a half to one. Each assumption is evaluated by TLC on the instances of the runs.

### Sums

`SumOf(f, S)` is the cardinality of a union of disjoint sets of units, so
`SumUnion`, `SumUpdate`, `SumMonotone` and `SumTrade` (what one element loses
another gains) follow from the theorems about cardinalities, without induction.
`SumOfIntervals`: intervals of numbers that meet at most in their ends have sizes
that add up to no more than the interval around them, since the units they
consist of are disjoint sets.
`MapThenSumSet` of the community modules is recursive; `TotalIsSum` still says
that it is a `SumOf`: were there a set whose total is not, there would be such a
set with the fewest elements, and taking one element away contradicts that.

### Trading in paper mode

*Type correctness* (`TypeCorrect`) holds for any number of traders. It needs one
fact beside the types: a fill waiting for its decision is a row of the table
(`PendingHasRow`), or the decision it leads to would have no type.

*The caps* (`CapsAlwaysHeld`) *and the single entry* (`AlwaysEnteredOnce`) hold
for one trader. Neither is inductive. The gates look at the tick's memory, not
at the table, so `MemoryFollows` says what memory is: the table, or the table
before the one fill not yet accounted for. And `position_filled` compares a
position with the requested size, so a position that was cut short is not
refused by it: what keeps the market from being entered again is that the event
or the total that cut it short is still used up (`ShortPositionsAreFinal`; caps
are never given back). `OneTraderInv` is the conjunction, proved inductive by one
step per action, where only `RouteFill` changes the table. `ApproveSound` states what `approve_order`
returns for any portfolio, `WithEffect` what a fill changes, and `FillIsEntry`
combines them: a fill is an entry of the ledger.

*The refinement* (`TicksImplementLedger`) follows: initial states map to
initial states, `RouteFill` maps to `Enter`, and every other step leaves `book`
alone.

*The memory* (`MemoryAlwaysAgrees`): `BookIsTable`, for any number of traders, says
that `book` is what `load_portfolio` would sum from the rows (`LoadAfterFill`: one
row more adds its count to three sums and to no other), and with `MemoryFollows`
so is what a lone tick has accumulated.

*The audit trail* (`AlwaysAudited`), for any number of traders: ticks have
numbers of their own (`TicksApart`), and a pick that is yet to route has left
neither a fill nor a decision (`PicksFresh`), so each step adds the first and
only row of its pick, and only a tick that ends between the two is left with one.

*The overshoot* (`OvershootAlwaysBounded`), for n traders. Each trader's `Room` at
a cap is what it may still buy by the portfolio it has read. What is held plus
all rooms together is at most n caps: a fill takes from its own room what it adds
to the table, a trader that reads finds room for at most the cap less what is held,
and a trader that ends gives its room up.

*The kill switch* (`KillAlwaysDrains`): the picks left are a sum over the traders,
which only `Scan` adds to, and a scan belongs to a tick that passed the lock.

### Trading in demo and live mode

`AccountsInv` is the inductive invariant behind `TypeCorrect`, `IntentAlwaysFirst`,
`StatusAlwaysTells` and `FillsAlwaysPriced`. It relates the order in flight to
the tables (`OrderInFlight`) and to the exchange (`OrderAtExchange`): what has been
seen of an order never exceeds what was executed, since executions are only ever
added; nothing has been seen of it while its post is unanswered, so whatever is
booked was priced by an answer; from its `post` to its `book` it has no row in
`fills`. `AverageBetween` shows that an average of costs is a price.

*The drift* (`DriftAlwaysHasCause`): a market's position and the table's net can
only differ if contracts are missing from the table, both sides were bought, or
the market is settled; `RecordedExecuted` says that the table never has more of an
order than was executed.

*The caps* (`CapsAlwaysBind`) need `CapInv`: at every gate what is held exceeds the
tick's portfolio by no more than the executed contracts without a row, and from
`post` to `book` the order in flight has its whole size reserved at the gates it
passed. The exchange's steps add to both sides of that alike (`NetMoves`,
`MissedMoves`), a row moves its contracts from the missed to the known
(`MissedBooked`), and loading the portfolio starts the account again.

*No repeated order* (`ReordersAlwaysShort`) needs `ShortInv`. When picks are chosen
every order there is has an earlier tick (`OrdersEarlier`), so all that is recorded
at the load is an earlier tick's; a position that is not settled and nets nothing
away is what was executed, which is no less (`OneSided`). From then on the tick's
portfolio has no less of a market than earlier ticks recorded (`MemTells`): its own
fills are of its own tick and only add to it, and the gates let no order through
once a market has the requested size (`ApproveSound`). The two ways a position can
fail to tell, a settlement and a second side, only come, they never go (`ShortKeep`).

*An order's life* (`OrdersKeepToLife`; `EachOrderLives` says it of one order as
`Spec => Order(id)!LifeSpec`) needs beside `AccountsInv` that the row of the order
in flight is as it was inserted from `post` to `book` (`OrderWaits`). `Submit` is
`Intend`: no account has the order before (`PicksFresh`, `IntentFirst`). An attempt
is `Place`, or a stutter when the exchange has the order already (`ReachKeeps`), and
a post that fails is `Reject` with or without it. `Match` is `Execute`. `BookFill` is
`Book`, since what the polls saw is no more than was executed (`OrderAtExchange`)
and the order has no fill yet (`OrderInFlight`), and `BookNothing` is `Cancel`. Every
other step, and these to every other order, is a stutter (`LifeElsewhere`).

*The kill switch* (`KillAlwaysDrains`) as in paper mode.

### The daemon and its database

`GuardSuffices` (calls never overlap, for any number of firings) rests on the
running flag being up exactly while a call is in progress; `LimitAlwaysArms`
(without alerts, no failure handler ends at the limit with the switch unarmed,
for every limit) on the same invariant.

`DaemonDatabase`'s steps conjoin the daemon's or leave it alone
(`DbStepIsDaemonStep`), so the invariant of `Daemon` holds of it (`DaemonInvHolds`).
`LockAlwaysHasHolder` and `SnapshotsAlwaysWhole` rest on
`DbInv`: `run_tick` is open just while a call awaits it (`DatabaseTypeCorrect`), and
what a backfill has inserted and what it still has to pull make up its phase
(`PhaseAccounted`), so that a commit is always of a whole phase. Of the daemon's
invariant it needs that a process that starts has no tick, or a lock could
outlive a restart.

### Settlements

`ResultsAlwaysFinal` and `DashboardCountsOnce` hold for any number of processes,
markets and fills. For the first, what an open transaction holds must be final
already (`PendingIsFinal`), since it is committed without another look at the
exchange, and a final market never changes. For the second, what the dashboard
has read as settled is still settled when it reads the rest (`ViewIsSettled`),
because rows are only ever added. `TypeCorrect` needs the table to be finite, or
its sums would not be numbers.

### The throttle

`AcquiresAlwaysThrottled` holds for every burst, rate and number of tasks.
`AcquiresThrottled` speaks of pairs of grants and is not inductive; `Accounted`
is: what is in the bucket and what was granted since any grant fit together the
burst and what the rate has added since. A grant costs a token and adds itself, a
top-up adds no more than the time that has passed, and the cap starts a new
account at the newest grant.

`QueueAlwaysWaiters` is inductive with the types; its work is in `Cancel`, which
takes a task out of the middle of the queue (`RemoveAtProperties`).
`SendsAlwaysBounded` counts the attempts that are out and those still due (`ToSend`,
a sum over the tasks) against the grants: a grant adds `SendAttempts` to what is
due, an attempt moves one over, a cancellation takes some away.

### The scan

The inputs of a tick do not change while it is scanned (`InputsStay`), so the rows
and picks of each market are known from the start (`MarketStays`). `RowsInv` says
which are in the table, `PicksInv` that a pick is of a row looked at and none of
those has a better one, `SavedInv` what was persisted. `PickOfRow` is the bridge
between the two passes: the row keeps the threshold with its ramp, the second
evaluation runs without one and so comes to the same candidates (`NoRamp`), and to
the same best (`BestIsBest`: the maximum of a finite set, ties to buy_yes). With
`OffersByMarket` this is `PicksAlwaysBest`.

`TypeCorrect` includes that a fair probability is one, in either regime
(`FairBounds`, through `LaplaceBounds`, `KdeBounds` and `TotalIsSum`).

`EdgeAlwaysSurvivesFees`: `FeeOfMany` says that the fee of n contracts, rounded up
once, is at most n times the fee of one, from what rounding up is (`CeilDivLeast`).

`TradesAlwaysAgreeWithNws`: `HighOfLast` finds the NWS high the code finds, and
`MedianSplits` turns a distance of the median, which the code looks at, into
members on either side, which the property speaks of. The lower median is not
above the upper one, or the least sample above the upper one would have half of
the members at or above it.

`FarPicksAlwaysHaveMembers`: far from the median a probability is the smoothed
share of the members that win, or what the smoothed share of the others leaves
(`FarFair`), and of no member the share is within the threshold once the ensemble
is large enough (`LaplaceEnds`).

`LadderAlwaysAddsUp`: the kernel never falls, so neither does its average over the
members (`KdeMonotone`), and the price of a rung near the median is the difference
of that average between its two ends, but for rounding (`NearFair`). Rungs that
meet at most in a strike have masses side by side (`MassesApart`), which add up to
at most one (`SumOfIntervals`). A far rung has its share of members and half a
member's, rounded up (`FarShare`). `SavedRows` carries the sum from the ladder to
the table that was saved. The precondition, `RungsApart`, is part of the property
and no assumption: the code does not look at a ladder's strikes, and the mass
between rungs that overlap is counted twice.

### Only model-checked

- Everything under fairness: `KillQuiesces`, `LockIsFreed`, `ScansGoOn`,
  `DriftIsCaught`, `SettlesEventually`. Liveness and `ENABLED` are out of the
  prover's reach.
- The four properties that the code violates.

## Where the code and its documents part

Four of these are checked: TLC must find the property violated, and
`PROJECT.json` has the finding.

| Run | What happens |
|---|---|
| `paper_settled_exposure` | Settled positions use up the caps for ever (`paper.py:99`). |
| `daemon_alert_title` | With alerts on, the error alert raises before the failure limit is looked at, and the switch is never armed (`daemon.py:87`). |
| `settle_pnl` | The P&L of NO fills takes their cost for the YES price (`settlements.py:89`). |
| `settle_loss` | The daily-loss gate cannot fire: nobody writes the field it reads (`limits.py:49`). |

The rest were met while modelling. The models have the behaviour; no run states
the document's claim, because the property would only restate that the code
does not do what it nowhere tries to do.

- Two processes that read the portfolio before either buys exceed the caps
  (`loop.py:250`); `OvershootBounded` says by how much.
- A kill after the tick's only look at the lock stops none of its orders
  (`loop.py:200` against `killswitch.py:3`); `KillDrains` says what still
  happens.
- Shutdown cancels the tick in flight (`daemon.py:153` against `daemon.py:10`).
- After a drift no tick retries (`loop.py:235` against `loop.py:228`).
- The third failure in a row arms the switch (`daemon.py:90`), `src/PLAN.md:256`
  says more than three.
- `taker_buy` can return with its order resting: a cancel that fails is logged
  and a post that is given up is never canceled (`orders.py:126`, `:102` against
  `orders.py:5-6`).
- Resting orders are not counted by the gates (`orders.py:223` against
  `src/PLAN.md:253`); `CapsUpToUnrecorded` says what that can cost.
- Buying the other side of a held market reads as a drift although every
  contract is recorded (`loop.py:183`).
- A kill cancels no order (`cli.py:112` against `src/PLAN.md:255`).
- Retries take no token (`client.py:91-95` against `client.py:43`);
  `SendsBounded` says how much more goes out. The headers are signed once,
  before the first attempt, so a retry carries the timestamp of that time.
- Missing NWS data widens nothing (`inspect.py:197` against `src/PLAN.md:260`).
- A rung between two strikes is priced from `floor` to `cap`
  (`threshold.py:67-69`), `src/PLAN.md:171` says from `floor - 1`: where rungs
  are whole degrees apart, the mass between a cap and the next floor is nobody's.
- An event whose probabilities add up to more than 1.05 is only warned about
  (`inspect.py:293`);
  `src/PLAN.md:175` would skip it from 0.02 off. The two regimes mix in one ladder
  (`distributions.py:104`), so the sums can be off by more, and the probabilities
  of a ladder need not be monotonic (`src/PLAN.md:468`); `LadderAddsUp` bounds it.
- No size of the ensemble is asked for: with few members half a member's share,
  given to every rung, is more than the threshold (`FarPicksHaveMembers`).
- The date that makes an event past is UTC (`inspect.py:170`): from the evening on
  in the United States today's event is not traded.
- A NO fill without `no_price` is booked at the complement of its cost
  (`orders.py:199`), and the answer's first 50 rows are all that is averaged.

The live model shows one more, which no document speaks of: positions leave
`/portfolio/positions` when their market settles while their fills stay in the
table, so in demo and live mode the first settled position makes the next
reconciliation find a drift and arm the kill switch. It rests on the exchange's
behaviour (`Position`), which no file of the repository states.

## What is assumed and what is left out

Assumed of what is outside the package:

- SQLite: a commit is atomic and durable, a reader sees the last commit, one
  connection at a time holds writes, closing a connection rolls back.
- The exchange: one order per `client_order_id`; positions net of sides and
  zero once a market is settled; orders of a settled market are closed; a
  result may change until the market is finalized.
- httpx 0.27 encodes header values as ASCII and raises otherwise; APScheduler
  3.10's asyncio executor cancels pending futures at shutdown, whatever `wait`.
- A market's event is its ticker without the last part, so that the brokers'
  `event_from_ticker` and the market's own `event_ticker` agree.

Left out, with the reason:

- floating point: `EdgeScan` and `Forecast` are exact, up to the rounding they
  state, and the bandwidth is an input through the kernel; time is whole units in
  `TokenBucket`;
- payload formats, paging, request signing, the dates in tickers: conversions
  without state. The page limit of fills (50) is not reached by orders of the
  default size;
- `config.py`, `logging_setup.py`, the live-mode prompt: read once at start;
- the dashboard's pages and its single-query readers: pure output;
- the columns of what a backfill and a scan save: `DaemonDatabase` keeps which
  pull a row is of, `EdgeScan` what of a scan is compared with the picks;
- `check_health` and `piecewise_inflation`: nothing calls them;
- more than one city in `EdgeScan`: cities share nothing but the list of rows, in
  which the events of `EdgeScan` interleave already.

## Plan

Done, in this order: `RiskLimits`, `PaperTrading` with `ExposureLedger`,
`Daemon`, their proofs, `LiveTrading`, `Settlements`, `TokenBucket`, `EdgeScan`,
the proofs about `Settlements` and `TokenBucket`; then the write lock
(`DaemonDatabase`, with its proofs), fill prices in `LiveTrading`, and the weather
and probability model (`Forecast`) under `EdgeScan`; then the proofs of every
remaining safety property: the audit trail, the memory and the overshoot of
`PaperTrading`, all of `LiveTrading`, the rest of `TokenBucket` and `Settlements`,
and `EdgeScan`; then `OrderLife` with the proof that `LiveTrading` implements it.

Next modules:

1. Two processes in live mode, and the composition of `Daemon` with
   `LiveTrading` so that failures of ticks and drift reach the counter.
2. Several clients with a bucket each.

Next abstract specification: a bucket seen from outside (a window and what it has
granted) that `TokenBucket` implements.

Next theorems: those of the modules above. No safety property of a run is left.
