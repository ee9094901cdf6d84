--------------------------- MODULE DaemonDatabase ---------------------------
(***************************************************************************)
(* The daemon beside runs of the backfill command (recorder/snapshot.py)   *)
(* on one SQLite database.  Module Daemon is extended: run_tick, which it  *)
(* abstracts to how it ends, is opened up into the stretches between its   *)
(* writes, and every step of a call is a step of Daemon or leaves it alone.*)
(*                                                                         *)
(* SQLite has one writer at a time: a connection takes the write lock with *)
(* its first insert and keeps it until it commits, rolls back or is        *)
(* closed.  Who finds it taken waits for some seconds, then fails with     *)
(* "database is locked".  Most transactions of a tick insert and commit    *)
(* without anything in between and are one step; the settlement check and  *)
(* the backfill await the network while they hold the lock.                *)
(***************************************************************************)
EXTENDS Daemon, Sequences, Functions

CONSTANTS
  Backfill,      \* runs of the backfill command
  KalshiPulls,   \* what _pull_kalshi inserts, in order
  WeatherPulls,  \* what _pull_weather inserts, in order
  NwsPulls       \* those of WeatherPulls that may fail without ending it

ASSUME WriterAssumption ==
  "none" \notin Job \cup Backfill /\ Job \cap Backfill = {}
AnyPull == Range(KalshiPulls) \cup Range(WeatherPulls)

ASSUME PullAssumption ==
  /\ KalshiPulls \in Seq(AnyPull) /\ WeatherPulls \in Seq(AnyPull)
  /\ NwsPulls \subseteq Range(WeatherPulls)
  /\ Range(KalshiPulls) \cap Range(WeatherPulls) = {}

VARIABLES
  tick,      \* where the run_tick of each job is
  backfill,  \* the phase of each backfill
  left,      \* the pulls its phase still has to make
  writer,    \* the job or backfill whose connection holds the write lock
  unsaved,   \* rows each backfill has inserted and not committed
  saved      \* rows of each backfill that are committed

backfillVars == <<backfill, left, unsaved, saved>>
dbVars == <<tick, backfillVars, writer>>
allVars == <<vars, dbVars>>

TickStage ==
  {"none",    \* the job is not in run_tick
   "inputs",  \* fetch_inputs
   "scan",    \* _persist_scan is next
   "route",   \* positions, picks, orders and decisions
   "settle"}  \* check_settlements

Phase == {"idle", "kalshi", "weather", "done", "failed"}
Pulling(b) == backfill[b] \in {"kalshi", "weather"}

DbInit ==
  /\ Init
  /\ tick = [j \in Job |-> "none"]
  /\ backfill = [b \in Backfill |-> "idle"]
  /\ left = [b \in Backfill |-> <<>>]
  /\ writer = "none"
  /\ unsaved = [b \in Backfill |-> {}]
  /\ saved = [b \in Backfill |-> {}]

\* The connection of c is closed, which rolls back what it has not committed.
Release(c) == writer' = IF writer = c THEN "none" ELSE writer

TickGo(j, stage) == tick' = [tick EXCEPT ![j] = stage]

-----------------------------------------------------------------------------
\* run_tick of the daemon's call.

\* Mutant: run_tick does not look at the lock itself.
BeginTickUnchecked(j) ==
  /\ Enter(j)
  /\ TickGo(j, "inputs")
  /\ UNCHANGED <<backfillVars, writer>>

\* run_tick begins, unless it finds the lock.
BeginTick(j) ==
  /\ Enter(j)
  /\ IF Killed THEN UNCHANGED tick ELSE TickGo(j, "inputs")
  /\ UNCHANGED <<backfillVars, writer>>

InputsArrive(j) ==
  /\ tick[j] = "inputs"
  /\ TickGo(j, "scan")
  /\ UNCHANGED <<vars, backfillVars, writer>>

\* _persist_scan inserts and commits.
SaveScan(j) ==
  /\ tick[j] = "scan" /\ writer = "none"
  /\ TickGo(j, "route")
  /\ UNCHANGED <<vars, backfillVars, writer>>

\* Nothing to buy: the tick returns before the settlement check.
NoPicks(j) ==
  /\ tick[j] = "route"
  /\ TickReturns(j)
  /\ TickGo(j, "none")
  /\ UNCHANGED <<backfillVars, writer>>

Drift(j) ==
  /\ tick[j] = "route"
  /\ TickDrifts(j)
  /\ TickGo(j, "none")
  /\ UNCHANGED <<backfillVars, writer>>

\* Each pick's rows are committed in short transactions; the last is done.
Routed(j) ==
  /\ tick[j] = "route" /\ writer = "none"
  /\ TickGo(j, "settle")
  /\ UNCHANGED <<vars, backfillVars, writer>>

\* The settlement check inserts its first result, and goes on asking.
InsertResult(j) ==
  /\ tick[j] = "settle" /\ writer = "none"
  /\ writer' = j
  /\ UNCHANGED <<vars, backfillVars, tick>>

\* Mutant: the connection stays open when the check fails.
CheckEndsOpen(j) ==
  /\ tick[j] = "settle"
  /\ TickReturns(j)
  /\ TickGo(j, "none")
  /\ UNCHANGED <<backfillVars, writer>>

\* The check commits, or fails, also because another writer keeps it waiting:
\* run_tick catches that.  The Recorder is closed and the tick returns.
CheckEnds(j) ==
  /\ tick[j] = "settle"
  /\ TickReturns(j)
  /\ TickGo(j, "none")
  /\ Release(j)
  /\ UNCHANGED backfillVars

\* The inputs, the positions or an alert fail: the exception leaves run_tick.
TickFails(j) ==
  /\ tick[j] \in {"inputs", "route"}
  /\ TickRaises(j)
  /\ TickGo(j, "none")
  /\ UNCHANGED <<backfillVars, writer>>

\* The wait for another writer times out: "database is locked" leaves run_tick
\* and counts as a failure like any other.
LockTimeout(j) ==
  /\ tick[j] \in {"scan", "route"} /\ writer # "none"
  /\ TickRaises(j)
  /\ TickGo(j, "none")
  /\ UNCHANGED <<backfillVars, writer>>

\* The failure handler writes nothing to the database.
HandlerStep(j) ==
  /\ ErrorAlert(j) \/ Arm(j) \/ CriticalAlert(j)
  /\ UNCHANGED dbVars

DbCallStep(j) ==
  \/ BeginTick(j) \/ InputsArrive(j) \/ SaveScan(j)
  \/ NoPicks(j) \/ Drift(j) \/ Routed(j)
  \/ InsertResult(j) \/ CheckEnds(j)
  \/ TickFails(j) \/ LockTimeout(j)
  \/ HandlerStep(j)

\* Mutant: canceled ticks leave their connection open.
CloseNothing ==
  /\ tick' = [j \in Job |-> "none"]
  /\ UNCHANGED <<backfillVars, writer>>

\* Every tick ends and closes its connection.
CloseConnections ==
  /\ tick' = [j \in Job |-> "none"]
  /\ writer' = IF writer \in Job THEN "none" ELSE writer
  /\ UNCHANGED backfillVars

DbShutdown == Shutdown /\ CloseConnections
DbCrash == Crash /\ CloseConnections

-----------------------------------------------------------------------------
\* run_backfill: one connection, two phases, a commit after each.

StartBackfill(b) ==
  /\ backfill[b] = "idle"
  /\ backfill' = [backfill EXCEPT ![b] = "kalshi"]
  /\ left' = [left EXCEPT ![b] = KalshiPulls]
  /\ UNCHANGED <<vars, tick, writer, unsaved, saved>>

\* Mutant: each pull is committed by itself.
PullCommitting(b) ==
  /\ Pulling(b) /\ left[b] # <<>>
  /\ writer = "none"
  /\ saved' = [saved EXCEPT ![b] = @ \cup {Head(left[b])}]
  /\ left' = [left EXCEPT ![b] = Tail(@)]
  /\ UNCHANGED <<vars, tick, writer, backfill, unsaved>>

\* The next answer of the network arrives and its rows are inserted; with the
\* first the backfill takes the write lock, and keeps it for the next request.
Pull(b) ==
  /\ Pulling(b) /\ left[b] # <<>>
  /\ writer \in {"none", b}
  /\ writer' = b
  /\ unsaved' = [unsaved EXCEPT ![b] = @ \cup {Head(left[b])}]
  /\ left' = [left EXCEPT ![b] = Tail(@)]
  /\ UNCHANGED <<vars, tick, backfill, saved>>

\* A city without an NWS forecast is passed over.
PassOver(b) ==
  /\ Pulling(b) /\ left[b] # <<>> /\ Head(left[b]) \in NwsPulls
  /\ left' = [left EXCEPT ![b] = Tail(@)]
  /\ UNCHANGED <<vars, tick, writer, backfill, unsaved, saved>>

\* The phase is complete and committed.
Commit(b) ==
  /\ Pulling(b) /\ left[b] = <<>>
  /\ saved' = [saved EXCEPT ![b] = @ \cup unsaved[b]]
  /\ unsaved' = [unsaved EXCEPT ![b] = {}]
  /\ Release(b)
  /\ IF backfill[b] = "kalshi"
     THEN /\ backfill' = [backfill EXCEPT ![b] = "weather"]
          /\ left' = [left EXCEPT ![b] = WeatherPulls]
     ELSE backfill' = [backfill EXCEPT ![b] = "done"] /\ UNCHANGED left
  /\ UNCHANGED <<vars, tick>>

\* Mutant: the connection is not closed on the way out.
BackfillFailsOpen(b) ==
  /\ Pulling(b)
  /\ backfill' = [backfill EXCEPT ![b] = "failed"]
  /\ left' = [left EXCEPT ![b] = <<>>]
  /\ unsaved' = [unsaved EXCEPT ![b] = {}]
  /\ UNCHANGED <<vars, tick, writer, saved>>

\* Any other failure ends the command: a request, a locked database, an
\* interrupt.  The Recorder is closed, its rows are rolled back.
BackfillFails(b) ==
  /\ Pulling(b)
  /\ backfill' = [backfill EXCEPT ![b] = "failed"]
  /\ left' = [left EXCEPT ![b] = <<>>]
  /\ unsaved' = [unsaved EXCEPT ![b] = {}]
  /\ Release(b)
  /\ UNCHANGED <<vars, tick, saved>>

BackfillStep(b) == Pull(b) \/ PassOver(b) \/ Commit(b) \/ BackfillFails(b)

DbNext ==
  \/ \E j \in Job : (Fire(j) /\ UNCHANGED dbVars) \/ DbCallStep(j)
  \/ (Signal \/ Start \/ Kill \/ Unkill) /\ UNCHANGED dbVars
  \/ DbShutdown \/ DbCrash
  \/ \E b \in Backfill : StartBackfill(b) \/ BackfillStep(b)

\* As in Daemon, every await of a call or a backfill ends; and neither do the
\* inputs fail for ever nor does a scan lose the race for a lock that is free
\* again and again.
DbFairness ==
  /\ \A j \in Job :
       /\ WF_allVars(DbCallStep(j)) /\ WF_allVars(Fire(j) /\ UNCHANGED dbVars)
       /\ SF_allVars(InputsArrive(j)) /\ SF_allVars(SaveScan(j))
  /\ WF_allVars(DbShutdown)
  /\ \A b \in Backfill : WF_allVars(BackfillStep(b))

DbSpec == DbInit /\ [][DbNext]_allVars /\ DbFairness

-----------------------------------------------------------------------------
\* Every variable of the composition has its type, and run_tick is open just
\* while the daemon's call awaits it.
DbTypeOK ==
  /\ TypeOK
  /\ tick \in [Job -> TickStage]
  /\ \A j \in Job : tick[j] # "none" <=> job[j] = "ticking"
  /\ backfill \in [Backfill -> Phase]
  /\ left \in [Backfill -> Seq(AnyPull)]
  /\ writer \in Job \cup Backfill \cup {"none"}
  /\ unsaved \in [Backfill -> SUBSET AnyPull]
  /\ saved \in [Backfill -> SUBSET AnyPull]

\* The write lock never outlives what it was taken for (db.py:34-35,
\* snapshot.py:180): its holder is a settlement check or a backfill in
\* progress, and a backfill that does not hold it has nothing uncommitted.
LockHasHolder ==
  /\ writer \in Job => tick[writer] = "settle" /\ job[writer] = "ticking"
  /\ writer \in Backfill => Pulling(writer)
  /\ \A b \in Backfill : unsaved[b] # {} => writer = b

\* What a backfill leaves behind is whole, wherever it fails (snapshot.py:190,
\* 193): nothing, all of Kalshi's rows, or these and all of the weather's but
\* for cities the NWS had nothing for; a run that is done left them all.
SnapshotsWhole ==
  \A b \in Backfill :
    LET kalshi == Range(KalshiPulls)
        weather == Range(WeatherPulls)
    IN \/ saved[b] = {} /\ backfill[b] # "done"
       \/ saved[b] = kalshi /\ backfill[b] # "done"
       \/ backfill[b] = "done" /\ (kalshi \cup weather) \ NwsPulls \subseteq saved[b]

\* Nobody keeps the others from writing for ever: the lock is free again and
\* again (snapshot.py:107, settlements.py:49).
LockIsFreed == []<>(writer = "none")

\* A daemon that stays up with the switch clear keeps saving scans and going on
\* to trade, whatever the backfills beside it delayed or made fail, once they
\* are over (loop.py:224); no exception or overlap leaves the running flag set
\* for ever (daemon.py:100).
ScansGoOn ==
  <>[](sched = "up" /\ ~Killed) => []<>(\E j \in Job : tick[j] = "route")
=============================================================================
