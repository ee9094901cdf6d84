------------------------------- MODULE Daemon -------------------------------
(***************************************************************************)
(* The scheduler process: run_scheduler and _TickRunner of                 *)
(* scheduler/daemon.py around run_tick, the kill.lock file and the alerts. *)
(* A job is one firing of the cron trigger; its steps are the stretches of *)
(* _TickRunner.__call__ between awaits.  run_tick itself is abstracted to  *)
(* how it ends: it returns, it raises, or it finds position drift.         *)
(***************************************************************************)
EXTENDS Naturals, FiniteSets

CONSTANTS
  Job,            \* firings APScheduler lets run at once (max_instances)
  MaxFailures     \* MAX_CONSECUTIVE_FAILURES

ASSUME FailuresAssumption == MaxFailures \in Nat \ {0}

VARIABLES
  alerts,    \* an ntfy topic is configured, for the life of a process
  sched,     \* the process: "down", "up", or "draining" after a signal
  job,       \* where each job is in __call__
  running,   \* _TickRunner._running
  failures,  \* _TickRunner._failures
  lock       \* the reason in kill.lock, or "none" when the file is absent

vars == <<alerts, sched, job, running, failures, lock>>

LockReason == {"none", "manual", "failures", "drift"}
Killed == lock # "none"

JobStage ==
  {"idle",      \* no firing
   "entering",  \* past the checks of __call__, before run_tick's own
   "ticking",   \* run_tick awaits its inputs, the brokers, the tables
   "alerting",  \* the tick raised; the error alert is on its way
   "arming",    \* the alert is done; the failure limit is next
   "armed",     \* the lock is written; the critical alert is on its way
   "canceled"}  \* the shutdown canceled the tick half-way

Init ==
  /\ alerts \in BOOLEAN
  /\ sched = "down"
  /\ job = [j \in Job |-> "idle"]
  /\ running = FALSE
  /\ failures = 0
  /\ lock \in LockReason

Go(j, stage) == job' = [job EXCEPT ![j] = stage]

\* Mutant: the overlap guard is missing.
FireOverlapping(j) ==
  /\ sched = "up" /\ job[j] = "idle" /\ ~Killed
  /\ running' = TRUE
  /\ Go(j, "entering")
  /\ UNCHANGED <<sched, alerts, failures, lock>>

\* Mutant: the firing does not look at the lock.
FireLocked(j) ==
  /\ sched = "up" /\ job[j] = "idle" /\ ~running
  /\ running' = TRUE
  /\ Go(j, "entering")
  /\ UNCHANGED <<sched, alerts, failures, lock>>

\* The cron trigger fires a job: it is skipped while another call runs and
\* while the lock is there.
Fire(j) ==
  /\ sched = "up" /\ job[j] = "idle"
  /\ ~running
  /\ ~Killed
  /\ running' = TRUE
  /\ Go(j, "entering")
  /\ UNCHANGED <<sched, alerts, failures, lock>>

\* The call returns from run_tick normally.
Return(j) ==
  /\ failures' = 0
  /\ running' = FALSE
  /\ Go(j, "idle")

\* run_tick looks at the lock once more: another process may have written it
\* since.  A killed tick returns normally.
Enter(j) ==
  /\ job[j] = "entering"
  /\ IF Killed THEN Return(j)
     ELSE Go(j, "ticking") /\ UNCHANGED <<running, failures>>
  /\ UNCHANGED <<sched, alerts, lock>>

TickReturns(j) ==
  /\ job[j] = "ticking"
  /\ Return(j)
  /\ UNCHANGED <<sched, alerts, lock>>

\* Failures beyond one more than the limit are not told apart (a bound).
CountFailure ==
  failures' = IF failures <= MaxFailures THEN failures + 1 ELSE failures

\* Any exception of run_tick is counted; the error alert comes first.
TickRaises(j) ==
  /\ job[j] = "ticking"
  /\ CountFailure
  /\ Go(j, "alerting")
  /\ UNCHANGED <<sched, alerts, running, lock>>

\* A position drift writes the lock inside run_tick.  Its alert has a dash in
\* the title that the HTTP headers cannot carry: with alerts on, the tick ends
\* by raising; without, it returns.
TickDrifts(j) ==
  /\ job[j] = "ticking"
  /\ lock' = "drift"
  /\ IF alerts
     THEN CountFailure /\ Go(j, "alerting") /\ UNCHANGED running
     ELSE Return(j)
  /\ UNCHANGED <<sched, alerts>>

\* The error alert.  Its title carries a multiplication sign: httpx encodes
\* header values as ASCII and raises UnicodeEncodeError, which is no HTTPError,
\* so send does not catch it and it leaves __call__ through the finally block.
\* With no topic configured send returns at once.
ErrorAlert(j) ==
  /\ job[j] = "alerting"
  /\ IF alerts
     THEN Go(j, "idle") /\ running' = FALSE
     ELSE Go(j, "arming") /\ UNCHANGED running
  /\ UNCHANGED <<sched, alerts, failures, lock>>

\* Mutant: one failure more is tolerated.
ArmLate(j) ==
  /\ job[j] = "arming"
  /\ IF failures > MaxFailures
     THEN lock' = "failures" /\ Go(j, "armed") /\ UNCHANGED running
     ELSE Go(j, "idle") /\ running' = FALSE /\ UNCHANGED lock
  /\ UNCHANGED <<sched, alerts, failures>>

\* The failure limit: at MaxFailures the kill switch is armed.
Arm(j) ==
  /\ job[j] = "arming"
  /\ IF failures >= MaxFailures
     THEN lock' = "failures" /\ Go(j, "armed") /\ UNCHANGED running
     ELSE Go(j, "idle") /\ running' = FALSE /\ UNCHANGED lock
  /\ UNCHANGED <<sched, alerts, failures>>

\* The critical alert is sent or fails quietly; the call ends.
CriticalAlert(j) ==
  /\ job[j] = "armed"
  /\ Go(j, "idle") /\ running' = FALSE
  /\ UNCHANGED <<sched, alerts, failures, lock>>

\* SIGINT or SIGTERM: run_scheduler leaves its wait.
Signal ==
  /\ sched = "up" /\ sched' = "draining"
  /\ UNCHANGED <<alerts, job, running, failures, lock>>

\* scheduler.shutdown on an asyncio executor cancels the futures still
\* pending; CancelledError is no Exception, so the call only runs its finally.
Shutdown ==
  /\ sched = "draining" /\ sched' = "down"
  /\ job' = [j \in Job |-> IF job[j] = "idle" THEN "idle" ELSE "canceled"]
  /\ running' = FALSE
  /\ UNCHANGED <<alerts, failures, lock>>

\* The process dies where it stands.
Crash ==
  /\ sched # "down" /\ sched' = "down"
  /\ job' = [j \in Job |-> "idle"]
  /\ running' = FALSE
  /\ UNCHANGED <<alerts, failures, lock>>

\* A new process reads its configuration anew: its counter starts at zero; the
\* lock file is still there.
Start ==
  /\ sched = "down" /\ sched' = "up"
  /\ alerts' \in BOOLEAN
  /\ job' = [j \in Job |-> "idle"]
  /\ failures' = 0
  /\ UNCHANGED <<running, lock>>

\* The kill and unkill commands, and ticks of other processes that find drift.
Kill ==
  /\ ~Killed /\ lock' \in {"manual", "drift"}
  /\ UNCHANGED <<sched, alerts, job, running, failures>>

Unkill ==
  /\ Killed /\ lock' = "none"
  /\ UNCHANGED <<sched, alerts, job, running, failures>>

\* Steps of a call in progress, which the event loop keeps running.
CallStep(j) ==
  \/ Enter(j)
  \/ TickReturns(j) \/ TickRaises(j) \/ TickDrifts(j)
  \/ ErrorAlert(j) \/ Arm(j) \/ CriticalAlert(j)

Next ==
  \/ \E j \in Job : Fire(j) \/ CallStep(j)
  \/ Signal \/ Shutdown \/ Crash \/ Start
  \/ Kill \/ Unkill

\* Every await of a call ends (HTTP and database timeouts), the cron trigger
\* keeps firing, and a signal is acted on; operators and crashes owe nothing.
Fairness ==
  /\ \A j \in Job : WF_vars(CallStep(j))
  /\ \A j \in Job : WF_vars(Fire(j))
  /\ WF_vars(Shutdown)

Spec == Init /\ [][Next]_vars /\ Fairness

-----------------------------------------------------------------------------
InCall(j) == job[j] \notin {"idle", "canceled"}

\* Every variable has its type.
TypeOK ==
  /\ alerts \in BOOLEAN
  /\ sched \in {"down", "up", "draining"}
  /\ job \in [Job -> JobStage]
  /\ running \in BOOLEAN
  /\ failures \in 0..(MaxFailures + 1)
  /\ lock \in LockReason

\* The overlap guard alone keeps ticks apart (daemon.py:54), without the help
\* of APScheduler's max_instances: at most one call is in progress, and the
\* flag says exactly whether one is, after any exception path or restart.
OneCallAtATime ==
  /\ \A i, j \in Job : InCall(i) /\ InCall(j) => i = j
  /\ running <=> \E j \in Job : InCall(j)

\* The failure handler of a living process gives up: the limit is reached, the
\* handler is over and the kill switch is not armed.
GivesUp(j) ==
  /\ job[j] \in {"alerting", "arming"} /\ job'[j] \notin {"alerting", "arming"}
  /\ sched' = "up" /\ failures >= MaxFailures
  /\ ~Killed'

\* Without alerts the failure handler never ends with the limit reached and the
\* kill switch not armed (daemon.py:90-92).
QuietLimitArms == [][\A j \in Job : ~alerts => ~GivesUp(j)]_vars

\* daemon.py:4-6 says the limit arms the switch, whatever the alerts.
LimitArms == [][\A j \in Job : ~GivesUp(j)]_vars

\* An armed switch that nobody clears brings the daemon to rest: from some
\* point on no call is in progress (daemon.py:57, loop.py:200).
KillQuiesces == <>[]Killed => <>[](\A j \in Job : ~InCall(j))
=============================================================================
