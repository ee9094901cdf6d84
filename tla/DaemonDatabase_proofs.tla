------------------------ MODULE DaemonDatabase_proofs ------------------------
(***************************************************************************)
(* Proofs about Daemon and DaemonDatabase, for every number of jobs and    *)
(* backfills, every failure limit and every sequence of pulls: the daemon  *)
(* runs one call at a time, the composition implements it, the write lock  *)
(* has a holder, and backfills leave whole snapshots behind.               *)
(***************************************************************************)
EXTENDS DaemonDatabase, SequenceTheorems, TLAPS

-----------------------------------------------------------------------------
\* The daemon alone.

\* Type correctness, the overlap guard, and a dead process has no calls.
DaemonInv ==
  /\ TypeOK
  /\ OneCallAtATime
  /\ sched = "down" => ~running

LEMMA DaemonInvInit == Init => DaemonInv
<1> SUFFICES ASSUME Init PROVE DaemonInv
  OBVIOUS
<1>1. TypeOK
  <2>1. 0 \in 0..(MaxFailures + 1)
    BY FailuresAssumption
  <2>2. job \in [Job -> JobStage]
    BY DEF Init, JobStage
  <2>3. QED
    BY <2>1, <2>2 DEF Init, TypeOK
<1>2. running = FALSE /\ \A j \in Job : ~InCall(j)
  BY DEF Init, InCall
<1>3. OneCallAtATime
  BY <1>2 DEF OneCallAtATime
<1>4. QED
  BY <1>1, <1>2, <1>3 DEF DaemonInv

\* A step of one job that leaves the flag and the job's call alike.
LEMMA OneJobStep ==
  ASSUME DaemonInv, NEW j \in Job, NEW stage \in JobStage,
         job' = [job EXCEPT ![j] = stage],
         \/ InCall(j) /\ running' = (stage \notin {"idle", "canceled"})
         \/ ~running /\ running' = (stage \notin {"idle", "canceled"})
  PROVE  OneCallAtATime'
<1>1. /\ job'[j] = stage
      /\ \A i \in Job : i # j => job'[i] = job[i]
  BY DEF DaemonInv, TypeOK
<1>2. \A i \in Job : i # j => job[i] \in {"idle", "canceled"}
  BY DEF DaemonInv, OneCallAtATime, InCall
<1>3. \A i \in Job : InCall(i)' <=> (i = j /\ stage \notin {"idle", "canceled"})
  BY <1>1, <1>2 DEF InCall
<1>4. \A i, k \in Job : InCall(i)' /\ InCall(k)' => i = k
  BY <1>3
<1>5. running' <=> \E i \in Job : InCall(i)'
  BY <1>3
<1>6. QED
  BY <1>4, <1>5 DEF OneCallAtATime

LEMMA DaemonInvNext == DaemonInv /\ [Next]_vars => DaemonInv'
<1> SUFFICES ASSUME DaemonInv, [Next]_vars PROVE DaemonInv'
  OBVIOUS
<1> USE FailuresAssumption DEF Go, Killed
<1>1. ASSUME NEW j \in Job, Fire(j) PROVE DaemonInv'
  <2>1. OneCallAtATime'
    BY <1>1, OneJobStep DEF Fire, JobStage
  <2>2. TypeOK'
    BY <1>1 DEF Fire, DaemonInv, TypeOK, JobStage
  <2>3. QED
    BY <1>1, <2>1, <2>2 DEF Fire, DaemonInv
<1>2. ASSUME NEW j \in Job, CallStep(j) PROVE DaemonInv'
  <2>1. InCall(j) /\ sched # "down"
    BY <1>2 DEF CallStep, Enter, TickReturns, TickRaises, TickDrifts, ErrorAlert, Arm,
       CriticalAlert, InCall, DaemonInv, OneCallAtATime
  <2>2. running
    BY <2>1 DEF DaemonInv, OneCallAtATime
  <2>3. PICK stage \in JobStage : /\ job' = [job EXCEPT ![j] = stage]
                                  /\ running' = (stage \notin {"idle", "canceled"})
    BY <1>2, <2>2 DEF CallStep, Enter, TickReturns, TickRaises, TickDrifts, ErrorAlert, Arm,
       CriticalAlert, Return, JobStage, DaemonInv, TypeOK
  <2>4. OneCallAtATime'
    BY <2>1, <2>3, OneJobStep
  <2>5. failures' \in 0..(MaxFailures + 1)
    BY <1>2 DEF CallStep, Enter, TickReturns, TickRaises, TickDrifts, ErrorAlert, Arm,
       CriticalAlert, Return, CountFailure, DaemonInv, TypeOK
  <2>6. lock' \in LockReason /\ sched' = sched /\ alerts' = alerts
    BY <1>2 DEF CallStep, Enter, TickReturns, TickRaises, TickDrifts, ErrorAlert, Arm,
       CriticalAlert, Return, LockReason, DaemonInv, TypeOK
  <2>7. TypeOK'
    BY <2>3, <2>5, <2>6 DEF DaemonInv, TypeOK
  <2>8. QED
    BY <2>1, <2>4, <2>6, <2>7 DEF DaemonInv
<1>3. ASSUME Shutdown \/ Crash PROVE DaemonInv'
  <2>1. /\ job' \in [Job -> {"idle", "canceled"}] /\ running' = FALSE /\ sched' = "down"
        /\ failures' = failures /\ lock' = lock /\ alerts' = alerts
    BY <1>3 DEF Shutdown, Crash
  <2>2. \A j \in Job : ~InCall(j)'
    BY <2>1 DEF InCall
  <2>3. OneCallAtATime'
    BY <2>1, <2>2 DEF OneCallAtATime
  <2>4. QED
    BY <2>1, <2>3 DEF DaemonInv, TypeOK, JobStage
<1>4. ASSUME Start PROVE DaemonInv'
  <2>1. /\ job' \in [Job -> {"idle"}] /\ running' = FALSE /\ sched' = "up"
        /\ failures' = 0 /\ lock' = lock /\ alerts' \in BOOLEAN
    <3>1. running' = running /\ ~running
      BY <1>4 DEF Start, DaemonInv
    <3>2. running = FALSE
      BY <3>1 DEF DaemonInv, TypeOK
    <3>3. QED
      BY <1>4, <3>1, <3>2 DEF Start
  <2>2. \A j \in Job : ~InCall(j)'
    BY <2>1 DEF InCall
  <2>3. OneCallAtATime'
    BY <2>1, <2>2 DEF OneCallAtATime
  <2>4. 0 \in 0..(MaxFailures + 1)
    OBVIOUS
  <2>5. job' \in [Job -> JobStage]
    BY <2>1 DEF JobStage
  <2>6. TypeOK'
    BY <2>1, <2>4, <2>5 DEF DaemonInv, TypeOK
  <2>7. QED
    BY <2>1, <2>3, <2>6 DEF DaemonInv
<1>5. ASSUME Signal \/ Kill \/ Unkill \/ UNCHANGED vars PROVE DaemonInv'
  <2>1. job' = job /\ running' = running /\ failures' = failures /\ alerts' = alerts
    BY <1>5 DEF Signal, Kill, Unkill, vars
  <2>2. lock' \in LockReason /\ sched' \in {"down", "up", "draining"}
        /\ (sched' = "down" => sched = "down")
    BY <1>5 DEF Signal, Kill, Unkill, vars, DaemonInv, TypeOK, LockReason
  <2>3. QED
    BY <2>1, <2>2 DEF DaemonInv, TypeOK, OneCallAtATime, InCall
<1>6. QED
  BY <1>1, <1>2, <1>3, <1>4, <1>5 DEF Next

LEMMA DaemonInvariant == Spec => []DaemonInv
  BY DaemonInvInit, DaemonInvNext, PTL DEF Spec

\* Every reachable state of the daemon is well typed.
THEOREM DaemonTypeCorrect == Spec => []TypeOK
<1>1. DaemonInv => TypeOK
  BY DEF DaemonInv
<1>2. QED
  BY <1>1, DaemonInvariant, PTL

\* However many firings the scheduler lets through, the overlap guard keeps the
\* calls apart and the flag tells whether one is in progress (daemon.py:54-61).
THEOREM GuardSuffices == Spec => []OneCallAtATime
<1>1. DaemonInv => OneCallAtATime
  BY DEF DaemonInv
<1>2. QED
  BY <1>1, DaemonInvariant, PTL

\* Without an alert that can raise, the failure limit always arms the kill
\* switch (daemon.py:90-92), for every limit.
THEOREM LimitAlwaysArms == Spec => QuietLimitArms
<1>1. ASSUME DaemonInv, [Next]_vars, NEW j \in Job, GivesUp(j), ~alerts
      PROVE  FALSE
  <2>1. InCall(j) /\ sched # "down"
    BY <1>1 DEF GivesUp, InCall, DaemonInv, OneCallAtATime
  <2>2. CASE \E i \in Job : CallStep(i)
    <3>1. PICK i \in Job : CallStep(i)
      BY <2>2
    <3>2. i = j
      BY <1>1, <3>1 DEF GivesUp, CallStep, Enter, TickReturns, TickRaises, TickDrifts,
         ErrorAlert, Arm, CriticalAlert, Return, Go, DaemonInv, TypeOK
    <3>3. Arm(j)
      BY <1>1, <3>1, <3>2 DEF GivesUp, CallStep, Enter, TickReturns, TickRaises, TickDrifts,
         ErrorAlert, CriticalAlert, Go, DaemonInv, TypeOK
    <3>4. QED
      BY <1>1, <3>3 DEF GivesUp, Arm, Killed
  <2>3. CASE \E i \in Job : Fire(i)
    BY <1>1, <2>1, <2>3 DEF GivesUp, Fire, Go, DaemonInv, OneCallAtATime, TypeOK
  <2>4. CASE Signal \/ Shutdown \/ Crash \/ Start \/ Kill \/ Unkill \/ UNCHANGED vars
    BY <1>1, <2>1, <2>4 DEF GivesUp, Signal, Shutdown, Crash, Start, Kill, Unkill, vars
  <2>5. QED
    BY <1>1, <2>2, <2>3, <2>4 DEF Next
<1>2. ASSUME DaemonInv, [Next]_vars
      PROVE  [\A j \in Job : ~alerts => ~GivesUp(j)]_vars
  BY <1>1, <1>2
<1>3. QED
  BY <1>2, DaemonInvariant, PTL DEF Spec, QuietLimitArms

-----------------------------------------------------------------------------
\* The composition's steps are the daemon's or leave it alone, by the way it is
\* written; so the daemon's invariant holds of it.

LEMMA DbStepIsDaemonStep == [DbNext]_allVars => [Next]_vars
<1> SUFFICES ASSUME [DbNext]_allVars PROVE Next \/ UNCHANGED vars
  OBVIOUS
<1>1. ASSUME NEW j \in Job, DbCallStep(j) PROVE Next \/ UNCHANGED vars
  <2>1. CallStep(j) \/ UNCHANGED vars
    BY <1>1 DEF DbCallStep, BeginTick, InputsArrive, SaveScan, NoPicks, Drift, Routed,
       InsertResult, CheckEnds, TickFails, LockTimeout, HandlerStep, CallStep
  <2>2. QED
    BY <2>1 DEF Next
<1>2. ASSUME NEW b \in Backfill, StartBackfill(b) \/ BackfillStep(b) PROVE UNCHANGED vars
  BY <1>2 DEF StartBackfill, BackfillStep, Pull, PassOver, Commit, BackfillFails
<1>3. ASSUME DbShutdown \/ DbCrash PROVE Next
  BY <1>3 DEF DbShutdown, DbCrash, Next
<1>4. ASSUME \/ \E j \in Job : Fire(j) /\ UNCHANGED dbVars
             \/ (Signal \/ Start \/ Kill \/ Unkill) /\ UNCHANGED dbVars
      PROVE  Next
  BY <1>4 DEF Next
<1>5. UNCHANGED allVars => UNCHANGED vars
  BY DEF allVars
<1>6. QED
  BY <1>1, <1>2, <1>3, <1>4, <1>5 DEF DbNext

LEMMA DaemonInvHolds == DbSpec => []DaemonInv
<1>1. DbInit => DaemonInv
  BY DaemonInvInit DEF DbInit
<1>2. DaemonInv /\ [DbNext]_allVars => DaemonInv'
  BY DbStepIsDaemonStep, DaemonInvNext
<1>3. QED
  BY <1>1, <1>2, PTL DEF DbSpec

-----------------------------------------------------------------------------
\* The inductive invariant.

\* What backfill b still has to pull and what it has pulled make up its phase.
PhaseAccounted(b) ==
  /\ backfill[b] = "idle" => saved[b] = {}
  /\ backfill[b] = "kalshi" =>
       /\ saved[b] = {}
       /\ unsaved[b] \cup Range(left[b]) = Range(KalshiPulls)
  /\ backfill[b] = "weather" =>
       /\ saved[b] = Range(KalshiPulls)
       /\ unsaved[b] \cup Range(left[b]) \subseteq Range(WeatherPulls)
       /\ Range(WeatherPulls) \ NwsPulls \subseteq unsaved[b] \cup Range(left[b])
  /\ backfill[b] = "failed" => saved[b] \in {{}, Range(KalshiPulls)}
  /\ backfill[b] = "done" => AnyPull \ NwsPulls \subseteq saved[b]

DbInv ==
  /\ DbTypeOK
  /\ LockHasHolder
  /\ \A b \in Backfill : PhaseAccounted(b)

LEMMA DbInvInit == DbInit => DbInv
<1> SUFFICES ASSUME DbInit PROVE DbInv
  OBVIOUS
<1>1. DbTypeOK
  <2>1. TypeOK
    BY DaemonInvInit DEF DbInit, DaemonInv
  <2>2. <<>> \in Seq(AnyPull)
    OBVIOUS
  <2>3. QED
    BY <2>1, <2>2 DEF DbInit, Init, DbTypeOK, TickStage, Phase
<1>2. LockHasHolder
  BY WriterAssumption DEF DbInit, LockHasHolder
<1>3. \A b \in Backfill : PhaseAccounted(b)
  BY DEF DbInit, PhaseAccounted
<1>4. QED
  BY <1>1, <1>2, <1>3 DEF DbInv

LEMMA HeadTailRange ==
  ASSUME NEW S, NEW s \in Seq(S), s # <<>>
  PROVE  /\ Head(s) \in S /\ Tail(s) \in Seq(S)
         /\ Range(s) = {Head(s)} \cup Range(Tail(s))
<1>1. /\ Head(s) \in S /\ Tail(s) \in Seq(S)
      /\ Len(s) \in Nat /\ Len(s) # 0 /\ DOMAIN s = 1..Len(s)
      /\ Len(Tail(s)) = Len(s) - 1 /\ Head(s) = s[1]
      /\ \A i \in 1..Len(Tail(s)) : Tail(s)[i] = s[i + 1]
  BY HeadTailProperties, LenProperties, EmptySeq
<1>2. DOMAIN Tail(s) = 1..(Len(s) - 1)
  BY <1>1
<1>3. ASSUME NEW i \in 1..Len(s) PROVE s[i] \in {Head(s)} \cup Range(Tail(s))
  <2>1. CASE i = 1
    BY <1>1, <2>1
  <2>2. CASE i # 1
    <3>1. i - 1 \in 1..(Len(s) - 1) /\ s[i] = Tail(s)[i - 1]
      BY <1>1, <2>2
    <3>2. QED
      BY <1>2, <3>1 DEF Range
  <2>3. QED
    BY <2>1, <2>2
<1>4. Range(Tail(s)) \subseteq Range(s)
  <2>1. ASSUME NEW i \in 1..(Len(s) - 1) PROVE Tail(s)[i] \in Range(s)
    <3>1. i + 1 \in 1..Len(s) /\ Tail(s)[i] = s[i + 1]
      BY <1>1
    <3>2. QED
      BY <1>1, <3>1 DEF Range
  <2>2. QED
    BY <1>2, <2>1 DEF Range
<1>5. Head(s) \in Range(s)
  BY <1>1 DEF Range
<1>6. QED
  BY <1>1, <1>3, <1>4, <1>5 DEF Range

\* Steps that leave the backfills alone keep their accounts.
LEMMA AccountsKept ==
  ASSUME \A b \in Backfill : PhaseAccounted(b), UNCHANGED backfillVars
  PROVE  \A b \in Backfill : PhaseAccounted(b)'
BY DEF PhaseAccounted, backfillVars

\* A step of run_tick moves one job's stage as it moves the job.
LEMMA CallStepTick ==
  ASSUME DaemonInv, DaemonInv', DbInv, NEW j \in Job, DbCallStep(j)
  PROVE  /\ tick' \in [Job -> TickStage]
         /\ \A i \in Job : tick'[i] # "none" <=> job'[i] = "ticking"
         /\ \A i \in Job : i # j => tick'[i] = tick[i] /\ job'[i] = job[i]
<1> USE DEF TickStage, Go, TickGo
<1>1. /\ tick \in [Job -> TickStage] /\ job \in [Job -> JobStage]
      /\ \A i \in Job : tick[i] # "none" <=> job[i] = "ticking"
  BY DEF DbInv, DbTypeOK, TypeOK
<1>2. ASSUME NEW stage \in TickStage, NEW jobStage \in JobStage,
             tick' = [tick EXCEPT ![j] = stage], job' = [job EXCEPT ![j] = jobStage],
             stage # "none" <=> jobStage = "ticking"
      PROVE  /\ tick' \in [Job -> TickStage]
             /\ \A i \in Job : tick'[i] # "none" <=> job'[i] = "ticking"
             /\ \A i \in Job : i # j => tick'[i] = tick[i] /\ job'[i] = job[i]
  BY <1>1, <1>2
<1>3. CASE BeginTick(j)
  <2>1. CASE Killed
    <3>1. tick' = [tick EXCEPT ![j] = "none"] /\ job' = [job EXCEPT ![j] = "idle"]
      BY <1>1, <1>3, <2>1 DEF BeginTick, Enter, Return
    <3>2. QED
      BY <1>2, <3>1 DEF JobStage
  <2>2. CASE ~Killed
    BY <1>2, <1>3, <2>2 DEF BeginTick, Enter, JobStage
  <2>3. QED
    BY <2>1, <2>2
<1>4. CASE InputsArrive(j) \/ SaveScan(j) \/ Routed(j)
  <2>1. job[j] = "ticking" /\ job' = job
    BY <1>1, <1>4 DEF InputsArrive, SaveScan, Routed, vars
  <2>2. job' = [job EXCEPT ![j] = "ticking"]
    BY <1>1, <2>1
  <2>3. QED
    BY <1>2, <1>4, <2>2 DEF InputsArrive, SaveScan, Routed, JobStage
<1>5. CASE NoPicks(j) \/ CheckEnds(j)
  BY <1>2, <1>5 DEF NoPicks, CheckEnds, TickReturns, Return, JobStage
<1>6. CASE Drift(j)
  BY <1>2, <1>6 DEF Drift, TickDrifts, Return, JobStage
<1>7. CASE InsertResult(j)
  BY <1>1, <1>7 DEF InsertResult, vars
<1>8. CASE TickFails(j) \/ LockTimeout(j)
  BY <1>2, <1>8 DEF TickFails, LockTimeout, TickRaises, JobStage
<1>9. CASE HandlerStep(j)
  <2>1. job[j] # "ticking" /\ tick' = tick
    BY <1>9 DEF HandlerStep, ErrorAlert, Arm, CriticalAlert, dbVars
  <2>2. tick' = [tick EXCEPT ![j] = "none"]
    BY <1>1, <2>1
  <2>3. PICK jobStage \in JobStage : jobStage # "ticking" /\ job' = [job EXCEPT ![j] = jobStage]
    BY <1>9 DEF HandlerStep, ErrorAlert, Arm, CriticalAlert, JobStage
  <2>4. QED
    BY <1>2, <2>2, <2>3
<1>10. QED
  BY <1>3, <1>4, <1>5, <1>6, <1>7, <1>8, <1>9 DEF DbCallStep

\* Only the settlement check takes the lock, and it gives it back when it ends.
LEMMA CallStepLock ==
  ASSUME DaemonInv, DaemonInv', DbInv, NEW j \in Job, DbCallStep(j)
  PROVE  LockHasHolder' /\ writer' \in Job \cup Backfill \cup {"none"} /\ UNCHANGED backfillVars
<1>1. /\ tick' \in [Job -> TickStage]
      /\ \A i \in Job : tick'[i] # "none" <=> job'[i] = "ticking"
      /\ \A i \in Job : i # j => tick'[i] = tick[i] /\ job'[i] = job[i]
  BY CallStepTick
<1>2. UNCHANGED backfillVars
  BY DEF DbCallStep, BeginTick, InputsArrive, SaveScan, NoPicks, Drift, Routed, InsertResult,
     CheckEnds, TickFails, LockTimeout, HandlerStep, dbVars
<1>3. LockHasHolder /\ writer \in Job \cup Backfill \cup {"none"}
      /\ \A i \in Job : tick[i] # "none" <=> job[i] = "ticking"
  BY DEF DbInv, DbTypeOK
<1>4. CASE InsertResult(j)
  <2>1. writer' = j /\ tick'[j] = "settle" /\ writer = "none"
    BY <1>4 DEF InsertResult
  <2>2. \A b \in Backfill : unsaved[b] = {}
    BY <1>3, <2>1, WriterAssumption DEF LockHasHolder
  <2>3. QED
    BY <1>1, <1>2, <2>1, <2>2, WriterAssumption DEF LockHasHolder, backfillVars
<1>5. CASE CheckEnds(j)
  <2>1. writer' = IF writer = j THEN "none" ELSE writer
    BY <1>5 DEF CheckEnds, Release
  <2>2. QED
    BY <1>1, <1>2, <1>3, <2>1, WriterAssumption DEF LockHasHolder, Pulling, backfillVars
<1>6. CASE ~InsertResult(j) /\ ~CheckEnds(j)
  <2>1. writer' = writer /\ tick[j] # "settle"
    <3>1. CASE HandlerStep(j)
      BY <1>3, <3>1 DEF HandlerStep, ErrorAlert, Arm, CriticalAlert, dbVars
    <3>2. CASE BeginTick(j)
      BY <1>3, <3>2 DEF BeginTick, Enter
    <3>3. CASE ~HandlerStep(j) /\ ~BeginTick(j)
      BY <1>6, <3>3 DEF DbCallStep, InputsArrive, SaveScan, NoPicks, Drift, Routed, TickFails,
         LockTimeout
    <3>4. QED
      BY <3>1, <3>2, <3>3
  <2>2. QED
    BY <1>1, <1>2, <1>3, <2>1 DEF LockHasHolder, Pulling, backfillVars
<1>7. QED
  BY <1>2, <1>4, <1>5, <1>6

\* The daemon's process and the operator's commands leave the database alone,
\* and no job is in run_tick when a process starts.
LEMMA ProcessSteps ==
  ASSUME DaemonInv, DaemonInv', DbInv,
         \/ \E j \in Job : Fire(j) /\ UNCHANGED dbVars
         \/ (Signal \/ Start \/ Kill \/ Unkill) /\ UNCHANGED dbVars
  PROVE  DbInv'
<1>1. /\ tick \in [Job -> TickStage]
      /\ \A i \in Job : tick[i] # "none" <=> job[i] = "ticking"
      /\ job \in [Job -> JobStage]
  BY DEF DbInv, DbTypeOK, TypeOK
<1>2. \A i \in Job : job'[i] = "ticking" <=> job[i] = "ticking"
  <2>1. CASE \E j \in Job : Fire(j)
    BY <1>1, <2>1 DEF Fire, Go
  <2>2. CASE Start
    <3>1. ~running
      BY <2>2 DEF Start, DaemonInv
    <3>2. QED
      BY <2>2, <3>1 DEF Start, DaemonInv, OneCallAtATime, InCall
  <2>3. CASE Signal \/ Kill \/ Unkill
    BY <2>3 DEF Signal, Kill, Unkill
  <2>4. QED
    BY <2>1, <2>2, <2>3
<1>3. UNCHANGED <<tick, backfill, left, writer, unsaved, saved>>
  BY DEF dbVars, backfillVars
<1>4. DbTypeOK'
  <2>1. TypeOK'
    BY DEF DaemonInv
  <2>2. QED
    BY <1>1, <1>2, <1>3, <2>1 DEF DbInv, DbTypeOK
<1>5. LockHasHolder'
  BY <1>2, <1>3 DEF DbInv, LockHasHolder, Pulling
<1>6. QED
  BY <1>3, <1>4, <1>5, AccountsKept DEF DbInv, backfillVars

\* A process that stops closes the connections of its ticks.
LEMMA StopSteps ==
  ASSUME DaemonInv, DaemonInv', DbInv, DbShutdown \/ DbCrash
  PROVE  DbInv'
<1>1. /\ tick' = [j \in Job |-> "none"]
      /\ writer' = IF writer \in Job THEN "none" ELSE writer
      /\ UNCHANGED backfillVars
  BY DEF DbShutdown, DbCrash, CloseConnections
<1>2. \A j \in Job : job'[j] # "ticking"
  BY DEF DbShutdown, DbCrash, Shutdown, Crash
<1>3. DbTypeOK'
  <2>1. TypeOK'
    BY DEF DaemonInv
  <2>2. QED
    BY <1>1, <1>2, <2>1 DEF DbInv, DbTypeOK, TickStage, backfillVars
<1>4. LockHasHolder'
  BY <1>1, WriterAssumption DEF DbInv, DbTypeOK, LockHasHolder, Pulling, backfillVars
<1>5. QED
  BY <1>1, <1>3, <1>4, AccountsKept DEF DbInv

\* A backfill's own step, given what it does to its own entries.
LEMMA BackfillSteps ==
  ASSUME DaemonInv', DbInv, NEW b \in Backfill, StartBackfill(b) \/ BackfillStep(b)
  PROVE  DbInv'
<1> USE DEF Pulling
<1> DEFINE LockMoves(phase, open) ==
             \/ writer' = writer /\ (phase \in {"kalshi", "weather"} \/ writer # b)
                                 /\ (open # {} => writer = b)
             \/ writer \in {"none", b} /\ writer' = b /\ phase \in {"kalshi", "weather"}
             \/ writer' = (IF writer = b THEN "none" ELSE writer) /\ open = {}
<1>1. /\ backfill \in [Backfill -> Phase] /\ left \in [Backfill -> Seq(AnyPull)]
      /\ unsaved \in [Backfill -> SUBSET AnyPull] /\ saved \in [Backfill -> SUBSET AnyPull]
      /\ left[b] \in Seq(AnyPull)
      /\ PhaseAccounted(b) /\ LockHasHolder
  BY DEF DbInv, DbTypeOK
<1>2. UNCHANGED <<vars, tick>>
  BY DEF StartBackfill, BackfillStep, Pull, PassOver, Commit, BackfillFails
<1>3. ASSUME NEW phase \in Phase, NEW rest \in Seq(AnyPull), NEW open \in SUBSET AnyPull,
             NEW kept \in SUBSET AnyPull,
             /\ backfill' = [backfill EXCEPT ![b] = phase]
             /\ left' = [left EXCEPT ![b] = rest]
             /\ unsaved' = [unsaved EXCEPT ![b] = open]
             /\ saved' = [saved EXCEPT ![b] = kept],
             LockMoves(phase, open), PhaseAccounted(b)'
      PROVE  DbInv'
  <2>1. \A c \in Backfill : c # b => PhaseAccounted(c)'
    BY <1>1, <1>3 DEF PhaseAccounted, DbInv
  <2>2. DbTypeOK'
    <3>1. TypeOK'
      BY DEF DaemonInv
    <3>2. writer' \in Job \cup Backfill \cup {"none"}
      BY <1>3 DEF DbInv, DbTypeOK
    <3>3. /\ backfill' \in [Backfill -> Phase] /\ left' \in [Backfill -> Seq(AnyPull)]
          /\ unsaved' \in [Backfill -> SUBSET AnyPull] /\ saved' \in [Backfill -> SUBSET AnyPull]
      BY <1>1, <1>3
    <3>4. QED
      BY <1>2, <3>1, <3>2, <3>3 DEF DbInv, DbTypeOK, vars
  <2>3. LockHasHolder'
    <3>1. writer' \in Job => tick'[writer'] = "settle" /\ job'[writer'] = "ticking"
      BY <1>1, <1>2, <1>3, WriterAssumption DEF LockHasHolder, vars
    <3>2. writer' \in Backfill => Pulling(writer)'
      BY <1>1, <1>3, WriterAssumption DEF LockHasHolder
    <3>3. \A c \in Backfill : unsaved'[c] # {} => writer' = c
      BY <1>1, <1>3, WriterAssumption DEF LockHasHolder
    <3>4. QED
      BY <3>1, <3>2, <3>3 DEF LockHasHolder
  <2>4. QED
    BY <1>3, <2>1, <2>2, <2>3 DEF DbInv
<1> HIDE DEF LockMoves
<1>4. CASE StartBackfill(b)
  <2>1. writer # b /\ unsaved[b] = {} /\ saved[b] = {}
    BY <1>1, <1>4, WriterAssumption DEF StartBackfill, LockHasHolder, PhaseAccounted
  <2>2. /\ backfill' = [backfill EXCEPT ![b] = "kalshi"]
        /\ left' = [left EXCEPT ![b] = KalshiPulls]
        /\ unsaved' = [unsaved EXCEPT ![b] = {}]
        /\ saved' = [saved EXCEPT ![b] = {}]
        /\ writer' = writer
    BY <1>1, <1>4, <2>1 DEF StartBackfill
  <2>3. PhaseAccounted(b)'
    BY <1>1, <2>2 DEF PhaseAccounted
  <2>4. LockMoves("kalshi", {})
    BY <2>1, <2>2 DEF LockMoves
  <2>5. QED
    BY <1>3, <2>2, <2>3, <2>4, PullAssumption DEF Phase
<1>5. CASE Pull(b) \/ PassOver(b)
  <2>1. /\ Pulling(b) /\ left[b] # <<>>
        /\ left' = [left EXCEPT ![b] = Tail(left[b])]
        /\ UNCHANGED <<backfill, saved>>
    BY <1>1, <1>5 DEF Pull, PassOver
  <2>2. /\ Head(left[b]) \in AnyPull /\ Tail(left[b]) \in Seq(AnyPull)
        /\ Range(left[b]) = {Head(left[b])} \cup Range(Tail(left[b]))
    BY <1>1, <2>1, HeadTailRange
  <2>3. /\ backfill' = [backfill EXCEPT ![b] = backfill[b]]
        /\ saved' = [saved EXCEPT ![b] = saved[b]]
    BY <1>1, <2>1
  <2>4. backfill[b] \in Phase /\ saved[b] \in SUBSET AnyPull
    BY <1>1
  <2>5. CASE Pull(b)
    <3>1. /\ unsaved' = [unsaved EXCEPT ![b] = unsaved[b] \cup {Head(left[b])}]
          /\ writer \in {"none", b} /\ writer' = b
      BY <2>5 DEF Pull
    <3>2. unsaved[b] \cup {Head(left[b])} \in SUBSET AnyPull
      BY <1>1, <2>2
    <3>3. PhaseAccounted(b)'
      BY <1>1, <2>1, <2>2, <3>1 DEF PhaseAccounted
    <3>4. LockMoves(backfill[b], unsaved[b] \cup {Head(left[b])})
      BY <2>1, <3>1 DEF LockMoves
    <3>5. QED
      BY <1>3, <2>1, <2>2, <2>3, <2>4, <3>1, <3>2, <3>3, <3>4
  <2>6. CASE PassOver(b)
    <3>1. /\ unsaved' = [unsaved EXCEPT ![b] = unsaved[b]] /\ writer' = writer
          /\ Head(left[b]) \in NwsPulls
      BY <1>1, <2>6 DEF PassOver
    <3>2. unsaved[b] \in SUBSET AnyPull /\ (unsaved[b] # {} => writer = b)
      BY <1>1 DEF LockHasHolder
    <3>3. backfill[b] = "weather"
      BY <1>1, <2>1, <2>2, <3>1, PullAssumption DEF PhaseAccounted
    <3>4. PhaseAccounted(b)'
      BY <1>1, <2>1, <2>2, <3>1, <3>3 DEF PhaseAccounted
    <3>5. LockMoves(backfill[b], unsaved[b])
      BY <3>1, <3>2, <3>3 DEF LockMoves
    <3>6. QED
      BY <1>3, <2>1, <2>2, <2>3, <2>4, <3>1, <3>2, <3>4, <3>5
  <2>7. QED
    BY <1>5, <2>5, <2>6
<1>6. CASE Commit(b)
  <2>1. Range(left[b]) = {} /\ Pulling(b) /\ left[b] = <<>>
    BY <1>6 DEF Commit, Range
  <2>2. /\ unsaved' = [unsaved EXCEPT ![b] = {}]
        /\ saved' = [saved EXCEPT ![b] = saved[b] \cup unsaved[b]]
        /\ writer' = IF writer = b THEN "none" ELSE writer
    BY <1>6 DEF Commit, Release
  <2>3. saved[b] \cup unsaved[b] \in SUBSET AnyPull
    BY <1>1
  <2>4. LockMoves("weather", {}) /\ LockMoves("done", {})
    BY <2>2 DEF LockMoves
  <2>5. CASE backfill[b] = "kalshi"
    <3>1. /\ backfill' = [backfill EXCEPT ![b] = "weather"]
          /\ left' = [left EXCEPT ![b] = WeatherPulls]
      BY <1>6, <2>5 DEF Commit
    <3>2. PhaseAccounted(b)'
      BY <1>1, <2>1, <2>2, <2>5, <3>1 DEF PhaseAccounted
    <3>3. QED
      BY <1>3, <2>2, <2>3, <2>4, <3>1, <3>2, PullAssumption DEF Phase
  <2>6. CASE backfill[b] = "weather"
    <3>1. /\ backfill' = [backfill EXCEPT ![b] = "done"]
          /\ left' = [left EXCEPT ![b] = <<>>]
      BY <1>1, <1>6, <2>1, <2>6 DEF Commit
    <3>2. PhaseAccounted(b)'
      BY <1>1, <2>1, <2>2, <2>6, <3>1 DEF PhaseAccounted, AnyPull
    <3>3. <<>> \in Seq(AnyPull)
      OBVIOUS
    <3>4. QED
      BY <1>3, <2>2, <2>3, <2>4, <3>1, <3>2, <3>3 DEF Phase
  <2>7. QED
    BY <2>1, <2>5, <2>6
<1>7. CASE BackfillFails(b)
  <2>1. /\ backfill' = [backfill EXCEPT ![b] = "failed"]
        /\ left' = [left EXCEPT ![b] = <<>>]
        /\ unsaved' = [unsaved EXCEPT ![b] = {}]
        /\ saved' = [saved EXCEPT ![b] = saved[b]]
        /\ writer' = IF writer = b THEN "none" ELSE writer
        /\ Pulling(b)
    BY <1>1, <1>7 DEF BackfillFails, Release
  <2>2. PhaseAccounted(b)'
    BY <1>1, <2>1 DEF PhaseAccounted
  <2>3. <<>> \in Seq(AnyPull) /\ saved[b] \in SUBSET AnyPull /\ {} \in SUBSET AnyPull
    BY <1>1
  <2>4. LockMoves("failed", {})
    BY <2>1 DEF LockMoves
  <2>5. QED
    BY <1>3, <2>1, <2>2, <2>3, <2>4 DEF Phase
<1>8. QED
  BY <1>4, <1>5, <1>6, <1>7 DEF BackfillStep

LEMMA DbInvNext == DaemonInv /\ DaemonInv' /\ DbInv /\ [DbNext]_allVars => DbInv'
<1> SUFFICES ASSUME DaemonInv, DaemonInv', DbInv, [DbNext]_allVars PROVE DbInv'
  OBVIOUS
<1>1. ASSUME NEW j \in Job, DbCallStep(j) PROVE DbInv'
  <2>1. TypeOK'
    BY DEF DaemonInv
  <2>2. DbTypeOK'
    BY <1>1, <2>1, CallStepTick, CallStepLock DEF DbInv, DbTypeOK, backfillVars
  <2>3. QED
    BY <1>1, <2>2, CallStepLock, AccountsKept DEF DbInv
<1>2. CASE UNCHANGED allVars
  <2>1. UNCHANGED <<tick, job, backfill, left, writer, unsaved, saved>>
    BY <1>2 DEF allVars, vars, dbVars, backfillVars
  <2>2. TypeOK'
    BY DEF DaemonInv
  <2>3. DbTypeOK' /\ LockHasHolder'
    BY <2>1, <2>2 DEF DbInv, DbTypeOK, LockHasHolder, Pulling
  <2>4. QED
    BY <2>1, <2>3, AccountsKept DEF DbInv, backfillVars
<1>3. QED
  BY <1>1, <1>2, ProcessSteps, StopSteps, BackfillSteps DEF DbNext

LEMMA DbInvariant == DbSpec => []DbInv
  BY DaemonInvHolds, DbInvInit, DbInvNext, PTL DEF DbSpec

-----------------------------------------------------------------------------
\* Every variable of the composition has its type, and run_tick is open just
\* while the daemon's call awaits it.
THEOREM DatabaseTypeCorrect == DbSpec => []DbTypeOK
<1>1. DbInv => DbTypeOK
  BY DEF DbInv
<1>2. QED
  BY <1>1, DbInvariant, PTL

\* The write lock never outlives the settlement check or the backfill it was
\* taken for, however they end (db.py:31-35).
THEOREM LockAlwaysHasHolder == DbSpec => []LockHasHolder
<1>1. DbInv => LockHasHolder
  BY DEF DbInv
<1>2. QED
  BY <1>1, DbInvariant, PTL

\* What a backfill leaves behind is whole, for every sequence of pulls and
\* wherever it fails (snapshot.py:188-193).
THEOREM SnapshotsAlwaysWhole == DbSpec => []SnapshotsWhole
<1>1. DbInv => SnapshotsWhole
  BY DEF DbInv, DbTypeOK, Phase, PhaseAccounted, SnapshotsWhole, AnyPull
<1>2. QED
  BY <1>1, DbInvariant, PTL
=============================================================================
