----------------------------- MODULE TokenBucket -----------------------------
(***************************************************************************)
(* The request throttle of KalshiClient (kalshi/client.py): _TokenBucket   *)
(* and the retries of _request, used by concurrent tasks of one event loop *)
(* (enrich_with_orderbooks gathers one request per market).                *)
(*                                                                         *)
(* Time is counted in units; a token is Refill units of waiting, so tokens *)
(* are kept in those units too and no fraction arises.                     *)
(***************************************************************************)
EXTENDS Integers, Sequences, FiniteSets, SequencesExt

CONSTANTS
  Task,          \* concurrent requests
  Capacity,      \* the burst: tokens the bucket holds
  Refill,        \* time units per token (1 / rate)
  SendAttempts,  \* stop_after_attempt in _request
  MaxTime,       \* bound: the clock
  MaxRequests    \* bound: requests made in a behaviour

ASSUME BucketAssumption == Capacity \in Nat \ {0} /\ Refill \in Nat \ {0}
ASSUME TaskAssumption == IsFiniteSet(Task)
ASSUME SendAssumption == SendAttempts \in Nat \ {0}
ASSUME BoundsAssumption == MaxTime \in Nat /\ MaxRequests \in Nat

VARIABLES
  now,        \* time.monotonic
  tokens,     \* _tokens
  last,       \* _last
  pc,         \* where each task is in _request
  queue,      \* tasks waiting for or holding _lock, the holder first
  due,        \* when the holder's sleep ends
  attempts,   \* attempts each task has sent
  acquired,   \* when each acquire returned
  sent        \* attempts that went out

vars == <<now, tokens, last, pc, queue, due, attempts, acquired, sent>>

Full == Capacity * Refill
Lesser(a, b) == IF a <= b THEN a ELSE b

Init ==
  /\ now = 0 /\ last = 0
  /\ tokens = Full
  /\ pc = [k \in Task |-> "idle"]
  /\ queue = <<>> /\ due = 0
  /\ attempts = [k \in Task |-> 0]
  /\ acquired = <<>> /\ sent = 0

\* A request begins: it queues for the bucket's lock.
Request(k) ==
  /\ pc[k] = "idle" /\ Len(acquired) + Len(queue) < MaxRequests
  /\ queue' = Append(queue, k)
  /\ pc' = [pc EXCEPT ![k] = "queued"]
  /\ UNCHANGED <<now, tokens, last, due, attempts, acquired, sent>>

\* Mutant: the bucket fills beyond its capacity.
UncappedLevel == tokens + (now - last)

\* What the bucket holds now, topped up for the time since last.
Level == Lesser(Full, tokens + (now - last))

\* Mutant: the time is taken down only with a token, so a sleep counts twice.
StampOnTake == last' = IF Level >= Refill THEN now ELSE last

Stamp == last' = now

\* One round of acquire's loop, by the task that holds the lock: the bucket is
\* topped up, then a token is taken or the task sleeps for what is missing,
\* still holding the lock.
Acquire(k) ==
  /\ pc[k] \in {"queued", "asleep"} /\ queue # <<>> /\ Head(queue) = k
  /\ pc[k] = "asleep" => now >= due
  /\ Stamp
  /\ IF Level >= Refill
     THEN /\ tokens' = Level - Refill
          /\ acquired' = Append(acquired, now)
          /\ queue' = Tail(queue)
          /\ pc' = [pc EXCEPT ![k] = "send"]
          /\ attempts' = [attempts EXCEPT ![k] = 0]
          /\ UNCHANGED due
     ELSE /\ tokens' = Level
          /\ due' = now + (Refill - Level)
          /\ pc' = [pc EXCEPT ![k] = "asleep"]
          /\ UNCHANGED <<acquired, queue, attempts>>
  /\ UNCHANGED <<now, sent>>

\* Mutant: transport errors are retried for ever.
SendAgain(k) ==
  /\ pc[k] = "send"
  /\ attempts' = [attempts EXCEPT ![k] = Lesser(@ + 1, SendAttempts)]
  /\ sent' = sent + 1
  /\ sent <= SendAttempts * MaxRequests
  /\ pc' = [pc EXCEPT ![k] = "idle"] \/ UNCHANGED pc
  /\ UNCHANGED <<now, tokens, last, queue, due, acquired>>

\* An attempt goes out.  A transport error before the last one sends another,
\* without a new token; anything else ends the request.
Send(k) ==
  /\ pc[k] = "send"
  /\ attempts' = [attempts EXCEPT ![k] = @ + 1]
  /\ sent' = sent + 1
  /\ \/ pc' = [pc EXCEPT ![k] = "idle"]
     \/ attempts[k] + 1 < SendAttempts /\ UNCHANGED pc
  /\ UNCHANGED <<now, tokens, last, queue, due, acquired>>

\* Mutant: a canceled task keeps the lock.
CancelHolding(k) ==
  /\ pc[k] # "idle"
  /\ pc' = [pc EXCEPT ![k] = "idle"]
  /\ UNCHANGED <<now, tokens, last, queue, due, attempts, acquired, sent>>

\* A task is canceled where it waits: it leaves the queue or gives up the lock.
Cancel(k) ==
  /\ pc[k] # "idle"
  /\ pc' = [pc EXCEPT ![k] = "idle"]
  /\ \/ pc[k] = "send" /\ UNCHANGED queue
     \/ \E i \in DOMAIN queue : queue[i] = k /\ queue' = RemoveAt(queue, i)
  /\ UNCHANGED <<now, tokens, last, due, attempts, acquired, sent>>

\* The clock moves on.
Pass ==
  /\ now < MaxTime
  /\ now' = now + 1
  /\ UNCHANGED <<tokens, last, pc, queue, due, attempts, acquired, sent>>

Next == Pass \/ \E k \in Task : Request(k) \/ Acquire(k) \/ Send(k) \/ Cancel(k)

Spec == Init /\ [][Next]_vars

-----------------------------------------------------------------------------
\* Every variable has its type.
TypeOK ==
  /\ now \in 0..MaxTime /\ last \in 0..now
  /\ tokens \in 0..Full
  /\ pc \in [Task -> {"idle", "queued", "asleep", "send"}]
  /\ queue \in Seq(Task) /\ due \in Nat
  /\ attempts \in [Task -> 0..SendAttempts]
  /\ acquired \in Seq(0..now)
  /\ sent \in Nat

\* n events at the times times[i..i+n-1] fit a bucket of this capacity and rate.
Throttled(times) ==
  \A i, j \in DOMAIN times : i <= j =>
    (j - i + 1) * Refill <= Full + times[j] - times[i]

\* In any stretch of time the bucket grants no more than its burst and what the
\* rate adds over the stretch (client.py:28-39), whoever waits or is canceled.
AcquiresThrottled == Throttled(acquired)

\* The bucket throttles requests and not what goes out: the retries of a
\* request are free (client.py:91-97), so that all that can be said of the
\* exchange's side is that at any time no more attempts have gone out than
\* SendAttempts for every token the bucket has had.
SendsBounded == sent * Refill <= SendAttempts * (Full + now)

\* No waiter is left behind a task that is gone: the queue for the lock holds
\* the waiting tasks and nobody else, each once, and its head sleeps no longer
\* than one token takes, through cancellations at any await (client.py:29-39).
QueueIsWaiters ==
  /\ \A k \in Task : pc[k] \in {"queued", "asleep"}
       <=> \E i \in DOMAIN queue : queue[i] = k
  /\ \A i, j \in DOMAIN queue : queue[i] = queue[j] => i = j
  /\ \A k \in Task : pc[k] = "asleep" => Head(queue) = k /\ due <= last + Refill
=============================================================================
