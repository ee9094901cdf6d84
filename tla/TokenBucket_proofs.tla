------------------------- MODULE TokenBucket_proofs -------------------------
(***************************************************************************)
(* The bucket keeps to its burst and rate, its queue to the tasks that     *)
(* wait, and the attempts that go out to the tokens, for every capacity,   *)
(* every rate, any number of tasks and however they wait or are canceled.  *)
(***************************************************************************)
EXTENDS TokenBucket, Sums_proofs, SequenceTheorems

\* The bucket's numbers.
BucketTypes ==
  /\ now \in Nat /\ last \in Nat /\ last <= now
  /\ tokens \in Nat /\ tokens <= Full
  /\ acquired \in Seq(Nat)

\* The account behind the throttle: what is in the bucket and what was granted
\* since any grant together fit the burst and what the rate has added since.
Accounted ==
  \A i \in 1..Len(acquired) :
    /\ acquired[i] <= last
    /\ tokens + (Len(acquired) - i + 1) * Refill <= Full + last - acquired[i]

BucketInv == BucketTypes /\ Accounted /\ AcquiresThrottled

LEMMA FullType == Full \in Nat /\ Refill \in Nat
<1>1. Capacity \in Nat /\ Refill \in Nat
  BY BucketAssumption
<1>2. Capacity * Refill \in Nat
  BY <1>1
<1>3. QED
  BY <1>1, <1>2 DEF Full

\* One grant more costs one token more.
LEMMA OneMore == ASSUME NEW n \in Int PROVE (n + 1) * Refill = n * Refill + Refill
  BY FullType

LEMMA BucketInit == Init => BucketInv
<1> SUFFICES ASSUME Init PROVE BucketInv
  OBVIOUS
<1>1. acquired = <<>> /\ Len(acquired) = 0
  BY DEF Init
<1>2. BucketTypes
  BY FullType DEF Init, BucketTypes
<1>3. Accounted
  BY <1>1 DEF Accounted
<1>4. AcquiresThrottled
  BY <1>1 DEF AcquiresThrottled, Throttled
<1>5. QED
  BY <1>2, <1>3, <1>4 DEF BucketInv

-----------------------------------------------------------------------------
\* The level at the top of acquire's loop.
LEMMA LevelBounds ==
  ASSUME BucketTypes
  PROVE  Level \in Nat /\ Level <= Full /\ Level <= tokens + (now - last)
  BY FullType DEF BucketTypes, Level, Lesser

\* A round that takes no token only moves the account to the present.
LEMMA TopUpKeeps ==
  ASSUME BucketInv, last' = now, tokens' = Level, UNCHANGED <<now, acquired>>
  PROVE  BucketInv'
<1>1. Level \in Nat /\ Level <= Full /\ Level <= tokens + (now - last)
  BY LevelBounds DEF BucketInv
<1>2. BucketTypes'
  BY <1>1, FullType DEF BucketInv, BucketTypes, Full
<1>3. Accounted'
  <2> SUFFICES ASSUME NEW i \in 1..Len(acquired)
               PROVE  /\ acquired[i] <= now
                      /\ Level + (Len(acquired) - i + 1) * Refill <= Full + now - acquired[i]
    BY DEF Accounted, Full
  <2>1. acquired[i] \in Nat /\ Len(acquired) \in Nat
    BY DEF BucketInv, BucketTypes
  <2> DEFINE spent == (Len(acquired) - i + 1) * Refill
  <2>2. spent \in Int
    BY <2>1, FullType
  <2>3. acquired[i] <= last /\ tokens + spent <= Full + last - acquired[i]
    BY DEF BucketInv, Accounted
  <2> HIDE DEF spent
  <2>4. acquired[i] <= now /\ Level + spent <= Full + now - acquired[i]
    BY <1>1, <2>1, <2>2, <2>3, FullType DEF BucketInv, BucketTypes
  <2>5. QED
    BY <2>4 DEF spent
<1>4. AcquiresThrottled'
  BY DEF BucketInv, AcquiresThrottled, Throttled, Full
<1>5. QED
  BY <1>2, <1>3, <1>4 DEF BucketInv

\* A grant takes one token of the topped-up bucket.
LEMMA GrantKeeps ==
  ASSUME BucketInv, Level >= Refill, last' = now, tokens' = Level - Refill,
         acquired' = Append(acquired, now), UNCHANGED now
  PROVE  BucketInv'
<1> DEFINE n == Len(acquired)
<1>1. Level \in Nat /\ Level <= Full /\ Level <= tokens + (now - last)
  BY LevelBounds DEF BucketInv
<1>2. BucketTypes'
  BY <1>1, FullType DEF BucketInv, BucketTypes, Full
<1>3. /\ n \in Nat /\ Len(acquired') = n + 1
      /\ acquired'[n + 1] = now
      /\ \A i \in 1..n : acquired'[i] = acquired[i] /\ acquired[i] \in Nat
  BY DEF BucketInv, BucketTypes
\* The account at the new grant, for an earlier one and for itself.
<1>4. ASSUME NEW i \in 1..n
      PROVE  /\ acquired[i] <= now
             /\ Level + (n - i + 1) * Refill <= Full + now - acquired[i]
  <2> DEFINE spent == (n - i + 1) * Refill
  <2>1. spent \in Int /\ acquired[i] \in Nat
    BY <1>3, FullType
  <2>2. acquired[i] <= last /\ tokens + spent <= Full + last - acquired[i]
    BY DEF BucketInv, Accounted
  <2> HIDE DEF spent
  <2>3. acquired[i] <= now /\ Level + spent <= Full + now - acquired[i]
    <3>1. /\ now \in Nat /\ last \in Nat /\ last <= now /\ tokens \in Nat /\ Full \in Nat
          /\ Level \in Nat /\ Level <= tokens + (now - last)
      BY <1>1, FullType, LevelBounds DEF BucketInv, BucketTypes
    <3>2. QED
      BY <2>1, <2>2, <3>1
  <2>4. QED
    BY <2>3 DEF spent
<1>5. ASSUME NEW i \in 1..(n + 1)
      PROVE  /\ acquired'[i] <= now
             /\ (Level - Refill) + ((n + 1) - i + 1) * Refill <= Full + now - acquired'[i]
  <2> DEFINE spent == (n - i + 1) * Refill
  <2>1. spent \in Int /\ ((n + 1) - i + 1) * Refill = spent + Refill
    BY <1>3, FullType, OneMore
  <2>2. CASE i \in 1..n
    <3>1. acquired'[i] = acquired[i] /\ acquired[i] \in Nat
      BY <1>3, <2>2
    <3>2. acquired[i] <= now /\ Level + spent <= Full + now - acquired[i]
      BY <1>4, <2>2
    <3> HIDE DEF spent
    <3>3. (Level - Refill) + (spent + Refill) = Level + spent
      BY <1>1, <2>1, FullType
    <3>4. QED
      BY <2>1, <3>1, <3>2, <3>3
  <2>3. CASE i = n + 1
    <3>1. spent = 0
      BY <1>3, <2>3, FullType
    <3>2. acquired'[i] = now
      BY <1>3, <2>3
    <3> HIDE DEF spent
    <3>3. QED
      BY <1>1, <2>1, <3>1, <3>2, FullType DEF BucketInv, BucketTypes
  <2>4. QED
    BY <1>3, <2>2, <2>3
<1>6. Accounted'
  BY <1>3, <1>5 DEF Accounted, Full
<1>7. AcquiresThrottled'
  <2> SUFFICES ASSUME NEW i \in 1..(n + 1), NEW j \in 1..(n + 1), i <= j
               PROVE  (j - i + 1) * Refill <= Full + acquired'[j] - acquired'[i]
    BY <1>3 DEF AcquiresThrottled, Throttled, Full
  <2>1. CASE j \in 1..n
    <3>1. i \in 1..n
      BY <1>3, <2>1
    <3>2. (j - i + 1) * Refill <= Full + acquired[j] - acquired[i]
      <4>1. DOMAIN acquired = 1..n
        BY DEF BucketInv, BucketTypes
      <4>2. i \in DOMAIN acquired /\ j \in DOMAIN acquired
        BY <2>1, <3>1, <4>1
      <4>3. QED
        BY <4>2, Zenon DEF BucketInv, AcquiresThrottled, Throttled
    <3>3. QED
      BY <1>3, <2>1, <3>1, <3>2
  <2>2. CASE j = n + 1
    <3> DEFINE cost == (j - i + 1) * Refill
    <3>1. (Level - Refill) + cost <= Full + now - acquired'[i]
      <4>1. cost = ((n + 1) - i + 1) * Refill
        BY <2>2
      <4>2. QED
        BY <1>5, <4>1
    <3>2. cost \in Int /\ acquired'[i] \in Nat /\ acquired'[j] = now /\ now \in Nat
      BY <1>2, <1>3, <2>2, FullType DEF BucketInv, BucketTypes
    <3> HIDE DEF cost
    <3>3. cost <= Full + acquired'[j] - acquired'[i]
      BY <1>1, <3>1, <3>2, FullType
    <3>4. QED
      BY <3>3 DEF cost
  <2>3. QED
    BY <1>3, <2>1, <2>2
<1>8. QED
  BY <1>2, <1>6, <1>7 DEF BucketInv

LEMMA BucketNext == BucketInv /\ [Next]_vars => BucketInv'
<1> SUFFICES ASSUME BucketInv, [Next]_vars PROVE BucketInv'
  OBVIOUS
<1>1. ASSUME NEW k \in Task, Acquire(k) PROVE BucketInv'
  <2>1. last' = now /\ UNCHANGED now
    BY <1>1 DEF Acquire, Stamp
  <2>2. CASE Level >= Refill
    BY <1>1, <2>1, <2>2, GrantKeeps DEF Acquire
  <2>3. CASE ~(Level >= Refill)
    BY <1>1, <2>1, <2>3, TopUpKeeps DEF Acquire
  <2>4. QED
    BY <2>2, <2>3
<1>2. CASE UNCHANGED <<last, tokens, acquired>> /\ now' \in {now, now + 1}
  <2>1. BucketTypes'
    BY <1>2, FullType DEF BucketInv, BucketTypes, Full
  <2>2. Accounted' /\ AcquiresThrottled'
    BY <1>2 DEF BucketInv, Accounted, AcquiresThrottled, Throttled, Full
  <2>3. QED
    BY <2>1, <2>2 DEF BucketInv
<1>3. ASSUME NEW k \in Task, Request(k) \/ Send(k) \/ Cancel(k)
      PROVE  UNCHANGED <<now, last, tokens, acquired>>
  BY <1>3 DEF Request, Send, Cancel
<1>4. CASE Pass \/ UNCHANGED vars
  BY <1>2, <1>4 DEF Pass, vars
<1>5. QED
  BY <1>1, <1>2, <1>3, <1>4 DEF Next

LEMMA BucketInvariant == Spec => []BucketInv
  BY BucketInit, BucketNext, PTL DEF Spec

\* In any stretch of time the bucket grants no more than its burst and what the
\* rate adds, for every burst, rate and number of tasks (client.py:28-39).
THEOREM AcquiresAlwaysThrottled == Spec => []AcquiresThrottled
<1>1. BucketInv => AcquiresThrottled
  BY DEF BucketInv
<1>2. QED
  BY <1>1, BucketInvariant, PTL

-----------------------------------------------------------------------------
\* The queue for the lock.
QueueTypes ==
  /\ pc \in [Task -> {"idle", "queued", "asleep", "send"}]
  /\ queue \in Seq(Task) /\ due \in Nat

QueueInv == QueueTypes /\ QueueIsWaiters

\* Who is in a queue, and who is its head.
LEMMA QueueFacts ==
  ASSUME QueueTypes
  PROVE  /\ Len(queue) \in Nat /\ DOMAIN queue = 1..Len(queue)
         /\ \A i \in 1..Len(queue) : queue[i] \in Task
         /\ Head(queue) = queue[1]
<1>1. queue \in Seq(Task)
  BY DEF QueueTypes
<1>2. Len(queue) \in Nat /\ queue \in [1..Len(queue) -> Task]
  BY <1>1, LenProperties
<1>3. QED
  BY <1>2

\* One entry taken out of a sequence.
LEMMA RemoveAtProperties ==
  ASSUME NEW S, NEW s \in Seq(S), NEW i \in 1..Len(s)
  PROVE  LET r == RemoveAt(s, i)
         IN /\ r \in Seq(S) /\ Len(r) = Len(s) - 1
            /\ \A j \in 1..Len(r) : r[j] = IF j < i THEN s[j] ELSE s[j + 1]
<1>1. Len(s) \in Nat /\ i \in Nat /\ 1 <= i /\ i <= Len(s) /\ \A j \in 1..Len(s) : s[j] \in S
  BY LenProperties
<1> DEFINE a == SubSeq(s, 1, i - 1)
           b == SubSeq(s, i + 1, Len(s))
<1>2. a \in Seq(S) /\ Len(a) = i - 1 /\ \A j \in 1..(i - 1) : a[j] = s[j]
  <2>1. 1 \in Int /\ i - 1 \in Int /\ \A j \in 1..(i - 1) : s[j] \in S
    BY <1>1
  <2>2. /\ a \in Seq(S)
        /\ Len(a) = IF 1 <= i - 1 THEN (i - 1) - 1 + 1 ELSE 0
        /\ \A j \in 1..((i - 1) - 1 + 1) : a[j] = s[1 + j - 1]
    BY <2>1, SubSeqProperties
  <2>3. \A j \in 1..(i - 1) : j \in 1..((i - 1) - 1 + 1) /\ 1 + j - 1 = j
    BY <1>1
  <2> HIDE DEF a
  <2>4. QED
    BY <1>1, <2>2, <2>3
<1>3. b \in Seq(S) /\ Len(b) = Len(s) - i /\ \A j \in 1..(Len(s) - i) : b[j] = s[i + j]
  <2>1. i + 1 \in Int /\ Len(s) \in Int /\ \A j \in (i + 1)..Len(s) : s[j] \in S
    BY <1>1
  <2>2. /\ b \in Seq(S)
        /\ Len(b) = IF i + 1 <= Len(s) THEN Len(s) - (i + 1) + 1 ELSE 0
        /\ \A j \in 1..(Len(s) - (i + 1) + 1) : b[j] = s[(i + 1) + j - 1]
    BY <2>1, SubSeqProperties
  <2>3. \A j \in 1..(Len(s) - i) :
          j \in 1..(Len(s) - (i + 1) + 1) /\ (i + 1) + j - 1 = i + j
    BY <1>1
  <2> HIDE DEF b
  <2>4. QED
    BY <1>1, <2>2, <2>3
<1> HIDE DEF a, b
<1>4. /\ a \o b \in Seq(S) /\ Len(a \o b) = Len(a) + Len(b)
      /\ \A j \in 1..(Len(a) + Len(b)) :
           (a \o b)[j] = IF j <= Len(a) THEN a[j] ELSE b[j - Len(a)]
  BY <1>2, <1>3, ConcatProperties
<1>5. \A j \in 1..(Len(s) - 1) : (a \o b)[j] = IF j < i THEN s[j] ELSE s[j + 1]
  <2> SUFFICES ASSUME NEW j \in 1..(Len(s) - 1)
               PROVE  (a \o b)[j] = IF j < i THEN s[j] ELSE s[j + 1]
    OBVIOUS
  <2>1. (a \o b)[j] = IF j <= Len(a) THEN a[j] ELSE b[j - Len(a)]
    BY <1>1, <1>2, <1>3, <1>4
  <2>2. CASE j < i
    BY <1>1, <1>2, <2>1, <2>2
  <2>3. CASE ~(j < i)
    <3>1. j - (i - 1) \in 1..(Len(s) - i) /\ i + (j - (i - 1)) = j + 1 /\ ~(j <= i - 1)
      BY <1>1, <2>3
    <3>2. QED
      BY <1>2, <1>3, <2>1, <2>3, <3>1
  <2>4. QED
    BY <2>2, <2>3
<1>6. Len(a \o b) = Len(s) - 1
  BY <1>1, <1>2, <1>3, <1>4
<1>7. RemoveAt(s, i) = a \o b
  BY DEF RemoveAt, a, b
<1>8. QED
  BY <1>4, <1>5, <1>6, <1>7

LEMMA QueueRequest ==
  ASSUME QueueInv, NEW k \in Task, Request(k)
  PROVE  QueueInv'
<1> DEFINE n == Len(queue)
<1>1. /\ pc[k] = "idle" /\ queue' = Append(queue, k)
      /\ pc' = [pc EXCEPT ![k] = "queued"] /\ UNCHANGED <<due, last>>
  BY DEF Request
<1>2. QueueTypes /\ QueueIsWaiters
  BY DEF QueueInv
<1>3. n \in Nat /\ DOMAIN queue = 1..n /\ Head(queue) = queue[1]
  BY <1>2, QueueFacts
<1>4. /\ queue' \in Seq(Task) /\ Len(queue') = n + 1
      /\ \A i \in 1..n : queue'[i] = queue[i]
      /\ queue'[n + 1] = k
  BY <1>1, <1>2, AppendProperties DEF QueueTypes
<1>5. QueueTypes'
  BY <1>1, <1>2, <1>4 DEF QueueTypes
<1>6. Len(queue') \in Nat /\ DOMAIN queue' = 1..(n + 1) /\ Head(queue') = queue'[1]
  <2>1. (Len(queue) \in Nat /\ DOMAIN queue = 1..Len(queue) /\ Head(queue) = queue[1])'
    BY <1>5, QueueFacts DEF QueueTypes
  <2>2. QED
    BY <1>4, <2>1
<1> HIDE DEF n
<1>7. \A j \in Task : pc'[j] = IF j = k THEN "queued" ELSE pc[j]
  BY <1>1, <1>2 DEF QueueTypes
<1>8. \A i \in 1..n : queue[i] # k
  BY <1>1, <1>2, <1>3 DEF QueueIsWaiters
<1>9. ASSUME NEW j \in Task
      PROVE  pc'[j] \in {"queued", "asleep"} <=> \E i \in DOMAIN queue' : queue'[i] = j
  <2>1. CASE j = k
    BY <1>3, <1>4, <1>6, <1>7, <2>1
  <2>2. CASE j # k
    <3>1. pc'[j] = pc[j]
      BY <1>7, <2>2
    <3>2. (\E i \in 1..n : queue[i] = j) <=> \E i \in 1..(n + 1) : queue'[i] = j
      BY <1>3, <1>4, <2>2
    <3>3. QED
      BY <1>2, <1>3, <1>6, <3>1, <3>2 DEF QueueIsWaiters
  <2>3. QED
    BY <2>1, <2>2
<1>10. ASSUME NEW i \in DOMAIN queue', NEW j \in DOMAIN queue', queue'[i] = queue'[j]
       PROVE  i = j
  BY <1>2, <1>3, <1>4, <1>6, <1>8, <1>10 DEF QueueIsWaiters
<1>11. ASSUME NEW j \in Task, pc'[j] = "asleep"
       PROVE  Head(queue') = j /\ due' <= last' + Refill
  <2>1. pc[j] = "asleep" /\ j # k
    BY <1>7, <1>11
  <2>2. Head(queue) = j /\ due <= last + Refill /\ \E i \in DOMAIN queue : queue[i] = j
    BY <1>2, <2>1 DEF QueueIsWaiters
  <2>3. queue'[1] = queue[1]
    BY <1>3, <1>4, <2>2
  <2>4. QED
    BY <1>1, <1>3, <1>6, <2>2, <2>3
<1>12. QED
  BY <1>5, <1>9, <1>10, <1>11 DEF QueueInv, QueueIsWaiters

\* The head of the queue takes its token and lets go of the lock, or sleeps for
\* what is missing of one.
LEMMA QueueAcquire ==
  ASSUME BucketInv, QueueInv, NEW k \in Task, Acquire(k)
  PROVE  QueueInv'
<1> DEFINE n == Len(queue)
<1>1. /\ pc[k] \in {"queued", "asleep"} /\ queue # <<>> /\ Head(queue) = k
      /\ last' = now /\ now' = now
  BY DEF Acquire, Stamp
<1>2. QueueTypes /\ QueueIsWaiters
  BY DEF QueueInv
<1>3. n \in Nat /\ DOMAIN queue = 1..n /\ Head(queue) = queue[1]
  BY <1>2, QueueFacts
<1>4. \A j \in Task : pc[j] = "asleep" => j = k
  BY <1>1, <1>2 DEF QueueIsWaiters
<1>5. CASE Level >= Refill
  <2>1. queue' = Tail(queue) /\ pc' = [pc EXCEPT ![k] = "send"] /\ due' = due
    BY <1>5 DEF Acquire
  <2>2. /\ queue' \in Seq(Task) /\ Len(queue') = n - 1
        /\ \A i \in 1..(n - 1) : queue'[i] = queue[i + 1]
    BY <1>1, <1>2, <2>1, HeadTailProperties DEF QueueTypes
  <2>3. QueueTypes'
    BY <1>2, <2>1, <2>2 DEF QueueTypes
  <2>4. DOMAIN queue' = 1..(n - 1)
    BY <2>2, LenProperties
  <2>5. n >= 1
    BY <1>1, <1>2, <1>3, EmptySeq DEF QueueTypes
  <2> HIDE DEF n
  <2>6. \A j \in Task : pc'[j] = IF j = k THEN "send" ELSE pc[j]
    BY <1>2, <2>1 DEF QueueTypes
  <2>7. ASSUME NEW j \in Task
        PROVE  pc'[j] \in {"queued", "asleep"} <=> \E i \in DOMAIN queue' : queue'[i] = j
    <3>1. CASE j = k
      <4>1. ASSUME NEW i \in 1..(n - 1), queue'[i] = k PROVE FALSE
        <5>1. i + 1 \in 1..n /\ queue[i + 1] = k /\ 1 \in 1..n /\ queue[1] = k /\ i + 1 # 1
          BY <1>1, <1>3, <2>2, <2>5, <4>1
        <5>2. QED
          BY <1>2, <1>3, <5>1 DEF QueueIsWaiters
      <4>2. QED
        BY <2>4, <2>6, <3>1, <4>1
    <3>2. CASE j # k
      <4>1. (\E i \in 1..n : queue[i] = j) <=> \E i \in 1..(n - 1) : queue'[i] = j
        <5>1. ASSUME NEW i \in 1..n, queue[i] = j
              PROVE  \E m \in 1..(n - 1) : queue'[m] = j
          <6>1. i # 1
            BY <1>1, <1>3, <3>2, <5>1
          <6>2. i - 1 \in 1..(n - 1) /\ (i - 1) + 1 = i
            BY <1>3, <6>1
          <6>3. QED
            BY <2>2, <5>1, <6>2
        <5>2. ASSUME NEW i \in 1..(n - 1), queue'[i] = j
              PROVE  \E m \in 1..n : queue[m] = j
          <6>1. i + 1 \in 1..n
            BY <1>3
          <6>2. QED
            BY <2>2, <5>2, <6>1
        <5>3. QED
          BY <5>1, <5>2
      <4>2. QED
        BY <1>2, <1>3, <2>4, <2>6, <3>2, <4>1 DEF QueueIsWaiters
    <3>3. QED
      BY <3>1, <3>2
  <2>8. ASSUME NEW i \in DOMAIN queue', NEW j \in DOMAIN queue', queue'[i] = queue'[j]
        PROVE  i = j
    <3>1. i + 1 \in 1..n /\ j + 1 \in 1..n /\ queue[i + 1] = queue[j + 1]
      BY <1>3, <2>2, <2>4, <2>8
    <3>2. i + 1 = j + 1
      BY <1>2, <1>3, <3>1 DEF QueueIsWaiters
    <3>3. QED
      BY <2>4, <3>2
  <2>9. \A j \in Task : pc'[j] # "asleep"
    BY <1>4, <2>6
  <2>10. QED
    BY <2>3, <2>7, <2>8, <2>9 DEF QueueInv, QueueIsWaiters
<1>6. CASE ~(Level >= Refill)
  <2>1. queue' = queue /\ pc' = [pc EXCEPT ![k] = "asleep"] /\ due' = now + (Refill - Level)
    BY <1>6 DEF Acquire
  <2>2. Level \in Nat /\ now \in Nat
    BY LevelBounds DEF BucketInv, BucketTypes
  <2>3. due' \in Nat /\ due' <= last' + Refill
    BY <1>1, <1>6, <2>1, <2>2, FullType
  <2>4. QueueTypes'
    BY <1>2, <2>1, <2>3 DEF QueueTypes
  <2>5. \A j \in Task : pc'[j] = IF j = k THEN "asleep" ELSE pc[j]
    BY <1>2, <2>1 DEF QueueTypes
  <2>6. \A j \in Task :
          pc'[j] \in {"queued", "asleep"} <=> \E i \in DOMAIN queue' : queue'[i] = j
    BY <1>1, <1>2, <2>1, <2>5 DEF QueueIsWaiters
  <2>7. \A i, j \in DOMAIN queue' : queue'[i] = queue'[j] => i = j
    BY <1>2, <2>1 DEF QueueIsWaiters
  <2>8. \A j \in Task : pc'[j] = "asleep" => Head(queue') = j
    BY <1>1, <1>4, <2>1, <2>5
  <2>9. QED
    BY <2>3, <2>4, <2>6, <2>7, <2>8 DEF QueueInv, QueueIsWaiters
<1>7. QED
  BY <1>5, <1>6

\* A canceled task is gone from the queue, and the rest keep their order.
LEMMA QueueCancel ==
  ASSUME QueueInv, NEW k \in Task, Cancel(k)
  PROVE  QueueInv'
<1> DEFINE n == Len(queue)
<1>1. pc' = [pc EXCEPT ![k] = "idle"] /\ UNCHANGED <<due, last>>
  BY DEF Cancel
<1>2. QueueTypes /\ QueueIsWaiters
  BY DEF QueueInv
<1>3. n \in Nat /\ DOMAIN queue = 1..n /\ Head(queue) = queue[1]
  BY <1>2, QueueFacts
<1>4. \A j \in Task : pc'[j] = IF j = k THEN "idle" ELSE pc[j]
  BY <1>1, <1>2 DEF QueueTypes
<1>5. CASE pc[k] = "send" /\ UNCHANGED queue
  <2>1. QueueTypes'
    BY <1>1, <1>2, <1>5 DEF QueueTypes
  <2>2. \A j \in Task :
          pc'[j] \in {"queued", "asleep"} <=> \E i \in DOMAIN queue' : queue'[i] = j
    BY <1>2, <1>4, <1>5 DEF QueueIsWaiters
  <2>3. \A j \in Task : pc'[j] = "asleep" => Head(queue') = j /\ due' <= last' + Refill
    BY <1>1, <1>2, <1>4, <1>5 DEF QueueIsWaiters
  <2>4. QED
    BY <1>2, <1>5, <2>1, <2>2, <2>3 DEF QueueInv, QueueIsWaiters
<1>6. ASSUME NEW m \in DOMAIN queue, queue[m] = k, queue' = RemoveAt(queue, m)
      PROVE  QueueInv'
  <2>1. m \in 1..n
    BY <1>3
  <2>2. /\ queue' \in Seq(Task) /\ Len(queue') = n - 1
        /\ \A i \in 1..(n - 1) : queue'[i] = IF i < m THEN queue[i] ELSE queue[i + 1]
    BY <1>2, <1>6, <2>1, RemoveAtProperties DEF QueueTypes
  <2>3. QueueTypes'
    BY <1>1, <1>2, <2>2 DEF QueueTypes
  <2>4. DOMAIN queue' = 1..(n - 1) /\ Head(queue') = queue'[1]
    BY <2>2, LenProperties
  <2> HIDE DEF n
  <2>5. \A i \in 1..n : queue[i] = k => i = m
    BY <1>2, <1>3, <1>6, <2>1 DEF QueueIsWaiters
\* Where each entry of the new queue stood, and where each old one went.
  <2> DEFINE Old(i) == IF i < m THEN i ELSE i + 1
             New(i) == IF i < m THEN i ELSE i - 1
  <2>6. \A i \in 1..(n - 1) : Old(i) \in 1..n /\ Old(i) # m /\ queue'[i] = queue[Old(i)]
    BY <1>3, <2>1, <2>2
  <2>7. \A i \in 1..n : i # m => New(i) \in 1..(n - 1) /\ Old(New(i)) = i
    BY <1>3, <2>1
  <2>8. \A i, j \in 1..(n - 1) : Old(i) = Old(j) => i = j
    BY <1>3, <2>1
  <2>9. \A i \in 1..n : i # m => queue'[New(i)] = queue[i]
    BY <2>6, <2>7
  <2> HIDE DEF Old, New
  <2>10. ASSUME NEW j \in Task
         PROVE  pc'[j] \in {"queued", "asleep"} <=> \E i \in DOMAIN queue' : queue'[i] = j
    <3>1. CASE j = k
      <4>1. \A i \in 1..(n - 1) : queue'[i] # k
        BY <2>5, <2>6
      <4>2. QED
        BY <1>4, <2>4, <3>1, <4>1
    <3>2. CASE j # k
      <4>1. (\E i \in 1..n : queue[i] = j) => \E i \in 1..(n - 1) : queue'[i] = j
        BY <1>6, <2>7, <2>9, <3>2
      <4>2. (\E i \in 1..(n - 1) : queue'[i] = j) => \E i \in 1..n : queue[i] = j
        BY <2>6
      <4>3. QED
        BY <1>2, <1>3, <1>4, <2>4, <3>2, <4>1, <4>2 DEF QueueIsWaiters
    <3>3. QED
      BY <3>1, <3>2
  <2>11. ASSUME NEW i \in DOMAIN queue', NEW j \in DOMAIN queue', queue'[i] = queue'[j]
         PROVE  i = j
    BY <1>2, <1>3, <2>4, <2>6, <2>8, <2>11 DEF QueueIsWaiters
  <2>12. ASSUME NEW j \in Task, pc'[j] = "asleep"
         PROVE  Head(queue') = j /\ due' <= last' + Refill
    <3>1. pc[j] = "asleep" /\ j # k
      BY <1>4, <2>12
    <3>2. Head(queue) = j /\ due <= last + Refill
      BY <1>2, <3>1 DEF QueueIsWaiters
    <3>3. queue[1] = j /\ m # 1
      BY <1>3, <1>6, <3>1, <3>2
    <3>4. 1 \in 1..(n - 1) /\ 1 < m
      BY <1>3, <2>1, <3>3
    <3>5. queue'[1] = queue[1]
      BY <2>2, <3>4
    <3>6. QED
      BY <1>1, <2>4, <3>2, <3>3, <3>5
  <2>13. QED
    BY <2>3, <2>10, <2>11, <2>12 DEF QueueInv, QueueIsWaiters
<1>7. QED
  BY <1>5, <1>6 DEF Cancel

LEMMA QueueNext == BucketInv /\ QueueInv /\ [Next]_vars => QueueInv'
<1> SUFFICES ASSUME BucketInv, QueueInv, [Next]_vars PROVE QueueInv'
  OBVIOUS
<1>1. ASSUME NEW k \in Task, Send(k) PROVE QueueInv'
  <2>1. /\ pc[k] = "send" /\ UNCHANGED <<queue, due, last>>
        /\ pc' = [pc EXCEPT ![k] = "idle"] \/ pc' = pc
    BY <1>1 DEF Send
  <2>2. QueueTypes'
    BY <2>1 DEF QueueInv, QueueTypes
  <2>3. \A j \in Task : pc'[j] = pc[j] \/ (j = k /\ pc'[j] = "idle" /\ pc[j] = "send")
    <3>1. pc \in [Task -> {"idle", "queued", "asleep", "send"}]
      BY DEF QueueInv, QueueTypes
    <3>2. QED
      BY <2>1, <3>1
  <2>4. QED
    BY <2>1, <2>2, <2>3 DEF QueueInv, QueueIsWaiters
<1>2. CASE Pass \/ UNCHANGED vars
  BY <1>2 DEF Pass, vars, QueueInv, QueueTypes, QueueIsWaiters
<1>3. QED
  BY <1>1, <1>2, QueueRequest, QueueAcquire, QueueCancel DEF Next

LEMMA QueueInit == Init => QueueInv
<1> SUFFICES ASSUME Init PROVE QueueInv
  OBVIOUS
<1>1. QueueTypes
  BY EmptySeq DEF Init, QueueTypes
<1>2. DOMAIN queue = {}
  BY DEF Init
<1>3. QED
  BY <1>1, <1>2 DEF Init, QueueInv, QueueIsWaiters

LEMMA QueueInvariant == Spec => []QueueInv
  BY QueueInit, QueueNext, BucketInvariant, PTL DEF Spec

\* No waiter is left behind a task that is gone, and its head sleeps no longer
\* than one token takes, for any number of tasks canceled at any await
\* (client.py:29-39).
THEOREM QueueAlwaysWaiters == Spec => []QueueIsWaiters
<1>1. QueueInv => QueueIsWaiters
  BY DEF QueueInv
<1>2. QED
  BY <1>1, QueueInvariant, PTL

-----------------------------------------------------------------------------
\* What goes out.  The attempts that a request in progress still has are
\* counted with those it has sent, so that each token stands for SendAttempts.
ToSend == [k \in Task |-> IF pc[k] = "send" THEN SendAttempts - attempts[k] ELSE 0]

SendTypes ==
  /\ pc \in [Task -> {"idle", "queued", "asleep", "send"}]
  /\ attempts \in [Task -> 0..SendAttempts]
  /\ sent \in Nat /\ Len(acquired) \in Nat

SendInv ==
  /\ SendTypes
  /\ \A k \in Task : pc[k] = "send" => attempts[k] < SendAttempts
  /\ sent + SumOf(ToSend, Task) <= SendAttempts * Len(acquired)

LEMMA ToSendType == SendTypes => NatOn(ToSend, Task) /\ SumOf(ToSend, Task) \in Nat
<1> SUFFICES ASSUME SendTypes PROVE NatOn(ToSend, Task) /\ SumOf(ToSend, Task) \in Nat
  OBVIOUS
<1>1. NatOn(ToSend, Task)
  BY SendAssumption DEF SendTypes, NatOn, ToSend
<1>2. QED
  BY <1>1, SumType, TaskAssumption

\* A step of task k that moves at most what k has left and what its token brings
\* to what is sent.
LEMMA SendTrade ==
  ASSUME SendInv, SendTypes', NEW k \in Task, NEW tokensMore \in {0, 1},
         \A j \in Task \ {k} : pc'[j] = pc[j] /\ attempts'[j] = attempts[j],
         pc'[k] = "send" => attempts'[k] < SendAttempts,
         Len(acquired') = Len(acquired) + tokensMore,
         sent' + ToSend'[k] <= sent + SendAttempts * tokensMore + ToSend[k]
  PROVE  SendInv'
<1> DEFINE f == ToSend
           g == ToSend'
           more == SendAttempts * tokensMore
<1>1. NatOn(f, Task) /\ SumOf(f, Task) \in Nat
  BY ToSendType DEF SendInv
<1>2. NatOn(g, Task) /\ SumOf(g, Task) \in Nat
  <2>1. (SendTypes => NatOn(ToSend, Task) /\ SumOf(ToSend, Task) \in Nat)'
    BY ToSendType, PTL
  <2>2. QED
    BY <2>1 DEF NatOn, SumOf, Units
<1>3. \A j \in Task \ {k} : f[j] = g[j]
  BY DEF ToSend
<1>4. more \in Nat
  BY SendAssumption
<1>5. sent \in Nat /\ sent' \in Nat /\ Len(acquired) \in Nat
  BY DEF SendInv, SendTypes
<1>6. SendAttempts * (Len(acquired) + tokensMore) = SendAttempts * Len(acquired) + more
  BY <1>5, SendAssumption
<1>7. sent' + g[k] <= sent + more + f[k]
  OBVIOUS
<1> HIDE DEF f, g, more
<1>8. sent' + SumOf(g, Task) <= (sent + more) + SumOf(f, Task)
  <2>1. sent + more \in Nat
    BY <1>4, <1>5
  <2>2. QED
    BY <1>1, <1>2, <1>3, <1>5, <1>7, <2>1, TaskAssumption, SumTrade
<1>9. sent + SumOf(f, Task) <= SendAttempts * Len(acquired)
  BY DEF SendInv, f
<1>10. sent' + SumOf(g, Task) <= SendAttempts * Len(acquired')
  <2> DEFINE bound == SendAttempts * Len(acquired)
  <2>1. bound \in Nat
    BY <1>5, SendAssumption
  <2>2. SendAttempts * Len(acquired') = bound + more
    BY <1>6
  <2> HIDE DEF bound
  <2>3. sent + SumOf(f, Task) <= bound
    BY <1>9 DEF bound
  <2>4. QED
    BY <1>1, <1>2, <1>4, <1>5, <1>8, <2>1, <2>2, <2>3
<1>11. \A j \in Task : pc'[j] = "send" => attempts'[j] < SendAttempts
  BY DEF SendInv
<1>12. QED
  BY <1>10, <1>11 DEF SendInv, SumOf, Units, g

LEMMA SendNext == BucketInv /\ SendInv /\ [Next]_vars => SendInv'
<1> SUFFICES ASSUME BucketInv, SendInv, [Next]_vars PROVE SendInv'
  OBVIOUS
<1>1. SendTypes
  BY DEF SendInv
<1>2. \A k \in Task : attempts[k] \in Nat /\ ToSend[k] \in Nat
  BY <1>1, ToSendType DEF SendTypes, NatOn
<1>3. ASSUME NEW k \in Task, Request(k) PROVE SendInv'
  <2>1. /\ pc[k] = "idle" /\ pc' = [pc EXCEPT ![k] = "queued"]
        /\ UNCHANGED <<attempts, acquired, sent>>
    BY <1>3 DEF Request
  <2>2. SendTypes'
    BY <1>1, <2>1 DEF SendTypes
  <2>3. /\ pc'[k] = "queued" /\ ToSend[k] = 0 /\ ToSend'[k] = 0
        /\ \A j \in Task \ {k} : pc'[j] = pc[j] /\ attempts'[j] = attempts[j]
    BY <1>1, <2>1 DEF SendTypes, ToSend
  <2>4. /\ Len(acquired') = Len(acquired) + 0
        /\ sent' + ToSend'[k] <= sent + SendAttempts * 0 + ToSend[k]
    BY <1>1, <2>1, <2>3, SendAssumption DEF SendTypes
  <2>5. QED
    BY <2>2, <2>3, <2>4, SendTrade
<1>4. ASSUME NEW k \in Task, Acquire(k), Level >= Refill PROVE SendInv'
  <2>1. /\ pc[k] \in {"queued", "asleep"} /\ pc' = [pc EXCEPT ![k] = "send"]
        /\ attempts' = [attempts EXCEPT ![k] = 0] /\ acquired' = Append(acquired, now)
        /\ sent' = sent
    BY <1>4 DEF Acquire
  <2>2. Len(acquired') = Len(acquired) + 1 /\ Len(acquired') \in Nat
    BY <2>1 DEF BucketInv, BucketTypes
  <2>3. SendTypes'
    BY <1>1, <2>1, <2>2, SendAssumption DEF SendTypes
  <2>4. /\ pc'[k] = "send" /\ attempts'[k] = 0 /\ ToSend[k] = 0
        /\ \A j \in Task \ {k} : pc'[j] = pc[j] /\ attempts'[j] = attempts[j]
    BY <1>1, <2>1 DEF SendTypes, ToSend
  <2>5. ToSend'[k] = SendAttempts
    BY <2>4, SendAssumption DEF ToSend
  <2>6. sent' + ToSend'[k] <= sent + SendAttempts * 1 + ToSend[k]
    BY <1>1, <2>1, <2>4, <2>5, SendAssumption DEF SendTypes
  <2>7. attempts'[k] < SendAttempts
    BY <2>4, SendAssumption
  <2>8. QED
    BY <2>2, <2>3, <2>4, <2>6, <2>7, SendTrade
<1>5. ASSUME NEW k \in Task, Acquire(k), ~(Level >= Refill) PROVE SendInv'
  <2>1. /\ pc[k] \in {"queued", "asleep"} /\ pc' = [pc EXCEPT ![k] = "asleep"]
        /\ UNCHANGED <<attempts, acquired, sent>>
    BY <1>5 DEF Acquire
  <2>2. SendTypes'
    BY <1>1, <2>1 DEF SendTypes
  <2>3. /\ pc'[k] = "asleep" /\ ToSend[k] = 0 /\ ToSend'[k] = 0
        /\ \A j \in Task \ {k} : pc'[j] = pc[j] /\ attempts'[j] = attempts[j]
    BY <1>1, <2>1 DEF SendTypes, ToSend
  <2>4. /\ Len(acquired') = Len(acquired) + 0
        /\ sent' + ToSend'[k] <= sent + SendAttempts * 0 + ToSend[k]
    BY <1>1, <2>1, <2>3, SendAssumption DEF SendTypes
  <2>5. QED
    BY <2>2, <2>3, <2>4, SendTrade
<1>6. ASSUME NEW k \in Task, Send(k) PROVE SendInv'
  <2>1. /\ pc[k] = "send" /\ attempts' = [attempts EXCEPT ![k] = @ + 1]
        /\ sent' = sent + 1 /\ acquired' = acquired
        /\ \/ pc' = [pc EXCEPT ![k] = "idle"]
           \/ attempts[k] + 1 < SendAttempts /\ pc' = pc
    BY <1>6 DEF Send
  <2>2. attempts[k] < SendAttempts /\ attempts[k] \in Nat
    BY <1>2, <2>1 DEF SendInv
  <2>3. /\ attempts'[k] = attempts[k] + 1
        /\ \A j \in Task \ {k} : pc'[j] = pc[j] /\ attempts'[j] = attempts[j]
    BY <1>1, <2>1 DEF SendTypes
  <2>4. attempts[k] + 1 \in 0..SendAttempts
    BY <2>2, SendAssumption
  <2>5. SendTypes'
    BY <1>1, <2>1, <2>4 DEF SendTypes
  <2>6. \/ pc'[k] = "idle"
        \/ pc'[k] = "send" /\ attempts[k] + 1 < SendAttempts
    BY <1>1, <2>1 DEF SendTypes
  <2>7. ToSend[k] = SendAttempts - attempts[k]
    BY <2>1 DEF ToSend
  <2>8. ToSend'[k] = 0 \/ ToSend'[k] = SendAttempts - (attempts[k] + 1)
    BY <2>3, <2>6 DEF ToSend
  <2>9. /\ Len(acquired') = Len(acquired) + 0
        /\ sent' + ToSend'[k] <= sent + SendAttempts * 0 + ToSend[k]
    BY <1>1, <2>1, <2>2, <2>7, <2>8, SendAssumption DEF SendTypes
  <2>10. pc'[k] = "send" => attempts'[k] < SendAttempts
    BY <2>3, <2>6
  <2>11. QED
    BY <2>3, <2>5, <2>9, <2>10, SendTrade
<1>7. ASSUME NEW k \in Task, Cancel(k) PROVE SendInv'
  <2>1. pc' = [pc EXCEPT ![k] = "idle"] /\ UNCHANGED <<attempts, acquired, sent>>
    BY <1>7 DEF Cancel
  <2>2. SendTypes'
    BY <1>1, <2>1 DEF SendTypes
  <2>3. /\ pc'[k] = "idle" /\ ToSend'[k] = 0
        /\ \A j \in Task \ {k} : pc'[j] = pc[j] /\ attempts'[j] = attempts[j]
    BY <1>1, <2>1 DEF SendTypes, ToSend
  <2>4. /\ Len(acquired') = Len(acquired) + 0
        /\ sent' + ToSend'[k] <= sent + SendAttempts * 0 + ToSend[k]
    BY <1>1, <1>2, <2>1, <2>3, SendAssumption DEF SendTypes
  <2>5. QED
    BY <2>2, <2>3, <2>4, SendTrade
<1>8. CASE Pass \/ UNCHANGED vars
  BY <1>8 DEF Pass, vars, SendInv, SendTypes, ToSend
<1>9. QED
  BY <1>3, <1>4, <1>5, <1>6, <1>7, <1>8 DEF Next

LEMMA SendInit == Init => SendInv
<1> SUFFICES ASSUME Init PROVE SendInv
  OBVIOUS
<1>1. Len(acquired) = 0
  BY DEF Init
<1>2. SendTypes
  BY <1>1, SendAssumption DEF Init, SendTypes
<1>3. \A k \in Task : ToSend[k] = 0 /\ pc[k] # "send"
  BY DEF Init, ToSend
<1>4. SumOf(ToSend, Task) = 0
  <2> DEFINE f == ToSend
  <2>1. NatOn(f, Task) /\ \A k \in Task : 0 <= f[k] /\ f[k] <= 0
    BY <1>3 DEF NatOn
  <2> HIDE DEF f
  <2>2. SumOf(f, Task) <= Cardinality(Task) * 0
    BY <2>1, TaskAssumption, SumBetween
  <2>3. SumOf(f, Task) \in Nat /\ Cardinality(Task) \in Nat
    BY <2>1, TaskAssumption, SumType, FS_CardinalityType
  <2>4. QED
    BY <2>2, <2>3 DEF f
<1>5. sent + SumOf(ToSend, Task) <= SendAttempts * Len(acquired)
  BY <1>1, <1>4, SendAssumption DEF Init
<1>6. QED
  BY <1>2, <1>3, <1>5 DEF SendInv

LEMMA SendInvariant == Spec => []SendInv
  BY SendInit, SendNext, BucketInvariant, PTL DEF Spec

\* A product keeps the order of its factors.
LEMMA ProductOrder ==
  ASSUME NEW a \in Nat, NEW b \in Nat, NEW c \in Nat, a <= b
  PROVE  a * c <= b * c /\ c * a <= c * b
  OBVIOUS

\* The tokens granted by now fit the burst and what the rate has added.
LEMMA TokensBounded == BucketInv => Len(acquired) * Refill <= Full + now
<1> SUFFICES ASSUME BucketInv PROVE Len(acquired) * Refill <= Full + now
  OBVIOUS
<1> DEFINE n == Len(acquired)
<1>1. n \in Nat /\ now \in Nat /\ last \in Nat /\ last <= now /\ tokens \in Nat
  BY DEF BucketInv, BucketTypes
<1>2. CASE n = 0
  BY <1>1, <1>2, FullType
<1>3. CASE n # 0
  <2>1. 1 \in 1..n /\ acquired[1] \in Nat
    BY <1>1, <1>3 DEF BucketInv, BucketTypes
  <2> DEFINE cost == n * Refill
  <2>2. cost \in Nat /\ (n - 1 + 1) * Refill = cost
    BY <1>1, FullType
  <2>3. tokens + (n - 1 + 1) * Refill <= Full + last - acquired[1]
    BY <2>1 DEF BucketInv, Accounted
  <2> HIDE DEF n, cost
  <2>4. cost <= Full + now
    BY <1>1, <2>1, <2>2, <2>3, FullType
  <2>5. QED
    BY <2>4 DEF cost, n
<1>4. QED
  BY <1>2, <1>3

\* Retries take no token, and still no more attempts go out than SendAttempts for
\* every token the bucket has had, for any number of tasks that fail, retry and
\* are canceled (client.py:83-117).
THEOREM SendsAlwaysBounded == Spec => []SendsBounded
<1>1. BucketInv /\ SendInv => SendsBounded
  <2> SUFFICES ASSUME BucketInv, SendInv PROVE SendsBounded
    OBVIOUS
  <2> DEFINE n == Len(acquired)
             room == Full + now
             granted == n * Refill
             all == SendAttempts * n
  <2>1. n \in Nat /\ sent \in Nat /\ now \in Nat /\ room \in Nat
        /\ SendAttempts \in Nat /\ Refill \in Nat
    BY FullType, SendAssumption DEF BucketInv, BucketTypes, SendInv, SendTypes
  <2>2. sent <= all
    <3>1. SumOf(ToSend, Task) \in Nat /\ sent + SumOf(ToSend, Task) <= all
      BY ToSendType DEF SendInv
    <3>2. all \in Nat
      BY <2>1
    <3> HIDE DEF all
    <3>3. QED
      BY <2>1, <3>1, <3>2
  <2>3. granted <= room
    BY TokensBounded
  <2>4. all \in Nat /\ granted \in Nat
    BY <2>1
  <2>5. all * Refill = SendAttempts * granted
    BY <2>1
  <2> HIDE DEF n, room, granted, all
  <2>6. sent * Refill <= all * Refill
    BY <2>1, <2>2, <2>4, ProductOrder
  <2>7. SendAttempts * granted <= SendAttempts * room
    BY <2>1, <2>3, <2>4, ProductOrder
  <2>8. /\ sent * Refill \in Nat /\ all * Refill \in Nat
        /\ SendAttempts * granted \in Nat /\ SendAttempts * room \in Nat
    BY <2>1, <2>4
  <2>9. sent * Refill <= SendAttempts * room
    BY <2>5, <2>6, <2>7, <2>8
  <2>10. QED
    BY <2>9 DEF SendsBounded, room
<1>2. QED
  BY <1>1, BucketInvariant, SendInvariant, PTL

\* The clock keeps to its bound.
ClockBound == now <= MaxTime

\* Every variable has its type, and the clock its bound.
THEOREM TypeCorrect == Spec => []TypeOK
<1>1. Init => ClockBound
  BY BoundsAssumption DEF Init, ClockBound
<1>2. BucketInv /\ ClockBound /\ [Next]_vars => ClockBound'
  <2> SUFFICES ASSUME now \in Nat, now <= MaxTime, [Next]_vars PROVE now' <= MaxTime
    BY DEF BucketInv, BucketTypes, ClockBound
  <2>1. CASE Pass
    BY <2>1, BoundsAssumption DEF Pass
  <2>2. CASE \E k \in Task : Request(k) \/ Acquire(k) \/ Send(k) \/ Cancel(k)
    BY <2>2 DEF Request, Acquire, Send, Cancel
  <2>3. QED
    BY <2>1, <2>2 DEF Next, vars
<1>3. BucketInv /\ QueueInv /\ SendInv /\ ClockBound => TypeOK
  <2> SUFFICES ASSUME BucketInv, QueueInv, SendInv, ClockBound PROVE TypeOK
    OBVIOUS
  <2>1. now \in 0..MaxTime /\ last \in 0..now /\ tokens \in 0..Full
    BY BoundsAssumption, FullType DEF BucketInv, BucketTypes, ClockBound
  <2>2. acquired \in Seq(0..now)
    <3>1. \A i \in 1..Len(acquired) : acquired[i] \in 0..now
      BY <2>1 DEF BucketInv, BucketTypes, Accounted
    <3>2. Len(acquired) \in Nat /\ acquired \in [1..Len(acquired) -> Nat]
      BY LenProperties DEF BucketInv, BucketTypes
    <3>3. acquired \in [1..Len(acquired) -> 0..now]
      BY <3>1, <3>2
    <3>4. QED
      BY <3>2, <3>3, SeqDef
  <2>3. QED
    BY <2>1, <2>2 DEF TypeOK, QueueInv, QueueTypes, SendInv, SendTypes
<1>4. QED
  BY <1>1, <1>2, <1>3, BucketInvariant, QueueInvariant, SendInvariant, PTL DEF Spec
=============================================================================
