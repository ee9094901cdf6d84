SPECIFICATION Spec
CONSTANTS
  Task <- MCTask
  Capacity = 2
  Refill = 2
  SendAttempts = 2
  MaxTime = 5
  MaxRequests = 4
CHECK_DEADLOCK FALSE
INVARIANTS
  TypeOK
  AcquiresThrottled
  SendsBounded
  QueueIsWaiters
