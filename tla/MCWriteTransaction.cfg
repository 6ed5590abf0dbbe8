\* Three coroutines, two statements per transaction, a cancellation at any
\* await, COMMIT that may fail, a crash at any point.
CONSTANTS
  t1 = t1
  t2 = t2
  t3 = t3
  NoTask = NoTask
  Task <- ThreeTasks
  NParts = 2
  CancelPoints <- AllAwaits
  CommitMayFail = TRUE
SPECIFICATION FairSpec
INVARIANT OneOwner
INVARIANT OwnWorkOnly
INVARIANT HonestOutcome
PROPERTY ImplementsAtomicWrites
PROPERTY EveryCallEnds
CHECK_DEADLOCK FALSE
