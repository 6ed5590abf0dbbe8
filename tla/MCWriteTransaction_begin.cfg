\* A cancellation may arrive at BEGIN too.
CONSTANTS
  t1 = t1
  t2 = t2
  t3 = t3
  NoTask = NoTask
  Task <- TwoTasks
  NParts = 2
  CancelPoints <- AllAwaits
  CommitMayFail = FALSE
SPECIFICATION Spec
INVARIANT NoLeakedTransaction
CHECK_DEADLOCK FALSE
