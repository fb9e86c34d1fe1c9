\* the destroyer stops joining when exiting workers have decremented thread_count below its index.
CONSTANTS
  t1 = t1
  t2 = t2
  t3 = t3
  NumThreads = 2
  Tasks <- TwoTasks
  NoTask = NoTask
  MaxDestroys = 1
  CreateMayFail = FALSE
SPECIFICATION Spec
INVARIANT GracefulDestroyWaits
CHECK_DEADLOCK FALSE
