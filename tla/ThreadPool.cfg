\* Three workers, three tasks; main may call threadpool_destroy three times.
CONSTANTS
  t1 = t1
  t2 = t2
  t3 = t3
  NumThreads = 3
  Tasks <- ThreeTasks
  NoTask = NoTask
  MaxDestroys = 3
  CreateMayFail = TRUE
SPECIFICATION FairSpec
INVARIANTS NoLostWakeup FreedQuiescent
PROPERTIES ImplementsTaskPool TasksComplete DestroyReturns
\* The program stops: main need not call anything more.
CHECK_DEADLOCK FALSE
