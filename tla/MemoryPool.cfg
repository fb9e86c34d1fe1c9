\* Three threads, columns of three and two blocks, and a heap of four more; four blocks are held at most.
CONSTANTS
  t1 = t1
  t2 = t2
  t3 = t3
  Threads <- ThreeThreads
  NumColumns = 2
  Count <- ThreeTwo
  HeapBlocks <- FourHeap
  MaxHeld = 4
SPECIFICATION FairSpec
INVARIANTS NeverTwice NoneLost
PROPERTY MallocReturns
\* The pool may be destroyed.
CHECK_DEADLOCK FALSE
