\* Three threads share two connections at first; a fourth block is there for one too many.
CONSTANTS
  t1 = t1
  t2 = t2
  t3 = t3
  b1 = b1
  b2 = b2
  b3 = b3
  b4 = b4
  NoBlock = NoBlock
  Threads <- ThreeThreads
  Blocks <- FourBlocks
  ConnectCount = 2
  Timeout = 1
  ConnectMayFail = TRUE
SPECIFICATION FairSpec
INVARIANTS OnePlace Bounded
PROPERTY GetReturns
