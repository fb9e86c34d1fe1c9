\* Liveness, and whose errors are answered, with one thread and wrong requests.
CONSTANTS
  s1 = s1
  s2 = s2
  s3 = s3
  c1 = c1
  c2 = c2
  c3 = c3
  NoSlot = NoSlot
  NoConn = NoConn
  NoRequest = NoRequest
  Requests <- AllRequests
  Traffics <- OnlyErring
  Slots <- TwoSlots
  Conns <- TwoConns
  LastFd = 2
  SetSize = 3
  NumThreads = 1
SPECIFICATION FairSpec
INVARIANT AnswerIsOwn
PROPERTY EveryRequestEnds
