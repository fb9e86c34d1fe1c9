\* The answer on a long connection cannot be sent: a worker removes its event.
CONSTANTS
  s1 = s1
  s2 = s2
  s3 = s3
  c1 = c1
  c2 = c2
  c3 = c3
  NoSlot = NoSlot
  NoConn = NoConn
  NoRequest = NoRequest
  Requests <- AllRequests
  Traffics <- OnlyBroken
  Slots <- TwoSlots
  Conns <- TwoConns
  LastFd = 2
  SetSize = 4
  NumThreads = 2
SPECIFICATION Spec
INVARIANT CalledWhileValid
SYMMETRY Symmetry
