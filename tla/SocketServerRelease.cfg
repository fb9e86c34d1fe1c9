\* A long connection sends JSON that does not parse.
CONSTANTS
  s1 = s1
  s2 = s2
  s3 = s3
  c1 = c1
  c2 = c2
  c3 = c3
  NoSlot = NoSlot
  NoConn = NoConn
  NoRequest = NoRequest
  Requests <- AllRequests
  Traffics <- OnlyBadJson
  Slots <- TwoSlots
  Conns <- ThreeConns
  LastFd = 2
  SetSize = 4
  NumThreads = 2
SPECIFICATION Spec
INVARIANT ConnExclusive
SYMMETRY Symmetry
