\* Three kinds of clients, two threads, three descriptors.
CONSTANTS
  s1 = s1
  s2 = s2
  s3 = s3
  c1 = c1
  c2 = c2
  c3 = c3
  NoSlot = NoSlot
  NoConn = NoConn
  NoRequest = NoRequest
  Requests <- AllRequests
  Traffics <- ThreeTraffics
  Slots <- ThreeSlots
  Conns <- ThreeConns
  LastFd = 3
  SetSize = 4
  NumThreads = 2
SPECIFICATION Spec
INVARIANTS TypeOK OneOwner NoDangling NoLeak MaxfdHighest ConnExclusive
SYMMETRY Symmetry
