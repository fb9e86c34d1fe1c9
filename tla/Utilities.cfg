\* Dict: four keys, tables of two, four and eight buckets.
\* List: two lists share three nodes and two values.
\* Log: two threads print three messages, one above the level, over three days, in months of two.
\* AeTimers: three timers, two milliseconds to the second, a clock that is set once.
CONSTANTS
  k1 = k1
  k2 = k2
  k3 = k3
  k4 = k4
  NoKey = NoKey
  Keys <- FourKeys
  Hash <- FourHashes
  InitialSize = 2
  EmptyVisits = 2
  Sizes <- TwoFourEight
  Asked <- OnlyEight
  ScanHeeded = TRUE
  IteratorHeeded = TRUE
  l1 = l1
  l2 = l2
  n1 = n1
  n2 = n2
  n3 = n3
  v1 = v1
  v2 = v2
  JoinHeeded = TRUE
  NoNode = NoNode
  Lists <- TwoLists
  Nodes <- ThreeNodes
  Values <- TwoValues
  p1 = p1
  p2 = p2
  m1 = m1
  m2 = m2
  m3 = m3
  NoMsg = NoMsg
  Printers <- TwoPrinters
  Messages <- ThreeMessages
  Shown <- TwoShown
  LastDay = 2
  MonthDays = 2
  OpenMayFail = TRUE
  MayUninit = TRUE
  MaxTimers = 3
  MsPerSec = 2
  LastTick = 4
  Delays <- OneAndTwo
  MaxClockChanges = 1
  FinalizersCreate = FALSE
  NoTimer = NoTimer
SPECIFICATION Spec
INVARIANTS DictTypeOK LookupIsStored RehashedEmpty SafeIteration ScanComplete Linked IterationComplete LookupsAgree NoLostWakeup FilesRight TimersListed NoOversleep DueFired
PROPERTIES EveryMessageHandled EveryTimerFires
\* The log has nothing more to do when all is printed, or when the process is gone.
CHECK_DEADLOCK FALSE
