\* Two workers look routes up in the table the program really starts with.
CONSTANTS
  w1 = w1
  w2 = w2
  Workers <- TwoWorkers
  Routes <- AllRoutes
  Hash <- RouteHashes
  Chains <- RouteChains
  StartIdx = 6
  NoRoute = NoRoute
SPECIFICATION Spec
INVARIANT RehashidxInTable
\* A worker stops at a wild pointer or a failed assertion.
CHECK_DEADLOCK FALSE
