\* One account, two requests at once.
CONSTANTS
  a1 = a1
  a2 = a2
  w1 = w1
  w2 = w2
  t1 = t1
  t2 = t2
  t3 = t3
  t4 = t4
  Blank = Blank
  None = None
  Accounts <- OneAccount
  Workers <- TwoWorkers
  Tokens <- FourTokens
  LastId = 2
  Patient = FALSE
SPECIFICATION Spec
INVARIANT OneLiveToken
SYMMETRY Symmetry
