\* Two accounts, each with one client that waits for its answers, and an administrator
\* who deletes them.
CONSTANTS
  a1 = a1
  a2 = a2
  w1 = w1
  w2 = w2
  t1 = t1
  t2 = t2
  t3 = t3
  t4 = t4
  Blank = Blank
  None = None
  Accounts <- TwoAccounts
  Workers <- TwoWorkers
  Tokens <- ThreeTokens
  LastId = 3
  Patient = TRUE
SPECIFICATION Spec
INVARIANTS TypeOK OneLiveToken TableKnowsToken AnswerHonored
SYMMETRY Symmetry
