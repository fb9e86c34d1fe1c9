----------------------------- MODULE MCSession ------------------------------
(* Small instances of Session for TLC.                                     *)
EXTENDS Session, TLC

CONSTANTS a1, a2, w1, w2, t1, t2, t3, t4

OneAccount  == {a1}
TwoAccounts == {a1, a2}
TwoWorkers  == {w1, w2}
ThreeTokens == {t1, t2, t3}
FourTokens  == {t1, t2, t3, t4}

\* Accounts, workers and tokens are only compared for equality.
Symmetry == Permutations(Accounts) \cup Permutations(Workers) \cup Permutations(Tokens)
=============================================================================
