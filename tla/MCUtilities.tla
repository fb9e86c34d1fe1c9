---------------------------- MODULE MCUtilities -----------------------------
(* Small instances of the utilities for TLC.  They share no state: part    *)
(* says whether a behaviour is one of Dict, List, Log or AeTimers.         *)
EXTENDS Dict, List, Log, AeTimers, TLC

CONSTANTS k1, k2, k3, k4, l1, l2, n1, n2, n3, v1, v2, p1, p2, m1, m2, m3

-----------------------------------------------------------------------------
(* Dict                                                                    *)

FourKeys == {k1, k2, k3, k4}

\* k1, k2 and k3 share a bucket of two, k1 and k3 one of four.
FourHashes == k1 :> 0 @@ k2 :> 2 @@ k3 :> 4 @@ k4 :> 1

TwoFourEight == {2, 4, 8}

OnlyEight == {8}

-----------------------------------------------------------------------------
(* List, Log and AeTimers                                                  *)

TwoLists   == {l1, l2}
ThreeNodes == {n1, n2, n3}
TwoValues  == {v1, v2}

TwoPrinters   == {p1, p2}
ThreeMessages == {m1, m2, m3}
TwoShown      == {m1, m2}

OneAndTwo == {1, 2}

-----------------------------------------------------------------------------
VARIABLE part

vars == <<part, dictVars, listVars, logVars, timeVars>>

Init ==
  /\ part \in {"dict", "list", "log", "timers"}
  /\ DictInit /\ ListInit /\ LogInit /\ TimeInit

OfDict(A)   == part = "dict" /\ A /\ UNCHANGED <<part, listVars, logVars, timeVars>>
OfList(A)   == part = "list" /\ A /\ UNCHANGED <<part, dictVars, logVars, timeVars>>
OfLog(A)    == part = "log" /\ A /\ UNCHANGED <<part, dictVars, listVars, timeVars>>
OfTimers(A) == part = "timers" /\ A /\ UNCHANGED <<part, dictVars, listVars, logVars>>

Next == OfDict(DictNext) \/ OfList(ListNext) \/ OfLog(LogNext) \/ OfTimers(TimeNext)

\* The fairness of Log and of AeTimers
Spec ==
  /\ Init /\ [][Next]_vars
  /\ WF_vars(OfLog(LogThread))
  /\ \A p \in Printers : WF_vars(OfLog(pc # "crashed" /\ LogPrintUnlocks(p)))
  /\ WF_vars(OfTimers(Loop)) /\ WF_vars(OfTimers(Tick))
=============================================================================
