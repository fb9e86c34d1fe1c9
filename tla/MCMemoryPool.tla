---------------------------- MODULE MCMemoryPool ----------------------------
(* A small instance of MemoryPool for TLC.                                 *)
EXTENDS MemoryPool, TLC

CONSTANTS t1, t2, t3

ThreeThreads == {t1, t2, t3}
ThreeTwo     == <<3, 2>>
FourHeap     == {<<0, k>> : k \in 1..4}
=============================================================================
