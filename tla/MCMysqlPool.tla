---------------------------- MODULE MCMysqlPool -----------------------------
(* A small instance of MysqlPool for TLC.                                  *)
EXTENDS MysqlPool, TLC

CONSTANTS t1, t2, t3, b1, b2, b3, b4

ThreeThreads == {t1, t2, t3}
FourBlocks   == {b1, b2, b3, b4}
=============================================================================
