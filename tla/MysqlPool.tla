----------------------------- MODULE MysqlPool ------------------------------
(***************************************************************************)
(* utils/mysql_connection_pool.c: a list of idle connections under a spin  *)
(* lock.  A thread takes the head, reconnects it if it is older than the   *)
(* timeout, and opens a new one if the list is empty; what it puts back    *)
(* stays in the list, which is how the pool grows.  Only the list is       *)
(* locked: what a thread does to the block it has popped is a step apart.  *)
(***************************************************************************)
EXTENDS Naturals, Sequences, FiniteSets

CONSTANTS
  Threads,          \* the threads that use the pool
  Blocks,           \* addresses malloc() returns for a MysqlBlock
  ConnectCount,     \* MysqlConnectionPoolMaxCount
  ConnectMayFail,   \* may mysql_real_connect fail?
  Timeout,          \* MysqlConnectionTimeout, in ticks of the model's clock
  NoBlock           \* NULL

ASSUME MysqlPoolAssumption ==
  /\ ConnectCount \in Nat \ {0} /\ Timeout \in Nat
  /\ ConnectMayFail \in BOOLEAN
  /\ NoBlock \notin Blocks
  /\ IsFiniteSet(Threads) /\ IsFiniteSet(Blocks)

VARIABLES
  g_mysql_conn_enable,
  slq_list,         \* idle connections
  heap,             \* MysqlBlocks that are allocated
  age,              \* time(NULL) - lastUseTime, up to Timeout + 1
  pc,               \* where each thread is in mysqlConnectionPool_GetOneConn
  block             \* the connection each thread has, or NoBlock

vars == <<g_mysql_conn_enable, slq_list, heap, age, pc, block>>

Init ==
  /\ g_mysql_conn_enable = FALSE
  /\ slq_list = <<>>
  /\ heap = {}
  /\ age = [b \in Blocks |-> 0]
  /\ pc = [t \in Threads |-> "idle"]
  /\ block = [t \in Threads |-> NoBlock]

\* The clock: every allocated block ages; beyond the timeout all ages are one.
Tick ==
  /\ g_mysql_conn_enable
  /\ age' = [b \in Blocks |-> IF b \in heap /\ age[b] <= Timeout THEN age[b] + 1 ELSE age[b]]
  /\ UNCHANGED <<g_mysql_conn_enable, slq_list, heap, pc, block>>

-----------------------------------------------------------------------------
(* mysqlConnectionPoolInit and mysqlConnectionPoolUnInit, on main          *)

\* A connection that fails here ends the program.
InitConnects(b) ==
  /\ ~ g_mysql_conn_enable /\ Len(slq_list) < ConnectCount
  /\ b \notin heap
  /\ heap' = heap \cup {b}
  /\ slq_list' = Append(slq_list, b)
  /\ UNCHANGED <<g_mysql_conn_enable, age, pc, block>>

InitReturns ==
  /\ ~ g_mysql_conn_enable /\ Len(slq_list) = ConnectCount
  /\ g_mysql_conn_enable' = TRUE
  /\ UNCHANGED <<slq_list, heap, age, pc, block>>

\* Main gets here only from a start that failed: no thread uses the pool.
UnInit ==
  /\ g_mysql_conn_enable /\ \A t \in Threads : pc[t] = "idle"
  /\ g_mysql_conn_enable' = FALSE
  /\ slq_list' = <<>>
  /\ heap' = {}
  /\ age' = [b \in Blocks |-> 0]
  /\ UNCHANGED <<pc, block>>

-----------------------------------------------------------------------------
(* mysqlConnectionPool_GetOneConn                                          *)

Goes(t, from, to) == pc[t] = from /\ pc' = [pc EXCEPT ![t] = to]

Get(t) ==
  /\ g_mysql_conn_enable
  /\ Goes(t, "idle", "pop")
  /\ UNCHANGED <<g_mysql_conn_enable, slq_list, heap, age, block>>

Pop_Peek(t) ==                                                      \* MUTANT
  /\ slq_list # <<>>
  /\ Goes(t, "pop", "test")
  /\ block' = [block EXCEPT ![t] = Head(slq_list)]
  /\ UNCHANGED <<g_mysql_conn_enable, slq_list, heap, age>>

Pop(t) ==
  /\ slq_list # <<>>
  /\ Goes(t, "pop", "test")
  /\ block' = [block EXCEPT ![t] = Head(slq_list)]
  /\ slq_list' = Tail(slq_list)
  /\ UNCHANGED <<g_mysql_conn_enable, heap, age>>

\* "all connention be used , new a connect now": malloc of a block.
NewBlock_Always(t) ==                                               \* MUTANT
  /\ Goes(t, "pop", "create")
  /\ \E b \in Blocks \ heap :
       /\ block' = [block EXCEPT ![t] = b]
       /\ heap' = heap \cup {b}
  /\ UNCHANGED <<g_mysql_conn_enable, slq_list, age>>

NewBlock(t) ==
  /\ slq_list = <<>>
  /\ Goes(t, "pop", "create")
  /\ \E b \in Blocks \ heap :
       /\ block' = [block EXCEPT ![t] = b]
       /\ heap' = heap \cup {b}
  /\ UNCHANGED <<g_mysql_conn_enable, slq_list, age>>

Expired(b) == age[b] > Timeout

Lend(t) ==
  /\ pc[t] = "test" /\ ~ Expired(block[t])
  /\ Goes(t, "test", "have")
  /\ UNCHANGED <<g_mysql_conn_enable, slq_list, heap, age, block>>

TooOld(t) ==
  /\ pc[t] = "test" /\ Expired(block[t])
  /\ Goes(t, "test", "reconnect")
  /\ UNCHANGED <<g_mysql_conn_enable, slq_list, heap, age, block>>

\* mysqlReconnect succeeds, of an old connection or a new one.
Connects(t) ==
  /\ pc[t] \in {"reconnect", "create"}
  /\ age' = [age EXCEPT ![block[t]] = 0]
  /\ pc' = [pc EXCEPT ![t] = "have"]
  /\ UNCHANGED <<g_mysql_conn_enable, slq_list, heap, block>>

ConnectFails_GivesUp(t) ==                                         \* MUTANT
  /\ ConnectMayFail
  /\ pc[t] \in {"reconnect", "create"}
  /\ heap' = heap \ {block[t]}
  /\ age' = [age EXCEPT ![block[t]] = 0]
  /\ block' = [block EXCEPT ![t] = NoBlock]
  /\ pc' = [pc EXCEPT ![t] = "idle"]
  /\ UNCHANGED <<g_mysql_conn_enable, slq_list>>

\* mysqlReconnect fails: the block is freed and the loop starts again.
ConnectFails(t) ==
  /\ ConnectMayFail
  /\ pc[t] \in {"reconnect", "create"}
  /\ heap' = heap \ {block[t]}
  /\ age' = [age EXCEPT ![block[t]] = 0]
  /\ block' = [block EXCEPT ![t] = NoBlock]
  /\ pc' = [pc EXCEPT ![t] = "pop"]
  /\ UNCHANGED <<g_mysql_conn_enable, slq_list>>

\* mysqlConnectionPool_FreeOneConn; lastUseTime is not touched.
FreeOneConn(t) ==
  /\ Goes(t, "have", "idle")
  /\ slq_list' = Append(slq_list, block[t])
  /\ block' = [block EXCEPT ![t] = NoBlock]
  /\ UNCHANGED <<g_mysql_conn_enable, heap, age>>

-----------------------------------------------------------------------------
GetStep(t) == \/ Pop(t) \/ NewBlock(t) \/ Lend(t) \/ TooOld(t)
              \/ Connects(t) \/ ConnectFails(t)

Next ==
  \/ Tick \/ InitReturns \/ UnInit
  \/ \E b \in Blocks : InitConnects(b)
  \/ \E t \in Threads : Get(t) \/ GetStep(t) \/ FreeOneConn(t)

Spec == Init /\ [][Next]_vars

\* Threads run on, and a database that is asked again and again answers once.
FairSpec == Spec /\ \A t \in Threads : WF_vars(GetStep(t)) /\ SF_vars(Connects(t))

-----------------------------------------------------------------------------
(* Properties                                                              *)

\* The variables stay in their ranges, and a thread has a block exactly between
\* taking one and giving it back: mysqlConnectionPool_GetOneConn returns no NULL.
TypeOK ==
  /\ g_mysql_conn_enable \in BOOLEAN
  /\ slq_list \in Seq(Blocks)
  /\ heap \subseteq Blocks
  /\ age \in [Blocks -> 0..Timeout + 1]
  /\ pc \in [Threads -> {"idle", "pop", "test", "reconnect", "create", "have"}]
  /\ block \in [Threads -> Blocks \cup {NoBlock}]
  /\ \A t \in Threads : block[t] = NoBlock <=> pc[t] \in {"idle", "pop"}

Idle    == {slq_list[k] : k \in DOMAIN slq_list}
Holders == {t \in Threads : block[t] # NoBlock}
Lent    == {block[t] : t \in Holders}

\* A connection is in one place: idle once in the list or with one thread, and
\* allocated; and every allocated block is in such a place, whatever connects
\* failed and whatever was reconnected.
OnePlace ==
  /\ \A j, k \in DOMAIN slq_list : slq_list[j] = slq_list[k] => j = k
  /\ \A t, u \in Holders : block[t] = block[u] => t = u
  /\ Idle \cap Lent = {}
  /\ heap = Idle \cup Lent

\* FreeOneConn never closes a connection and GetOneConn opens more without a
\* limit of its own; still there are never more than the configured number or
\* the number of threads, whichever is larger.
Bounded ==
  Cardinality(heap) <= ConnectCount \/ Cardinality(heap) <= Cardinality(Threads)

\* A thread that asks for a connection gets one, though each connect may fail,
\* as long as the database is not gone for good.
GetReturns == \A t \in Threads : (pc[t] = "pop") ~> (pc[t] = "have")
=============================================================================
