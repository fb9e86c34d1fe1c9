-------------------------- MODULE ThreadPoolProofs --------------------------
(***************************************************************************)
(* Theorems about ThreadPool: the safety properties the runs check, for    *)
(* any number of workers and any set of tasks.  They follow from one       *)
(* inductive invariant, IInv, whose parts are named for what they say.     *)
(***************************************************************************)
EXTENDS ThreadPool, FiniteSetTheorems, SequenceTheorems, TLAPS

\* Where main is in its calls bounds what its argument and its loop index are.
CallInv ==
  /\ mpc \in {"addLock", "add"} => arg \in Tasks /\ ~ Submitted(arg)
  /\ mpc \in {"destroyLock", "destroy"} => arg \in Modes
  /\ mpc \in {"count", "join"} => i < NumThreads

\* The holder of pool->lock is where the code holds it.
LockInv ==
  /\ \A w \in Workers : pc[w] \in {"check", "popped", "leaving"} <=> lock = w
  /\ mpc \in {"add", "addUnlock", "destroy", "destroyUnlock", "free"} => lock = Main

\* The handle is published when every thread was created, and only then used.
CreationInv ==
  /\ G_THREAD_POOL = "NULL" =>
       /\ mpc \in {"create", "count", "idle"}
       /\ shutdown = "none"
  /\ mpc \in {"create", "count"} =>
       /\ G_THREAD_POOL = "NULL"
       /\ \A w \in Workers :
            pc[w] = "unborn" <=> w > (IF mpc = "count" THEN i + 1 ELSE i)
  /\ G_THREAD_POOL # "NULL" => \A w \in Workers : pc[w] # "unborn"

Left  == {"leaving", "exited"}
Alive == {w \in Workers : pc[w] \notin {"unborn"} \cup Left}

\* thread_count counts the workers that have not decided to leave.
CountInv ==
  thread_count = Cardinality(Alive) - (IF mpc = "count" THEN 1 ELSE 0)

\* What the shutdown flag tells about the workers and about main.
ShutdownInv ==
  /\ shutdown = "none" =>
       /\ \A w \in Workers : pc[w] \notin Left
       /\ mpc \notin {"destroyUnlock", "joinTest", "join", "freeTest", "freeLock", "free"}
       /\ G_THREAD_POOL # "freed"
  /\ shutdown = "graceful" /\ (\E w \in Workers : pc[w] \in Left) => task_list = <<>>
  /\ G_THREAD_POOL = "freed" => mpc = "idle"

IInv == /\ TypeOK /\ CallInv /\ LockInv /\ CreationInv /\ CountInv /\ ShutdownInv
        /\ NoLostWakeup /\ FreedQuiescent /\ EachTaskOnce

-----------------------------------------------------------------------------
(* The finite sets of workers.                                             *)

LEMMA AliveFinite ==
  /\ IsFiniteSet(Workers)
  /\ Cardinality(Workers) = NumThreads
  /\ \A S \in SUBSET Workers : IsFiniteSet(S) /\ Cardinality(S) \in 0..NumThreads
<1>1. IsFiniteSet(Workers) /\ Cardinality(Workers) = NumThreads
  BY FS_Interval, ThreadPoolAssumption DEF Workers
<1>2. ASSUME NEW S \in SUBSET Workers
      PROVE  IsFiniteSet(S) /\ Cardinality(S) \in 0..NumThreads
  BY <1>1, <1>2, FS_Subset, FS_CardinalityType, ThreadPoolAssumption
<1>3. QED BY <1>1, <1>2

LEMMA InitIInv == Init => IInv
<1> SUFFICES ASSUME Init PROVE IInv
  OBVIOUS
<1>1. TypeOK
  BY ThreadPoolAssumption DEF Init, TypeOK, Modes, MainPoints, WorkerPoints, Workers
<1>2. CallInv /\ LockInv /\ CreationInv /\ ShutdownInv
  BY ThreadPoolAssumption DEF Init, CallInv, LockInv, CreationInv, ShutdownInv,
     Workers, Nobody, Left
<1>3. CountInv
  <2>1. Alive = {}
    BY DEF Init, Alive
  <2>2. QED BY <2>1, FS_EmptySet DEF Init, CountInv
<1>4. NoLostWakeup /\ FreedQuiescent
  BY DEF Init, NoLostWakeup, FreedQuiescent
<1>5. EachTaskOnce
  <2>1. Busy = {}
    BY DEF Init, Busy
  <2>2. accepted = started \o task_list
    BY ConcatEmptySeq, EmptySeq DEF Init
  <2>3. QED BY <2>1, <2>2 DEF Init, EachTaskOnce, Distinct, InOrder, OneHolder, Held
<1>6. QED BY <1>1, <1>2, <1>3, <1>4, <1>5 DEF IInv

-----------------------------------------------------------------------------
(* The parts of IInv are kept by every step.                               *)

LEMMA LockStep ==
  TypeOK /\ CallInv /\ CreationInv /\ LockInv /\ [Next]_vars => LockInv'
<1> SUFFICES ASSUME TypeOK, CallInv, CreationInv, LockInv, [Next]_vars PROVE LockInv'
  OBVIOUS
<1> USE ThreadPoolAssumption
    DEF TypeOK, LockInv, Workers, Main, Nobody, shared, worker, main, history
<1>1. CASE SpawnThread
  BY <1>1 DEF SpawnThread, CreationInv
<1>2. CASE CountThread \/ CreateFails \/ CreateReturns
  BY <1>2 DEF CountThread, CreateFails, CreateReturns
<1>3. CASE AddStep
  BY <1>3 DEF AddStep, AddLock, AddEnqueue, AddRefused, AddUnlock, SignalOne
<1>4. CASE DestroyStep
  BY <1>4 DEF DestroyStep, DestroyLock, DestroyRefused, DestroyMark, DestroyUnlock,
     JoinTest, Join, FreeRefused, FreeList, FreeLock, FreePool, Broadcast
<1>5. ASSUME NEW t \in Tasks, CallAdd(t) PROVE LockInv'
  BY <1>5 DEF CallAdd
<1>6. ASSUME NEW m \in Modes, CallDestroy(m) PROVE LockInv'
  BY <1>6 DEF CallDestroy
<1>7. ASSUME NEW w \in Workers, WorkerStep(w) PROVE LockInv'
  <2>1. CASE WorkerLock(w)
    BY <2>1 DEF WorkerLock
  <2>2. CASE WorkerWait(w)
    BY <2>2 DEF WorkerWait
  <2>6. CASE WorkerUnlock(w)
    BY <2>6 DEF WorkerUnlock
  <2>7. CASE WorkerExit(w)
    BY <2>7 DEF WorkerExit
  <2>3. CASE WorkerPop(w)
    BY <2>3 DEF WorkerPop, PopHead
  <2>4. CASE WorkerRun(w)
    BY <2>4 DEF WorkerRun
  <2>5. CASE WorkerQuit(w)
    BY <2>5 DEF WorkerQuit
  <2>8. QED BY <1>7, <2>1, <2>2, <2>3, <2>4, <2>5, <2>6, <2>7 DEF WorkerStep
<1>8. ASSUME NEW w \in Workers, SpuriousWakeup(w) PROVE LockInv'
  BY <1>8 DEF SpuriousWakeup
<1>9. CASE UNCHANGED vars
  BY <1>9 DEF vars
<1>10. QED
  BY <1>1, <1>2, <1>3, <1>4, <1>5, <1>6, <1>7, <1>8, <1>9 DEF Next, CreateStep

LEMMA CreationStep ==
  TypeOK /\ CallInv /\ CreationInv /\ ShutdownInv /\ [Next]_vars => CreationInv'
<1> SUFFICES ASSUME TypeOK, CallInv, CreationInv, ShutdownInv, [Next]_vars
             PROVE  CreationInv'
  OBVIOUS
<1> USE ThreadPoolAssumption
    DEF TypeOK, CreationInv, Workers, shared, worker, main, history
<1>1. CASE SpawnThread
  BY <1>1 DEF SpawnThread
<1>2. CASE CountThread
  BY <1>2 DEF CountThread
<1>3. CASE CreateFails \/ CreateReturns
  BY <1>3 DEF CreateFails, CreateReturns
<1>4. CASE AddStep
  BY <1>4 DEF AddStep, AddLock, AddEnqueue, AddRefused, AddUnlock, SignalOne
<1>5. CASE DestroyStep
  BY <1>5 DEF DestroyStep, DestroyLock, DestroyRefused, DestroyMark, DestroyUnlock,
     JoinTest, Join, FreeRefused, FreeList, FreeLock, FreePool, Broadcast
<1>6. ASSUME NEW t \in Tasks, CallAdd(t) PROVE CreationInv'
  BY <1>6 DEF CallAdd
<1>7. ASSUME NEW m \in Modes, CallDestroy(m) PROVE CreationInv'
  BY <1>7 DEF CallDestroy
<1>8. ASSUME NEW w \in Workers, WorkerStep(w) \/ SpuriousWakeup(w) PROVE CreationInv'
  <2>1. UNCHANGED <<G_THREAD_POOL, mpc, i, shutdown>>
    BY <1>8 DEF WorkerStep, WorkerLock, WorkerWait, WorkerPop, WorkerUnlock, WorkerRun,
       WorkerQuit, WorkerExit, SpuriousWakeup
  <2>2. pc[w] # "unborn" /\ \E p \in WorkerPoints \ {"unborn"} : pc' = [pc EXCEPT ![w] = p]
    BY <1>8 DEF WorkerStep, WorkerLock, WorkerWait, WorkerPop, WorkerUnlock, WorkerRun,
       WorkerQuit, WorkerExit, SpuriousWakeup, WorkerPoints
  <2>3. QED BY <2>1, <2>2
<1>9. CASE UNCHANGED vars
  BY <1>9 DEF vars
<1>10. QED
  BY <1>1, <1>2, <1>3, <1>4, <1>5, <1>6, <1>7, <1>8, <1>9 DEF Next, CreateStep

\* A worker that starts, or leaves, changes the number of those alive by one.
LEMMA AliveAdd ==
  ASSUME TypeOK, NEW w \in Workers, pc[w] = "unborn",
         pc' = [pc EXCEPT ![w] = "lock"]
  PROVE  Cardinality(Alive') = Cardinality(Alive) + 1
<1>1. Alive' = Alive \cup {w} /\ w \notin Alive
  BY DEF Alive, TypeOK, Left
<1>2. IsFiniteSet(Alive)
  BY AliveFinite DEF Alive
<1>3. QED BY <1>1, <1>2, FS_AddElement

LEMMA AliveRemove ==
  ASSUME TypeOK, NEW w \in Workers, pc[w] = "check",
         pc' = [pc EXCEPT ![w] = "leaving"]
  PROVE  /\ Cardinality(Alive') = Cardinality(Alive) - 1
         /\ Cardinality(Alive) > 0
<1>1. Alive' = Alive \ {w} /\ w \in Alive
  BY DEF Alive, TypeOK, Left
<1>2. IsFiniteSet(Alive) /\ Cardinality(Alive) \in Nat
  BY AliveFinite, ThreadPoolAssumption DEF Alive
<1>3. Cardinality(Alive') = Cardinality(Alive) - 1
  BY <1>1, <1>2, FS_RemoveElement
<1>4. Cardinality(Alive) # 0
  BY <1>1, <1>2, FS_EmptySet
<1>5. QED BY <1>2, <1>3, <1>4

\* thread_count and the set of workers alive change together, and every other
\* step leaves both alone.
LEMMA CountStep ==
  TypeOK /\ CallInv /\ CreationInv /\ CountInv /\ [Next]_vars
    => CountInv' /\ thread_count' \in 0..NumThreads
<1> SUFFICES ASSUME TypeOK, CallInv, CreationInv, CountInv, [Next]_vars
             PROVE  CountInv' /\ thread_count' \in 0..NumThreads
  OBVIOUS
<1> USE ThreadPoolAssumption DEF shared, worker, main, history
<1> Cardinality(Alive) \in 0..NumThreads
  BY AliveFinite DEF Alive
<1>1. CASE SpawnThread
  <2>1. i + 1 \in Workers /\ pc[i + 1] = "unborn" /\ pc' = [pc EXCEPT ![i + 1] = "lock"]
    BY <1>1 DEF SpawnThread, CreationInv, TypeOK, Workers
  <2>2. Cardinality(Alive') = Cardinality(Alive) + 1
    BY <2>1, AliveAdd
  <2>3. QED BY <1>1, <2>2 DEF SpawnThread, CountInv, TypeOK
<1>2. CASE CountThread
  BY <1>2 DEF CountThread, CountInv, TypeOK, Alive
<1>3. ASSUME NEW w \in Workers, WorkerQuit(w)
      PROVE  CountInv' /\ thread_count' \in 0..NumThreads
  <2>1. pc[w] = "check" /\ pc' = [pc EXCEPT ![w] = "leaving"]
    BY <1>3 DEF WorkerQuit
  <2>2. Cardinality(Alive') = Cardinality(Alive) - 1 /\ Cardinality(Alive) > 0
    BY <2>1, AliveRemove
  <2>3. mpc # "count" /\ mpc' = mpc
    BY <1>3 DEF WorkerQuit, MustExit, CreationInv
  <2>4. QED BY <1>3, <2>2, <2>3 DEF WorkerQuit, CountInv, TypeOK
<1>4. ASSUME Alive' = Alive, thread_count' = thread_count, mpc # "count", mpc' # "count"
      PROVE  CountInv' /\ thread_count' \in 0..NumThreads
  BY <1>4 DEF CountInv, TypeOK
<1>5. ASSUME Alive' = Alive, thread_count' = thread_count, mpc' = mpc
      PROVE  CountInv' /\ thread_count' \in 0..NumThreads
  BY <1>5 DEF CountInv, TypeOK
<1>6. CASE CreateFails \/ CreateReturns
  <2>1. Alive' = Alive
    BY <1>6 DEF CreateFails, CreateReturns, Alive
  <2>2. QED BY <1>4, <1>6, <2>1 DEF CreateFails, CreateReturns
<1>7. CASE AddStep
  <2>1. Alive' = Alive
    BY <1>7 DEF AddStep, AddLock, AddEnqueue, AddRefused, AddUnlock, SignalOne, Alive,
       TypeOK, Left
  <2>2. QED BY <1>4, <1>7, <2>1 DEF AddStep, AddLock, AddEnqueue, AddRefused, AddUnlock
<1>8. CASE DestroyStep
  <2>1. Alive' = Alive
    BY <1>8 DEF DestroyStep, DestroyLock, DestroyRefused, DestroyMark, DestroyUnlock,
       JoinTest, Join, FreeRefused, FreeList, FreeLock, FreePool, Broadcast, Alive,
       TypeOK, Left
  <2>2. QED
    BY <1>4, <1>8, <2>1 DEF DestroyStep, DestroyLock, DestroyRefused, DestroyMark,
       DestroyUnlock, JoinTest, Join, FreeRefused, FreeList, FreeLock, FreePool
<1>9. ASSUME NEW t \in Tasks, CallAdd(t)
      PROVE  CountInv' /\ thread_count' \in 0..NumThreads
  BY <1>4, <1>9 DEF CallAdd, Alive
<1>10. ASSUME NEW m \in Modes, CallDestroy(m)
       PROVE  CountInv' /\ thread_count' \in 0..NumThreads
  BY <1>4, <1>10 DEF CallDestroy, Alive
<1>11. ASSUME NEW w \in Workers, WorkerStep(w) \/ SpuriousWakeup(w), ~ WorkerQuit(w)
       PROVE  CountInv' /\ thread_count' \in 0..NumThreads
  <2>1. mpc' = mpc /\ thread_count' = thread_count
    BY <1>11 DEF WorkerStep, WorkerLock, WorkerWait, WorkerPop, WorkerUnlock, WorkerRun,
       WorkerExit, SpuriousWakeup
  <2>2. \E p, q \in WorkerPoints : /\ pc[w] = p /\ pc' = [pc EXCEPT ![w] = q]
                                   /\ p # "unborn" /\ q # "unborn"
                                   /\ p \in Left <=> q \in Left
    BY <1>11 DEF WorkerStep, WorkerLock, WorkerWait, WorkerPop, WorkerUnlock, WorkerRun,
       WorkerExit, SpuriousWakeup, WorkerPoints, Left
  <2>3. Alive' = Alive
    BY <2>2 DEF Alive, TypeOK, Left
  <2>4. QED BY <1>5, <2>1, <2>3
<1>12. CASE UNCHANGED vars
  BY <1>5, <1>12 DEF vars, Alive
<1>13. QED
  BY <1>1, <1>2, <1>3, <1>6, <1>7, <1>8, <1>9, <1>10, <1>11, <1>12 DEF Next, CreateStep

LEMMA TypeStep ==
  TypeOK /\ CallInv /\ CreationInv /\ CountInv /\ EachTaskOnce /\ [Next]_vars => TypeOK'
<1> SUFFICES ASSUME TypeOK, CallInv, CreationInv, CountInv, EachTaskOnce, [Next]_vars
             PROVE  TypeOK'
  OBVIOUS
<1>0. thread_count' \in 0..NumThreads
  BY CountStep
<1> USE ThreadPoolAssumption, <1>0
    DEF TypeOK, Workers, MainPoints, WorkerPoints, Modes, shared, worker, main, history
<1>1. CASE SpawnThread
  BY <1>1 DEF SpawnThread
<1>2. CASE CountThread
  BY <1>2 DEF CountThread, CallInv
<1>3. CASE CreateFails \/ CreateReturns \/ AddLock \/ AddRefused \/ AddUnlock
  BY <1>3 DEF CreateFails, CreateReturns, AddLock, AddRefused, AddUnlock
<1>4. CASE AddEnqueue
  <2>1. /\ task_list' \in Seq(Tasks)
        /\ accepted' \in Seq(Tasks)
    BY <1>4 DEF AddEnqueue, CallInv
  <2>2. pc' \in [Workers -> WorkerPoints]
    BY <1>4 DEF AddEnqueue, SignalOne
  <2>3. QED BY <1>4, <2>1, <2>2 DEF AddEnqueue
<1>5. CASE DestroyLock \/ DestroyRefused \/ FreeLock \/ FreePool
  BY <1>5 DEF DestroyLock, DestroyRefused, FreeLock, FreePool
<1>16. CASE JoinTest \/ FreeRefused
  BY <1>16 DEF JoinTest, FreeRefused
<1>17. CASE FreeList
  BY <1>17 DEF FreeList
<1>6. CASE DestroyMark
  BY <1>6 DEF DestroyMark, Broadcast, CallInv
<1>7. CASE DestroyUnlock \/ Join
  BY <1>7 DEF DestroyUnlock, Join, CallInv
<1>8. ASSUME NEW t \in Tasks, CallAdd(t) PROVE TypeOK'
  BY <1>8 DEF CallAdd
<1>9. ASSUME NEW m \in Modes, CallDestroy(m) PROVE TypeOK'
  BY <1>9 DEF CallDestroy
<1>10. ASSUME NEW w \in Workers, WorkerPop(w) PROVE TypeOK'
  <2>1. /\ Head(task_list) \in Tasks
        /\ Tail(task_list) \in Seq(Tasks)
        /\ started' \in Seq(Tasks)
    BY <1>10, HeadTailProperties DEF WorkerPop, PopHead
  <2>2. QED BY <1>10, <2>1 DEF WorkerPop, PopHead
<1>11. ASSUME NEW w \in Workers, WorkerRun(w) PROVE TypeOK'
  <2>1. cur[w] \in Held
    BY <1>11 DEF WorkerRun, Held, Busy
  <2>2. Held \subseteq Tasks
    BY DEF EachTaskOnce, OneHolder
  <2>3. QED BY <1>11, <2>1, <2>2 DEF WorkerRun
<1>12. ASSUME NEW w \in Workers, WorkerLock(w) \/ WorkerWait(w) \/ WorkerUnlock(w)
       PROVE  TypeOK'
  BY <1>12 DEF WorkerLock, WorkerWait, WorkerUnlock
<1>13. ASSUME NEW w \in Workers, WorkerQuit(w) \/ WorkerExit(w) \/ SpuriousWakeup(w)
       PROVE  TypeOK'
  BY <1>13 DEF WorkerQuit, WorkerExit, SpuriousWakeup
<1>14. CASE UNCHANGED vars
  BY <1>14 DEF vars
<1>15. QED
  BY <1>1, <1>2, <1>3, <1>4, <1>5, <1>6, <1>7, <1>8, <1>9, <1>10, <1>11, <1>12, <1>13,
     <1>14, <1>16, <1>17 DEF Next, CreateStep, AddStep, DestroyStep, WorkerStep

LEMMA CallStep ==
  TypeOK /\ CallInv /\ CreationInv /\ [Next]_vars => CallInv'
<1> SUFFICES ASSUME TypeOK, CallInv, CreationInv, [Next]_vars PROVE CallInv'
  OBVIOUS
<1> USE ThreadPoolAssumption
    DEF CallInv, Submitted, Workers, shared, worker, main, history
<1>1. CASE CreateStep
  BY <1>1 DEF CreateStep, SpawnThread, CountThread, CreateFails, CreateReturns, TypeOK
<1>2. CASE AddStep
  BY <1>2 DEF AddStep, AddLock, AddEnqueue, AddRefused, AddUnlock
<1>3. CASE DestroyLock \/ DestroyRefused \/ DestroyMark \/ DestroyUnlock
  BY <1>3 DEF DestroyLock, DestroyRefused, DestroyMark, DestroyUnlock
<1>4. CASE JoinTest
  BY <1>4 DEF JoinTest, TypeOK
<1>5. CASE Join \/ FreeRefused \/ FreeList \/ FreeLock \/ FreePool
  BY <1>5 DEF Join, FreeRefused, FreeList, FreeLock, FreePool
<1>6. ASSUME NEW t \in Tasks, CallAdd(t) PROVE CallInv'
  BY <1>6 DEF CallAdd
<1>7. ASSUME NEW m \in Modes, CallDestroy(m) PROVE CallInv'
  BY <1>7 DEF CallDestroy
<1>8. ASSUME NEW w \in Workers, WorkerStep(w) \/ SpuriousWakeup(w) PROVE CallInv'
  <2>1. UNCHANGED <<mpc, arg, i, accepted>>
    BY <1>8 DEF WorkerStep, WorkerLock, WorkerWait, WorkerPop, WorkerUnlock, WorkerRun,
       WorkerQuit, WorkerExit, SpuriousWakeup, PopHead
  <2>2. QED BY <2>1
<1>9. CASE UNCHANGED vars
  BY <1>9 DEF vars
<1>10. QED
  BY <1>1, <1>2, <1>3, <1>4, <1>5, <1>6, <1>7, <1>8, <1>9 DEF Next, DestroyStep

LEMMA ShutdownStep ==
  TypeOK /\ CallInv /\ CreationInv /\ LockInv /\ ShutdownInv /\ FreedQuiescent
    /\ [Next]_vars => ShutdownInv'
<1> SUFFICES ASSUME TypeOK, CallInv, CreationInv, LockInv, ShutdownInv, FreedQuiescent,
                    [Next]_vars
             PROVE  ShutdownInv'
  OBVIOUS
<1> USE ThreadPoolAssumption
    DEF ShutdownInv, Left, Modes, shared, worker, main, history
<1>1. CASE SpawnThread
  BY <1>1 DEF SpawnThread, CreationInv, TypeOK
<1>2. CASE CountThread \/ CreateFails \/ CreateReturns
  BY <1>2 DEF CountThread, CreateFails, CreateReturns
<1>3. CASE AddLock \/ AddRefused \/ AddUnlock
  BY <1>3 DEF AddLock, AddRefused, AddUnlock
<1>4. CASE AddEnqueue
  BY <1>4 DEF AddEnqueue, SignalOne, TypeOK
<1>5. CASE DestroyLock \/ DestroyRefused \/ DestroyUnlock
  BY <1>5 DEF DestroyLock, DestroyRefused, DestroyUnlock
<1>6. CASE DestroyMark
  BY <1>6 DEF DestroyMark, Broadcast, CallInv, TypeOK
<1>7. CASE JoinTest \/ Join \/ FreeRefused
  BY <1>7 DEF JoinTest, Join, FreeRefused
<1>8. CASE FreeList \/ FreeLock \/ FreePool
  BY <1>8 DEF FreeList, FreeLock, FreePool
<1>9. ASSUME NEW t \in Tasks, CallAdd(t) PROVE ShutdownInv'
  BY <1>9 DEF CallAdd
<1>10. ASSUME NEW m \in Modes, CallDestroy(m) PROVE ShutdownInv'
  BY <1>10 DEF CallDestroy
<1>11. ASSUME NEW w \in Workers,
              \/ WorkerLock(w) \/ WorkerWait(w) \/ WorkerUnlock(w) \/ WorkerRun(w)
              \/ SpuriousWakeup(w)
       PROVE  ShutdownInv'
  BY <1>11 DEF WorkerLock, WorkerWait, WorkerUnlock, WorkerRun, SpuriousWakeup, TypeOK
<1>12. ASSUME NEW w \in Workers, WorkerPop(w) PROVE ShutdownInv'
  BY <1>12 DEF WorkerPop, PopHead, TypeOK
<1>13. ASSUME NEW w \in Workers, WorkerQuit(w) PROVE ShutdownInv'
  BY <1>13 DEF WorkerQuit, MustExit, TypeOK
<1>14. ASSUME NEW w \in Workers, WorkerExit(w) PROVE ShutdownInv'
  BY <1>14 DEF WorkerExit, TypeOK
<1>15. CASE UNCHANGED vars
  BY <1>15 DEF vars
<1>16. QED
  BY <1>1, <1>2, <1>3, <1>4, <1>5, <1>6, <1>7, <1>8, <1>9, <1>10, <1>11, <1>12, <1>13,
     <1>14, <1>15 DEF Next, CreateStep, AddStep, DestroyStep, WorkerStep

LEMMA WakeupStep ==
  TypeOK /\ CreationInv /\ ShutdownInv /\ NoLostWakeup /\ [Next]_vars => NoLostWakeup'
<1> SUFFICES ASSUME TypeOK, CreationInv, ShutdownInv, NoLostWakeup, [Next]_vars
             PROVE  NoLostWakeup'
  OBVIOUS
<1> USE ThreadPoolAssumption DEF NoLostWakeup, shared, worker, main, history
<1>1. CASE SpawnThread
  BY <1>1 DEF SpawnThread, TypeOK, CreationInv
<1>2. CASE CountThread \/ CreateFails \/ CreateReturns
  BY <1>2 DEF CountThread, CreateFails, CreateReturns
<1>3. CASE AddLock \/ AddRefused \/ AddUnlock
  BY <1>3 DEF AddLock, AddRefused, AddUnlock
<1>4. CASE AddEnqueue
  <2>1. shutdown' = "none"
    BY <1>4 DEF AddEnqueue
  <2>2. \E w \in Workers : pc'[w] \in {"lock", "check", "popped", "running"}
    <3>1. CASE \A w \in Workers : pc[w] # "waiting"
      <4>1. 1 \in Workers /\ pc[1] \in WorkerPoints \ {"waiting"} /\ pc' = pc
        BY <1>4, <3>1 DEF AddEnqueue, SignalOne, TypeOK, Workers
      <4>2. pc[1] # "unborn" /\ pc[1] \notin Left
        BY <1>4, <4>1 DEF AddEnqueue, CreationInv, ShutdownInv
      <4>3. QED BY <4>1, <4>2 DEF WorkerPoints, Left
    <3>2. CASE \E w \in Workers : pc[w] = "waiting"
      BY <1>4, <3>2 DEF AddEnqueue, SignalOne, TypeOK
    <3>3. QED BY <3>1, <3>2
  <2>3. QED BY <2>1, <2>2
<1>5. CASE DestroyMark
  BY <1>5 DEF DestroyMark, Broadcast
<1>6. CASE DestroyLock \/ DestroyRefused \/ DestroyUnlock \/ JoinTest \/ Join
  BY <1>6 DEF DestroyLock, DestroyRefused, DestroyUnlock, JoinTest, Join
<1>7. CASE FreeRefused \/ FreeList \/ FreeLock \/ FreePool
  BY <1>7 DEF FreeRefused, FreeList, FreeLock, FreePool
<1>8. ASSUME NEW t \in Tasks, CallAdd(t) PROVE NoLostWakeup'
  BY <1>8 DEF CallAdd
<1>9. ASSUME NEW m \in Modes, CallDestroy(m) PROVE NoLostWakeup'
  BY <1>9 DEF CallDestroy
<1>10. ASSUME NEW w \in Workers,
              \/ WorkerLock(w) \/ WorkerUnlock(w) \/ WorkerRun(w) \/ SpuriousWakeup(w)
       PROVE  NoLostWakeup'
  BY <1>10 DEF WorkerLock, WorkerUnlock, WorkerRun, SpuriousWakeup, TypeOK
<1>11. ASSUME NEW w \in Workers, WorkerPop(w) PROVE NoLostWakeup'
  BY <1>11 DEF WorkerPop, PopHead, TypeOK
<1>12. ASSUME NEW w \in Workers, WorkerWait(w) \/ WorkerQuit(w) \/ WorkerExit(w)
       PROVE  NoLostWakeup'
  BY <1>12 DEF WorkerWait, WorkerQuit, WorkerExit, MustExit, ShutdownInv, Left, TypeOK
<1>13. CASE UNCHANGED vars
  BY <1>13 DEF vars
<1>14. QED
  BY <1>1, <1>2, <1>3, <1>4, <1>5, <1>6, <1>7, <1>8, <1>9, <1>10, <1>11, <1>12, <1>13
     DEF Next, CreateStep, AddStep, DestroyStep, WorkerStep

LEMMA FreeListAlone ==
  ASSUME TypeOK, CreationInv, CountInv, FreeList
  PROVE  \A w \in Workers : pc[w] \in Left
<1>1. Cardinality(Alive) = 0
  BY AliveFinite DEF FreeList, SomeThreadLeft, CountInv, TypeOK, Alive
<1>2. Alive = {}
  BY <1>1, AliveFinite, FS_EmptySet DEF Alive
<1>3. QED BY <1>2 DEF FreeList, Alive, CreationInv

\* thread_count = 0 leaves nobody alive, so whoever has not exited is between the
\* decrement and the release of the mutex, and the lock of threadpool_free waits
\* for that one.
LEMMA FreedStep ==
  TypeOK /\ LockInv /\ CreationInv /\ CountInv /\ ShutdownInv /\ FreedQuiescent
    /\ [Next]_vars => FreedQuiescent'
<1> SUFFICES ASSUME TypeOK, LockInv, CreationInv, CountInv, ShutdownInv, FreedQuiescent,
                    [Next]_vars
             PROVE  FreedQuiescent'
  OBVIOUS
<1> USE ThreadPoolAssumption DEF FreedQuiescent, shared, worker, main, history
<1>1. CASE CreateStep
  BY <1>1 DEF CreateStep, SpawnThread, CountThread, CreateFails, CreateReturns, CreationInv
<1>2. CASE AddStep
  BY <1>2 DEF AddStep, AddLock, AddEnqueue, AddRefused, AddUnlock, ShutdownInv
<1>3. CASE DestroyLock \/ DestroyRefused \/ DestroyMark \/ DestroyUnlock
  BY <1>3 DEF DestroyLock, DestroyRefused, DestroyMark, DestroyUnlock, ShutdownInv
<1>4. CASE JoinTest \/ Join \/ FreeRefused
  BY <1>4 DEF JoinTest, Join, FreeRefused, ShutdownInv
<1>5. CASE FreeList
  <2>3. \A w \in Workers : pc[w] \in {"leaving", "exited"}
    BY <1>5, FreeListAlone DEF Left
  <2>4. G_THREAD_POOL # "freed"
    BY <1>5 DEF FreeList, ShutdownInv
  <2>5. QED BY <1>5, <2>3, <2>4 DEF FreeList
<1>6. CASE FreeLock
  <2>1. \A w \in Workers : pc[w] # "leaving"
    BY <1>6 DEF FreeLock, LockInv, Workers, Nobody
  <2>2. QED BY <1>6, <2>1 DEF FreeLock
<1>7. CASE FreePool
  BY <1>7 DEF FreePool
<1>8. ASSUME NEW t \in Tasks, CallAdd(t) PROVE FreedQuiescent'
  BY <1>8 DEF CallAdd
<1>9. ASSUME NEW m \in Modes, CallDestroy(m) PROVE FreedQuiescent'
  BY <1>9 DEF CallDestroy
<1>10. ASSUME NEW w \in Workers, WorkerStep(w) \/ SpuriousWakeup(w) PROVE FreedQuiescent'
  <2>1. UNCHANGED <<mpc, G_THREAD_POOL>>
    BY <1>10 DEF WorkerStep, WorkerLock, WorkerWait, WorkerPop, WorkerUnlock, WorkerRun,
       WorkerQuit, WorkerExit, SpuriousWakeup
  <2>2. /\ pc[w] # "exited"
        /\ pc[w] = "leaving" => pc' = [pc EXCEPT ![w] = "exited"]
        /\ \E p \in WorkerPoints : pc' = [pc EXCEPT ![w] = p]
    BY <1>10 DEF WorkerStep, WorkerLock, WorkerWait, WorkerPop, WorkerUnlock, WorkerRun,
       WorkerQuit, WorkerExit, SpuriousWakeup, WorkerPoints
  <2>3. QED BY <2>1, <2>2 DEF TypeOK
<1>11. CASE UNCHANGED vars
  BY <1>11 DEF vars
<1>12. QED
  BY <1>1, <1>2, <1>3, <1>4, <1>5, <1>6, <1>7, <1>8, <1>9, <1>10, <1>11
     DEF Next, DestroyStep

-----------------------------------------------------------------------------
(* The order of the tasks.                                                 *)

LEMMA PopOrder ==
  ASSUME NEW S, NEW a \in Seq(S), NEW b \in Seq(S), b # <<>>
  PROVE  Append(a, Head(b)) \o Tail(b) = a \o b
<1> DEFINE c == Append(a, Head(b))
<1>1. /\ Head(b) = b[1] /\ Head(b) \in S
      /\ Tail(b) \in Seq(S) /\ Len(Tail(b)) = Len(b) - 1
      /\ \A k \in 1..Len(Tail(b)) : Tail(b)[k] = b[k + 1]
  BY HeadTailProperties
<1>2. /\ c \in Seq(S) /\ Len(c) = Len(a) + 1
      /\ \A k \in 1..Len(c) : c[k] = IF k <= Len(a) THEN a[k] ELSE b[1]
  BY <1>1
<1>3. /\ c \o Tail(b) \in Seq(S) /\ a \o b \in Seq(S)
      /\ Len(c \o Tail(b)) = Len(a \o b)
      /\ Len(a \o b) = Len(a) + Len(b)
      /\ Len(a) \in Nat /\ Len(b) \in Nat /\ Len(b) > 0
  BY <1>1, <1>2, ConcatProperties
<1>4. ASSUME NEW k \in 1..Len(a \o b)
      PROVE  (c \o Tail(b))[k] = (a \o b)[k]
  <2>1. (a \o b)[k] = IF k <= Len(a) THEN a[k] ELSE b[k - Len(a)]
    BY <1>3, ConcatProperties
  <2>2. (c \o Tail(b))[k] = IF k <= Len(c) THEN c[k] ELSE Tail(b)[k - Len(c)]
    BY <1>1, <1>2, <1>3, ConcatProperties
  <2> HIDE DEF c
  <2>3. QED BY <1>1, <1>2, <1>3, <2>1, <2>2
<1>5. QED BY <1>3, <1>4, SeqEqual

LEMMA AppendOrder ==
  ASSUME NEW S, NEW a \in Seq(S), NEW b \in Seq(S), NEW e \in S
  PROVE  a \o Append(b, e) = Append(a \o b, e)
<1> DEFINE c == Append(b, e)
           d == Append(a \o b, e)
<1>1. /\ a \o b \in Seq(S) /\ Len(a \o b) = Len(a) + Len(b)
      /\ Len(a) \in Nat /\ Len(b) \in Nat
  BY ConcatProperties
<1>2. /\ c \in Seq(S) /\ Len(c) = Len(b) + 1
      /\ \A k \in 1..Len(c) : c[k] = IF k <= Len(b) THEN b[k] ELSE e
  OBVIOUS
<1>3. /\ d \in Seq(S) /\ Len(d) = Len(a) + Len(b) + 1
      /\ \A k \in 1..Len(d) : d[k] = IF k <= Len(a) + Len(b) THEN (a \o b)[k] ELSE e
  BY <1>1
<1>4. a \o c \in Seq(S) /\ Len(a \o c) = Len(d)
  BY <1>1, <1>2, <1>3, ConcatProperties
<1>5. ASSUME NEW k \in 1..Len(d)
      PROVE  (a \o c)[k] = d[k]
  <2>1. (a \o c)[k] = IF k <= Len(a) THEN a[k] ELSE c[k - Len(a)]
    BY <1>1, <1>2, <1>3, <1>4, ConcatProperties
  <2>2. k <= Len(a) + Len(b) => (a \o b)[k] = IF k <= Len(a) THEN a[k] ELSE b[k - Len(a)]
    BY <1>1, <1>3, ConcatProperties
  <2> HIDE DEF c, d
  <2>3. ASSUME k > Len(a)
        PROVE  c[k - Len(a)] = IF k <= Len(a) + Len(b) THEN b[k - Len(a)] ELSE e
    <3>1. k - Len(a) \in 1..Len(c)
      BY <1>1, <1>2, <1>3, <2>3
    <3>2. k - Len(a) <= Len(b) <=> k <= Len(a) + Len(b)
      BY <1>1, <1>3
    <3>3. QED BY <1>2, <3>1, <3>2
  <2>4. QED BY <1>1, <1>3, <2>1, <2>2, <2>3
<1>6. QED BY <1>3, <1>4, <1>5, SeqEqual

\* Steps that leave the history, the list and the hands of the workers alone.
LEMMA TaskStutter ==
  ASSUME EachTaskOnce,
         UNCHANGED <<accepted, started, done, task_list, shutdown, cur>>, Busy' = Busy
  PROVE  EachTaskOnce'
<1>1. Held' = Held
  BY DEF Held
<1>2. QED BY <1>1 DEF EachTaskOnce, Distinct, InOrder, OneHolder

LEMMA EnqueueStep ==
  ASSUME TypeOK, CallInv, EachTaskOnce, AddEnqueue
  PROVE  EachTaskOnce'
<1>1. Busy' = Busy
  BY DEF AddEnqueue, SignalOne, Busy, TypeOK
<1>2. OneHolder'
  <2>1. UNCHANGED <<cur, started, done>>
    BY DEF AddEnqueue
  <2>2. Held' = Held
    BY <1>1, <2>1 DEF Held
  <2>3. QED BY <1>1, <2>1, <2>2 DEF EachTaskOnce, OneHolder
<1>3. arg \in Tasks /\ \A k \in DOMAIN accepted : accepted[k] # arg
  BY DEF CallInv, Submitted, AddEnqueue
<1>4. Distinct'
  <2>1. /\ DOMAIN accepted = 1..Len(accepted) /\ Len(accepted) \in Nat
        /\ DOMAIN accepted' = 1..(Len(accepted) + 1)
        /\ accepted'[Len(accepted) + 1] = arg
        /\ \A k \in 1..Len(accepted) : accepted'[k] = accepted[k]
    BY <1>3 DEF AddEnqueue, TypeOK
  <2>2. QED BY <1>3, <2>1 DEF EachTaskOnce, Distinct
<1>5. accepted = started \o task_list
  BY DEF EachTaskOnce, InOrder, AddEnqueue
<1>6. InOrder'
  <2>1. started \in Seq(Tasks) /\ task_list \in Seq(Tasks)
    BY DEF TypeOK
  <2>2. started \o Append(task_list, arg) = Append(started \o task_list, arg)
    BY <1>3, <2>1, AppendOrder
  <2>3. /\ accepted' = Append(accepted, arg) /\ task_list' = Append(task_list, arg)
        /\ started' = started
    BY DEF AddEnqueue
  <2>4. accepted' = started' \o task_list'
    BY <1>5, <2>2, <2>3
  <2>5. QED BY <2>4 DEF InOrder
<1>7. QED BY <1>2, <1>4, <1>6 DEF EachTaskOnce

LEMMA PopStep ==
  ASSUME TypeOK, EachTaskOnce, NEW w \in Workers, WorkerPop(w)
  PROVE  /\ EachTaskOnce'
         /\ Held' = Held \cup {Head(task_list)}
<1> DEFINE h == Head(task_list)
<1>1. accepted = started \o task_list
  BY DEF EachTaskOnce, InOrder, WorkerPop, MustExit
<1>2. /\ h \in Tasks /\ h = task_list[1] /\ task_list # <<>> /\ Len(task_list) \in Nat \ {0}
      /\ Len(started) \in Nat
  BY HeadTailProperties, EmptySeq DEF WorkerPop, TypeOK
<1>3. /\ Len(accepted) = Len(started) + Len(task_list)
      /\ accepted[Len(started) + 1] = h
      /\ \A k \in DOMAIN started : accepted[k] = started[k]
  <2>1. /\ Len(accepted) = Len(started) + Len(task_list)
        /\ \A k \in 1..(Len(started) + Len(task_list)) :
             accepted[k] = IF k <= Len(started) THEN started[k] ELSE task_list[k - Len(started)]
    BY <1>1, ConcatProperties DEF TypeOK
  <2>2. accepted[Len(started) + 1] = task_list[(Len(started) + 1) - Len(started)]
    BY <1>2, <2>1
  <2>3. DOMAIN started = 1..Len(started)
    BY LenProperties DEF TypeOK
  <2>4. QED BY <1>2, <2>1, <2>2, <2>3
<1>4. h \notin done \cup Held
  <2>1. SUFFICES ASSUME NEW k \in DOMAIN started, started[k] = h
                 PROVE  FALSE
    BY DEF EachTaskOnce, OneHolder
  <2>2. k \in DOMAIN accepted /\ Len(started) + 1 \in DOMAIN accepted /\ k # Len(started) + 1
    BY <1>2, <1>3 DEF TypeOK
  <2>3. QED BY <1>3, <2>1, <2>2 DEF EachTaskOnce, Distinct
<1>5. Busy' = Busy \cup {w} /\ w \notin Busy
  BY DEF WorkerPop, Busy, TypeOK
<1>6. cur' = [cur EXCEPT ![w] = h] /\ cur'[w] = h
  BY DEF WorkerPop, PopHead, TypeOK
<1>7. Held' = Held \cup {h}
  BY <1>5, <1>6 DEF Held, Busy, TypeOK
<1>8. {started'[k] : k \in DOMAIN started'} = {started[k] : k \in DOMAIN started} \cup {h}
  <2>1. started' = Append(started, h) /\ started \in Seq(Tasks)
    BY DEF WorkerPop, PopHead, TypeOK
  <2>2. /\ DOMAIN started = 1..Len(started)
        /\ DOMAIN started' = 1..(Len(started) + 1)
        /\ started'[Len(started) + 1] = h
        /\ \A k \in 1..Len(started) : started'[k] = started[k]
    BY <1>2, <2>1
  <2>3. DOMAIN started' = DOMAIN started \cup {Len(started) + 1}
    BY <1>2, <2>2
  <2>4. QED BY <2>2, <2>3
<1>9. \A u, v \in Busy' : cur'[u] = cur'[v] => u = v
  BY <1>4, <1>5, <1>6 DEF EachTaskOnce, OneHolder, Held, Busy, TypeOK
<1>10. OneHolder'
  BY <1>4, <1>7, <1>8, <1>9 DEF EachTaskOnce, OneHolder, WorkerPop
<1>11. InOrder'
  BY <1>1, <1>2, PopOrder DEF InOrder, WorkerPop, PopHead, TypeOK
<1>12. Distinct'
  BY DEF EachTaskOnce, Distinct, WorkerPop
<1>13. QED BY <1>7, <1>10, <1>11, <1>12 DEF EachTaskOnce

LEMMA RunStep ==
  ASSUME TypeOK, EachTaskOnce, NEW w \in Workers, WorkerRun(w)
  PROVE  /\ EachTaskOnce'
         /\ cur[w] \in Held
         /\ Held' = Held \ {cur[w]}
<1>1. w \in Busy /\ Busy' = Busy \ {w}
  BY DEF WorkerRun, Busy, TypeOK
<1>2. \A v \in Busy' : cur'[v] = cur[v]
  BY <1>1 DEF WorkerRun, Busy, TypeOK
<1>3. Held' = {cur[v] : v \in Busy \ {w}}
  BY <1>1, <1>2 DEF Held
<1>4. Held' = Held \ {cur[w]} /\ cur[w] \in Held
  <2>1. \A v \in Busy : v # w => cur[v] # cur[w]
    BY <1>1 DEF EachTaskOnce, OneHolder
  <2>2. cur[w] \in Held
    BY <1>1 DEF Held
  <2>3. Held' \subseteq Held \ {cur[w]}
    BY <1>3, <2>1 DEF Held
  <2>4. ASSUME NEW v \in Busy, cur[v] # cur[w]
        PROVE  cur[v] \in Held'
    BY <1>3, <2>4
  <2>5. Held \ {cur[w]} \subseteq Held'
    BY <2>4 DEF Held
  <2>6. QED BY <2>2, <2>3, <2>5
<1>5. OneHolder'
  BY <1>1, <1>2, <1>4 DEF EachTaskOnce, OneHolder, WorkerRun
<1>6. UNCHANGED <<accepted, started, task_list, shutdown>>
  BY DEF WorkerRun, shared
<1>7. Distinct' /\ InOrder'
  BY <1>6 DEF EachTaskOnce, InOrder, Distinct
<1>8. QED BY <1>4, <1>5, <1>7 DEF EachTaskOnce

\* threadpool_free drops the list: a graceful shutdown has drained it by then.
LEMMA FreeListStep ==
  ASSUME TypeOK, CreationInv, CountInv, ShutdownInv, EachTaskOnce, FreeList
  PROVE  /\ EachTaskOnce'
         /\ shutdown = "immediate" \/ task_list = <<>>
<1>1. shutdown = "immediate" \/ task_list = <<>>
  <2>1. 1 \in Workers
    BY ThreadPoolAssumption DEF Workers
  <2>2. QED BY <2>1, FreeListAlone DEF FreeList, ShutdownInv, TypeOK, Modes
<1>2. UNCHANGED <<accepted, started, done, shutdown, cur>> /\ Busy' = Busy /\ task_list' = <<>>
  BY DEF FreeList, worker, history, Busy
<1>3. CASE task_list = <<>>
  BY <1>1, <1>2, <1>3, TaskStutter
<1>4. CASE shutdown = "immediate" /\ accepted = started \o task_list
  <2>1. /\ Len(accepted) = Len(started) + Len(task_list)
        /\ Len(started) \in Nat /\ Len(task_list) \in Nat
        /\ DOMAIN started = 1..Len(started)
        /\ \A k \in 1..(Len(started) + Len(task_list)) :
             accepted[k] = IF k <= Len(started) THEN started[k] ELSE task_list[k - Len(started)]
    BY <1>4, ConcatProperties, LenProperties DEF TypeOK
  <2>2. Len(started) <= Len(accepted) /\ \A k \in DOMAIN started : started[k] = accepted[k]
    BY <2>1
  <2>3. InOrder'
    BY <1>2, <1>4, <2>2 DEF InOrder
  <2>4. QED BY <1>1, <1>2, <2>3 DEF EachTaskOnce, Distinct, OneHolder, Held
<1>5. QED BY <1>1, <1>3, <1>4 DEF EachTaskOnce, InOrder

LEMMA TaskStep ==
  TypeOK /\ CallInv /\ CreationInv /\ CountInv /\ ShutdownInv /\ EachTaskOnce
    /\ [Next]_vars => EachTaskOnce'
<1> SUFFICES ASSUME TypeOK, CallInv, CreationInv, CountInv, ShutdownInv, EachTaskOnce,
                    [Next]_vars
             PROVE  EachTaskOnce'
  OBVIOUS
<1> USE DEF shared, worker, main, history
<1>1. CASE SpawnThread
  <2>1. UNCHANGED <<accepted, started, done, task_list, shutdown, cur>> /\ Busy' = Busy
    BY <1>1 DEF SpawnThread, Busy, TypeOK, CreationInv, Workers
  <2>2. QED BY <2>1, TaskStutter
<1>2. CASE CountThread \/ CreateFails \/ CreateReturns \/ AddLock \/ AddRefused \/ AddUnlock
  <2>1. UNCHANGED <<accepted, started, done, task_list, shutdown, cur, pc>>
    BY <1>2 DEF CountThread, CreateFails, CreateReturns, AddLock, AddRefused, AddUnlock
  <2>2. QED BY <2>1, TaskStutter DEF Busy
<1>3. CASE AddEnqueue
  BY <1>3, EnqueueStep
<1>4. CASE DestroyLock \/ DestroyRefused \/ DestroyUnlock \/ JoinTest \/ Join
           \/ FreeRefused \/ FreeLock \/ FreePool
  <2>1. UNCHANGED <<accepted, started, done, task_list, shutdown, cur, pc>>
    BY <1>4 DEF DestroyLock, DestroyRefused, DestroyUnlock, JoinTest, Join, FreeRefused,
       FreeLock, FreePool
  <2>2. QED BY <2>1, TaskStutter DEF Busy
<1>5. CASE DestroyMark
  <2>1. UNCHANGED <<accepted, started, done, task_list, cur>> /\ Busy' = Busy
    BY <1>5 DEF DestroyMark, Broadcast, Busy
  <2>2. shutdown = "none"
    BY <1>5 DEF DestroyMark
  <2>3. InOrder'
    BY <2>1, <2>2 DEF EachTaskOnce, InOrder
  <2>4. QED BY <2>1, <2>3 DEF EachTaskOnce, Distinct, OneHolder, Held
<1>6. CASE FreeList
  BY <1>6, FreeListStep
<1>7. ASSUME NEW t \in Tasks, CallAdd(t) PROVE EachTaskOnce'
  BY <1>7, TaskStutter DEF CallAdd, Busy
<1>8. ASSUME NEW m \in Modes, CallDestroy(m) PROVE EachTaskOnce'
  BY <1>8, TaskStutter DEF CallDestroy, Busy
<1>9. ASSUME NEW w \in Workers, WorkerPop(w) PROVE EachTaskOnce'
  BY <1>9, PopStep
<1>10. ASSUME NEW w \in Workers, WorkerRun(w) PROVE EachTaskOnce'
  BY <1>10, RunStep
<1>11. ASSUME NEW w \in Workers,
              \/ WorkerLock(w) \/ WorkerWait(w) \/ WorkerUnlock(w) \/ WorkerQuit(w)
              \/ WorkerExit(w) \/ SpuriousWakeup(w)
       PROVE  EachTaskOnce'
  <2>1. UNCHANGED <<accepted, started, done, task_list, shutdown, cur>>
    BY <1>11 DEF WorkerLock, WorkerWait, WorkerUnlock, WorkerQuit, WorkerExit, SpuriousWakeup
  <2>2. Busy' = Busy
    BY <1>11 DEF WorkerLock, WorkerWait, WorkerUnlock, WorkerQuit, WorkerExit,
       SpuriousWakeup, Busy, TypeOK
  <2>3. QED BY <2>1, <2>2, TaskStutter
<1>12. CASE UNCHANGED vars
  BY <1>12, TaskStutter DEF vars, Busy
<1>13. QED
  BY <1>1, <1>2, <1>3, <1>4, <1>5, <1>6, <1>7, <1>8, <1>9, <1>10, <1>11, <1>12
     DEF Next, CreateStep, AddStep, DestroyStep, WorkerStep

-----------------------------------------------------------------------------
(* The theorems.                                                           *)

\* IInv holds initially and is kept by every step.
THEOREM Invariance == Spec => []IInv
<1>1. Init => IInv
  BY InitIInv
<1>2. IInv /\ [Next]_vars => IInv'
  BY TypeStep, CallStep, LockStep, CreationStep, CountStep, ShutdownStep, WakeupStep,
     FreedStep, TaskStep DEF IInv
<1>3. QED BY <1>1, <1>2, PTL DEF Spec

\* The variables keep their types; thread_count stays between 0 and NumThreads
\* although it is incremented without the lock and read without it.
THEOREM TypeCorrect == Spec => []TypeOK
BY Invariance, PTL DEF IInv

\* Accepted tasks are started at most once, in order, by one worker.
THEOREM TaskOnce == Spec => []EachTaskOnce
BY Invariance, PTL DEF IInv

\* No wakeup is lost.
THEOREM Wakeups == Spec => []NoLostWakeup
BY Invariance, PTL DEF IInv

\* The pool is freed only when no worker can touch it any more.
THEOREM FreedSafely == Spec => []FreedQuiescent
BY Invariance, PTL DEF IInv

\* The pool implements the abstract one: every step is one of TaskPool's, or
\* changes nothing TaskPool sees.
THEOREM Refinement == Spec => ImplementsTaskPool
<1>1. Init => Abstract!Init
  BY DEF Init, Abstract!Init, Held, Busy
<1>2. IInv /\ [Next]_vars => [Abstract!Next]_(Abstract!vars)
  <2> SUFFICES ASSUME IInv, [Next]_vars
               PROVE  [Abstract!Next]_(Abstract!vars)
    OBVIOUS
  <2> USE DEF IInv, shared, worker, main, history
  <2>1. ASSUME UNCHANGED <<shutdown, task_list, done, cur>>, Busy' = Busy
        PROVE  UNCHANGED Abstract!vars
    BY <2>1 DEF Abstract!vars, Held
  <2>2. CASE SpawnThread
    <3>1. UNCHANGED <<shutdown, task_list, done, cur>> /\ Busy' = Busy
      BY <2>2 DEF SpawnThread, Busy, TypeOK, CreationInv, Workers
    <3>2. QED BY <2>1, <3>1
  <2>3. CASE CountThread \/ CreateFails \/ CreateReturns \/ AddLock \/ AddRefused \/ AddUnlock
    <3>1. UNCHANGED <<shutdown, task_list, done, cur, pc>>
      BY <2>3 DEF CountThread, CreateFails, CreateReturns, AddLock, AddRefused, AddUnlock
    <3>2. QED BY <2>1, <3>1 DEF Busy
  <2>4. CASE AddEnqueue
    <3>1. Held' = Held
      BY <2>4 DEF AddEnqueue, SignalOne, Busy, Held, TypeOK
    <3>2. Abstract!Submit(arg) /\ arg \in Tasks
      BY <2>4, <3>1 DEF AddEnqueue, CallInv, Abstract!Submit
    <3>3. QED BY <3>2 DEF Abstract!Next
  <2>5. CASE DestroyLock \/ DestroyRefused \/ DestroyUnlock \/ JoinTest \/ Join
             \/ FreeRefused \/ FreeLock \/ FreePool
    <3>1. UNCHANGED <<shutdown, task_list, done, cur, pc>>
      BY <2>5 DEF DestroyLock, DestroyRefused, DestroyUnlock, JoinTest, Join, FreeRefused,
         FreeLock, FreePool
    <3>2. QED BY <2>1, <3>1 DEF Busy
  <2>6. CASE DestroyMark
    <3>1. Held' = Held
      BY <2>6 DEF DestroyMark, Broadcast, Busy, Held
    <3>2. Abstract!Close(arg) /\ arg \in Modes
      BY <2>6, <3>1 DEF DestroyMark, CallInv, Abstract!Close
    <3>3. QED BY <3>2 DEF Abstract!Next, Modes
  <2>7. CASE FreeList
    <3>1. shutdown = "immediate" \/ task_list = <<>>
      BY <2>7, FreeListStep
    <3>2. UNCHANGED <<shutdown, done, cur, pc>> /\ task_list' = <<>>
      BY <2>7 DEF FreeList
    <3>3. Held' = Held
      BY <3>2 DEF Busy, Held
    <3>4. CASE shutdown = "immediate"
      BY <3>2, <3>3, <3>4 DEF Abstract!Next, Abstract!Drop
    <3>5. CASE task_list = <<>>
      BY <3>2, <3>3, <3>5 DEF Abstract!vars
    <3>6. QED BY <3>1, <3>4, <3>5
  <2>8. ASSUME NEW t \in Tasks, CallAdd(t) PROVE UNCHANGED Abstract!vars
    BY <2>1, <2>8 DEF CallAdd, Busy
  <2>9. ASSUME NEW m \in Modes, CallDestroy(m) PROVE UNCHANGED Abstract!vars
    BY <2>1, <2>9 DEF CallDestroy, Busy
  <2>10. ASSUME NEW w \in Workers, WorkerPop(w) PROVE Abstract!Start
    <3>1. Held' = Held \cup {Head(task_list)}
      BY <2>10, PopStep
    <3>2. QED BY <2>10, <3>1 DEF WorkerPop, PopHead, MustExit, Abstract!Start
  <2>11. ASSUME NEW w \in Workers, WorkerRun(w) PROVE Abstract!Next
    <3>1. cur[w] \in Held /\ Held' = Held \ {cur[w]}
      BY <2>11, RunStep
    <3>2. cur[w] \in Tasks
      BY <3>1 DEF EachTaskOnce, OneHolder, TypeOK
    <3>3. Abstract!Finish(cur[w])
      BY <2>11, <3>1 DEF WorkerRun, Abstract!Finish
    <3>4. QED BY <3>2, <3>3 DEF Abstract!Next
  <2>12. ASSUME NEW w \in Workers,
                \/ WorkerLock(w) \/ WorkerWait(w) \/ WorkerUnlock(w) \/ WorkerQuit(w)
                \/ WorkerExit(w) \/ SpuriousWakeup(w)
         PROVE  UNCHANGED Abstract!vars
    <3>1. UNCHANGED <<shutdown, task_list, done, cur>>
      BY <2>12 DEF WorkerLock, WorkerWait, WorkerUnlock, WorkerQuit, WorkerExit,
         SpuriousWakeup
    <3>2. Busy' = Busy
      BY <2>12 DEF WorkerLock, WorkerWait, WorkerUnlock, WorkerQuit, WorkerExit,
         SpuriousWakeup, Busy, TypeOK
    <3>3. QED BY <2>1, <3>1, <3>2
  <2>13. CASE UNCHANGED vars
    BY <2>1, <2>13 DEF vars, Busy
  <2>14. QED
    BY <2>2, <2>3, <2>4, <2>5, <2>6, <2>7, <2>8, <2>9, <2>10, <2>11, <2>12, <2>13
       DEF Next, CreateStep, AddStep, DestroyStep, WorkerStep, Abstract!Next
<1>3. QED BY <1>1, <1>2, Invariance, PTL DEF Spec, ImplementsTaskPool, Abstract!Spec
=============================================================================
