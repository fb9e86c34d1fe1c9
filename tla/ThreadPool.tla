----------------------------- MODULE ThreadPool -----------------------------
(***************************************************************************)
(* utils/thread_pool.c: worker threads that share a task list under one    *)
(* mutex and one condition variable, and the main thread, which creates    *)
(* the pool, adds tasks (from the event loop it runs) and destroys it.     *)
(*                                                                         *)
(* Everything done under pool->lock is one step between the acquisition    *)
(* and the release, which are steps of their own.  pool->thread_count is   *)
(* read by the destroyer WITHOUT the lock, so each of its reads is a step. *)
(***************************************************************************)
EXTENDS Naturals, Sequences, FiniteSets

CONSTANTS
  NumThreads,      \* thread_count asked of threadpool_create
  Tasks,           \* the tasks main may submit, each at most once
  MaxDestroys,     \* how often main may call threadpool_destroy
  CreateMayFail,   \* may pthread_create fail (line 69)?
  NoTask           \* no task: the task_node of a worker that runs none

Workers == 1..NumThreads
Main    == 0       \* the main thread, as a holder of pool->lock
Nobody  == NumThreads + 1

ASSUME ThreadPoolAssumption ==
  /\ NumThreads \in Nat \ {0}
  /\ MaxDestroys \in Nat
  /\ CreateMayFail \in BOOLEAN
  /\ NoTask \notin Tasks

VARIABLES
  G_THREAD_POOL,   \* the global handle: "NULL", "live", or "freed" (dangling)
  thread_count,    \* pool->thread_count
  shutdown,        \* pool->shutdown: "none", "immediate", "graceful"
  task_list,       \* pool->task_list, head first
  lock,            \* holder of pool->lock, or Nobody
  pc,              \* where each worker is in threadpool_thread
  cur,             \* task_node of each worker
  mpc,             \* where main is in the pool's functions
  i,               \* loop index of threadpool_create, then of threadpool_destroy
  arg,             \* the argument of main's call: a task, or a shutdown mode
  destroys,        \* calls of threadpool_destroy so far
  destroyRet,      \* what the last threadpool_destroy returned: "none", "ok", "error"
  accepted,        \* history: tasks threadpool_add answered 0 for, in order
  started,         \* history: tasks popped by a worker, in order
  done             \* history: tasks whose function returned

shared  == <<G_THREAD_POOL, thread_count, shutdown, task_list, lock>>
worker  == <<pc, cur>>
main    == <<mpc, i, arg, destroys, destroyRet>>
history == <<accepted, started, done>>
vars    == <<shared, worker, main, history>>

Init ==
  /\ G_THREAD_POOL = "NULL"
  /\ thread_count = 0
  /\ shutdown = "none"
  /\ task_list = <<>>
  /\ lock = Nobody
  /\ pc = [w \in Workers |-> "unborn"]
  /\ cur = [w \in Workers |-> NoTask]
  /\ mpc = "create"
  /\ i = 0
  /\ arg = NoTask
  /\ destroys = 0
  /\ destroyRet = "none"
  /\ accepted = <<>>
  /\ started = <<>>
  /\ done = {}

-----------------------------------------------------------------------------
(* threadpool_create                                                       *)

\* pthread_create succeeded: the thread runs, and is not counted yet.
SpawnThread ==
  /\ mpc = "create" /\ i < NumThreads
  /\ pc' = [pc EXCEPT ![i + 1] = "lock"]
  /\ mpc' = "count"
  /\ UNCHANGED <<shared, cur, i, arg, destroys, destroyRet, history>>

CountThread ==
  /\ mpc = "count"
  /\ thread_count' = thread_count + 1
  /\ i' = i + 1
  /\ mpc' = "create"
  /\ UNCHANGED <<G_THREAD_POOL, shutdown, task_list, lock, worker, arg, destroys,
                 destroyRet, history>>

\* pthread_create failed: threadpool_destroy finds G_THREAD_POOL still NULL and
\* does nothing, and "return NULL" is the 0 that main takes for success.
CreateFails ==
  /\ CreateMayFail
  /\ mpc = "create" /\ i < NumThreads
  /\ mpc' = "idle"
  /\ UNCHANGED <<shared, worker, i, arg, destroys, destroyRet, history>>

CreateReturns ==
  /\ mpc = "create" /\ i = NumThreads
  /\ G_THREAD_POOL' = "live"
  /\ mpc' = "idle"
  /\ UNCHANGED <<thread_count, shutdown, task_list, lock, worker, i, arg, destroys,
                 destroyRet, history>>

-----------------------------------------------------------------------------
(* threadpool_add.  Main calls nothing on a pool it has freed.             *)

Submitted(t) == \E k \in DOMAIN accepted : accepted[k] = t

CallAdd(t) ==
  /\ mpc = "idle" /\ G_THREAD_POOL = "live"
  /\ ~ Submitted(t)
  /\ arg' = t
  /\ mpc' = "addLock"
  /\ UNCHANGED <<shared, worker, i, destroys, destroyRet, history>>

AddLock ==
  /\ mpc = "addLock" /\ lock = Nobody
  /\ lock' = Main
  /\ mpc' = "add"
  /\ UNCHANGED <<G_THREAD_POOL, thread_count, shutdown, task_list, worker, i, arg,
                 destroys, destroyRet, history>>

\* pthread_cond_signal wakes at least one waiter, if there is one: POSIX allows
\* more, and SpuriousWakeup covers them.
SignalNone == UNCHANGED pc                                          \* MUTANT

SignalOne ==
  LET waiting == {w \in Workers : pc[w] = "waiting"}
  IN  \/ waiting = {} /\ UNCHANGED pc
      \/ \E w \in waiting : pc' = [pc EXCEPT ![w] = "lock"]

AddEnqueue ==
  /\ mpc = "add" /\ shutdown = "none"
  /\ task_list' = Append(task_list, arg)
  /\ accepted' = Append(accepted, arg)
  /\ SignalOne
  /\ mpc' = "addUnlock"
  /\ UNCHANGED <<G_THREAD_POOL, thread_count, shutdown, lock, cur, i, arg, destroys,
                 destroyRet, started, done>>

\* "Are we shutting down ?": the task is refused.
AddRefused ==
  /\ mpc = "add" /\ shutdown # "none"
  /\ mpc' = "addUnlock"
  /\ UNCHANGED <<shared, worker, i, arg, destroys, destroyRet, history>>

AddUnlock ==
  /\ mpc = "addUnlock"
  /\ lock' = Nobody
  /\ mpc' = "idle"
  /\ UNCHANGED <<G_THREAD_POOL, thread_count, shutdown, task_list, worker, i, arg,
                 destroys, destroyRet, history>>

-----------------------------------------------------------------------------
(* threadpool_destroy and threadpool_free                                  *)

Modes == {"immediate", "graceful"}

CallDestroy(m) ==
  /\ mpc = "idle" /\ G_THREAD_POOL = "live"
  /\ destroys < MaxDestroys
  /\ destroys' = destroys + 1
  /\ destroyRet' = "none"
  /\ arg' = m
  /\ mpc' = "destroyLock"
  /\ UNCHANGED <<shared, worker, i, history>>

DestroyLock ==
  /\ mpc = "destroyLock" /\ lock = Nobody
  /\ lock' = Main
  /\ mpc' = "destroy"
  /\ UNCHANGED <<G_THREAD_POOL, thread_count, shutdown, task_list, worker, i, arg,
                 destroys, destroyRet, history>>

\* Already shutting down: the function returns an error with the lock held, and
\* whatever main calls next stays in AddLock or DestroyLock.
DestroyRefused ==
  /\ mpc = "destroy" /\ shutdown # "none"
  /\ destroyRet' = "error"
  /\ mpc' = "idle"
  /\ UNCHANGED <<shared, worker, i, arg, destroys, history>>

Broadcast_Signal == SignalOne                                       \* MUTANT
Broadcast == pc' = [w \in Workers |-> IF pc[w] = "waiting" THEN "lock" ELSE pc[w]]

DestroyMark ==
  /\ mpc = "destroy" /\ shutdown = "none"
  /\ shutdown' = arg
  /\ Broadcast
  /\ mpc' = "destroyUnlock"
  /\ UNCHANGED <<G_THREAD_POOL, thread_count, task_list, lock, cur, i, arg, destroys,
                 destroyRet, history>>

DestroyUnlock ==
  /\ mpc = "destroyUnlock"
  /\ lock' = Nobody
  /\ i' = 0
  /\ mpc' = "joinTest"
  /\ UNCHANGED <<G_THREAD_POOL, thread_count, shutdown, task_list, worker, arg,
                 destroys, destroyRet, history>>

\* The loop condition reads thread_count, which exiting workers decrement.
JoinTest ==
  /\ mpc = "joinTest"
  /\ mpc' = IF i < thread_count THEN "join" ELSE "freeTest"
  /\ UNCHANGED <<shared, worker, i, arg, destroys, destroyRet, history>>

Join ==
  /\ mpc = "join" /\ pc[i + 1] = "exited"
  /\ i' = i + 1
  /\ mpc' = "joinTest"
  /\ UNCHANGED <<shared, worker, arg, destroys, destroyRet, history>>

SomeThreadLeft_OffByOne == thread_count > 1                         \* MUTANT
SomeThreadLeft == thread_count > 0

\* threadpool_free gives up when a thread is left; its result is ignored.
FreeRefused ==
  /\ mpc = "freeTest" /\ SomeThreadLeft
  /\ destroyRet' = "ok"
  /\ mpc' = "idle"
  /\ UNCHANGED <<shared, worker, i, arg, destroys, history>>

FreeList ==
  /\ mpc = "freeTest" /\ ~ SomeThreadLeft
  /\ task_list' = <<>>
  /\ mpc' = "freeLock"
  /\ UNCHANGED <<G_THREAD_POOL, thread_count, shutdown, lock, worker, i, arg,
                 destroys, destroyRet, history>>

FreeLock ==
  /\ mpc = "freeLock" /\ lock = Nobody
  /\ lock' = Main
  /\ mpc' = "free"
  /\ UNCHANGED <<G_THREAD_POOL, thread_count, shutdown, task_list, worker, i, arg,
                 destroys, destroyRet, history>>

FreePool ==
  /\ mpc = "free"
  /\ G_THREAD_POOL' = "freed"
  /\ destroyRet' = "ok"
  /\ mpc' = "idle"
  /\ UNCHANGED <<thread_count, shutdown, task_list, lock, worker, i, arg, destroys,
                 history>>

-----------------------------------------------------------------------------
(* threadpool_thread                                                       *)

\* pthread_mutex_lock at the top of the loop, or on the way out of
\* pthread_cond_wait.
WorkerLock(w) ==
  /\ pc[w] = "lock" /\ lock = Nobody
  /\ lock' = w
  /\ pc' = [pc EXCEPT ![w] = "check"]
  /\ UNCHANGED <<G_THREAD_POOL, thread_count, shutdown, task_list, cur, main, history>>

WorkerWait(w) ==
  /\ pc[w] = "check" /\ task_list = <<>> /\ shutdown = "none"
  /\ lock' = Nobody
  /\ pc' = [pc EXCEPT ![w] = "waiting"]
  /\ UNCHANGED <<G_THREAD_POOL, thread_count, shutdown, task_list, cur, main, history>>

SpuriousWakeup(w) ==
  /\ pc[w] = "waiting"
  /\ pc' = [pc EXCEPT ![w] = "lock"]
  /\ UNCHANGED <<shared, cur, main, history>>

MustExit_AnyShutdown == shutdown # "none"                           \* MUTANT
MustExit_Drained == shutdown # "none" /\ task_list = <<>>           \* MUTANT

MustExit ==
  \/ shutdown = "immediate"
  \/ shutdown = "graceful" /\ task_list = <<>>

\* listPopNodeFromHead
PopHead(w) ==
  /\ cur' = [cur EXCEPT ![w] = Head(task_list)]
  /\ task_list' = Tail(task_list)
  /\ started' = Append(started, Head(task_list))

WorkerPop(w) ==
  /\ pc[w] = "check" /\ task_list # <<>> /\ ~ MustExit
  /\ PopHead(w)
  /\ pc' = [pc EXCEPT ![w] = "popped"]
  /\ UNCHANGED <<G_THREAD_POOL, thread_count, shutdown, lock, main, accepted, done>>

WorkerUnlock(w) ==
  /\ pc[w] = "popped"
  /\ lock' = Nobody
  /\ pc' = [pc EXCEPT ![w] = "running"]
  /\ UNCHANGED <<G_THREAD_POOL, thread_count, shutdown, task_list, cur, main, history>>

WorkerRun(w) ==
  /\ pc[w] = "running"
  /\ done' = done \cup {cur[w]}
  /\ cur' = [cur EXCEPT ![w] = NoTask]
  /\ pc' = [pc EXCEPT ![w] = "lock"]
  /\ UNCHANGED <<shared, main, accepted, started>>

WorkerQuit(w) ==
  /\ pc[w] = "check" /\ MustExit
  /\ thread_count' = thread_count - 1
  /\ pc' = [pc EXCEPT ![w] = "leaving"]
  /\ UNCHANGED <<G_THREAD_POOL, shutdown, task_list, lock, cur, main, history>>

WorkerExit(w) ==
  /\ pc[w] = "leaving"
  /\ lock' = Nobody
  /\ pc' = [pc EXCEPT ![w] = "exited"]
  /\ UNCHANGED <<G_THREAD_POOL, thread_count, shutdown, task_list, cur, main, history>>

-----------------------------------------------------------------------------
CreateStep == SpawnThread \/ CountThread \/ CreateFails \/ CreateReturns
AddStep == AddLock \/ AddEnqueue \/ AddRefused \/ AddUnlock
DestroyStep == \/ DestroyLock \/ DestroyRefused \/ DestroyMark \/ DestroyUnlock
               \/ JoinTest \/ Join
               \/ FreeRefused \/ FreeList \/ FreeLock \/ FreePool

WorkerStep(w) == \/ WorkerLock(w) \/ WorkerWait(w) \/ WorkerPop(w) \/ WorkerUnlock(w)
                 \/ WorkerRun(w) \/ WorkerQuit(w) \/ WorkerExit(w)

Next ==
  \/ CreateStep \/ AddStep \/ DestroyStep
  \/ \E t \in Tasks : CallAdd(t)
  \/ \E m \in Modes : CallDestroy(m)
  \/ \E w \in Workers : WorkerStep(w) \/ SpuriousWakeup(w)

Spec == Init /\ [][Next]_vars

\* A thread that can run does run, and a thread that asks for the mutex gets it
\* if it is free again and again.  Main need not call anything, a task is
\* assumed to return, and nothing makes a spurious wakeup happen.
Fairness ==
  /\ WF_vars(CreateStep) /\ WF_vars(AddStep) /\ WF_vars(DestroyStep)
  /\ SF_vars(AddLock) /\ SF_vars(DestroyLock) /\ SF_vars(FreeLock)
  /\ \A w \in Workers : WF_vars(WorkerStep(w)) /\ SF_vars(WorkerLock(w))

FairSpec == Spec /\ Fairness

-----------------------------------------------------------------------------
(* Properties                                                              *)

MainPoints == {"create", "count", "idle", "addLock", "add", "addUnlock",
               "destroyLock", "destroy", "destroyUnlock", "joinTest", "join",
               "freeTest", "freeLock", "free"}
WorkerPoints == {"unborn", "lock", "check", "waiting", "popped", "running",
                 "leaving", "exited"}

\* The variables stay in their ranges; in particular thread_count, incremented
\* by main and decremented by the workers, stays between 0 and NumThreads.
TypeOK ==
  /\ G_THREAD_POOL \in {"NULL", "live", "freed"}
  /\ thread_count \in 0..NumThreads
  /\ shutdown \in {"none"} \cup Modes
  /\ task_list \in Seq(Tasks)
  /\ lock \in Workers \cup {Main, Nobody}
  /\ pc \in [Workers -> WorkerPoints]
  /\ cur \in [Workers -> Tasks \cup {NoTask}]
  /\ mpc \in MainPoints
  /\ i \in 0..NumThreads
  /\ arg \in Tasks \cup Modes \cup {NoTask}
  /\ destroys \in 0..MaxDestroys
  /\ destroyRet \in {"none", "ok", "error"}
  /\ accepted \in Seq(Tasks)
  /\ started \in Seq(Tasks)
  /\ done \in SUBSET Tasks

Busy == {w \in Workers : pc[w] \in {"popped", "running"}}
Held == {cur[w] : w \in Busy}

Distinct == \A j, k \in DOMAIN accepted : accepted[j] = accepted[k] => j = k

InOrder ==
  \/ accepted = started \o task_list
  \/ /\ shutdown = "immediate" /\ task_list = <<>>
     /\ Len(started) <= Len(accepted)
     /\ \A k \in DOMAIN started : started[k] = accepted[k]

OneHolder ==
  /\ {started[k] : k \in DOMAIN started} = done \cup Held
  /\ done \cap Held = {}
  /\ \A v, w \in Busy : cur[v] = cur[w] => v = w

\* Every task threadpool_add accepted is started at most once, in the order of
\* acceptance, by one worker: what was started is done or in the hands of
\* exactly one worker, and what was not is still queued unless an immediate
\* shutdown dropped it.
EachTaskOnce == Distinct /\ InOrder /\ OneHolder

\* The signal of threadpool_add and the broadcast of threadpool_destroy are
\* never lost: while tasks are pending some worker is awake, and after the
\* shutdown is announced none sleeps.
NoLostWakeup ==
  /\ task_list # <<>> /\ shutdown = "none" =>
       \E w \in Workers : pc[w] \in {"lock", "check", "popped", "running"}
  /\ shutdown # "none" => \A w \in Workers : pc[w] # "waiting"

\* threadpool_free reads thread_count without the lock and frees the pool under
\* the workers' feet: even so no worker that can still touch the pool is left
\* when the list is freed (one may still have to release the mutex), and none at
\* all when the mutex and the pool are.
FreedQuiescent ==
  /\ mpc = "freeLock" => \A w \in Workers : pc[w] \in {"leaving", "exited"}
  /\ mpc = "free" \/ G_THREAD_POOL = "freed" =>
       \A w \in Workers : pc[w] = "exited"

\* The pool is an implementation of the one thread_pool.h describes.
Abstract == INSTANCE TaskPool WITH
  mode    <- shutdown,
  queue   <- task_list,
  running <- Held
ImplementsTaskPool == Abstract!Spec

\* An accepted task is run to its end unless an immediate shutdown comes first:
\* no signal is lost, and a graceful shutdown drains the list.
TasksComplete ==
  \A t \in Tasks : Submitted(t) ~> (t \in done \/ shutdown = "immediate")

\* threadpool_destroy comes back: every join is of a thread that exits. The
\* exception is a main that was refused before: that call returned with the lock
\* held (DestroyRefused), and the next one waits for it for ever.
DestroyReturns == (mpc = "destroyLock" /\ lock # Main) ~> (mpc = "idle")

\* thread_pool.h:57-59, test_thread_pool.c:135-136: when a graceful
\* threadpool_destroy has returned 0, every pending task was processed.
GracefulDestroyWaits ==
  destroyRet = "ok" /\ shutdown = "graceful" =>
    \A t \in Tasks : Submitted(t) => t \in done
=============================================================================
