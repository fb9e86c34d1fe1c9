------------------------------ MODULE TaskPool ------------------------------
(***************************************************************************)
(* What utils/thread_pool.h promises of a thread pool, without threads,    *)
(* locks or condition variables: tasks are accepted in some order, started *)
(* in that order, each at most once, and the pool is closed in one of two  *)
(* modes.  "graceful" accepts nothing more but starts every pending task,  *)
(* "immediate" starts nothing more.                                        *)
(***************************************************************************)
EXTENDS Sequences

CONSTANT Tasks       \* the tasks a program may submit

VARIABLES
  mode,              \* "none" while open, then "immediate" or "graceful"
  queue,             \* accepted and not started, oldest first
  running,           \* started and not finished
  done               \* finished

vars == <<mode, queue, running, done>>

Init ==
  /\ mode = "none"
  /\ queue = <<>>
  /\ running = {}
  /\ done = {}

Submit(t) ==
  /\ mode = "none"
  /\ queue' = Append(queue, t)
  /\ UNCHANGED <<mode, running, done>>

Start ==
  /\ mode # "immediate"
  /\ queue # <<>>
  /\ running' = running \cup {Head(queue)}
  /\ queue' = Tail(queue)
  /\ UNCHANGED <<mode, done>>

Finish(t) ==
  /\ t \in running
  /\ running' = running \ {t}
  /\ done' = done \cup {t}
  /\ UNCHANGED <<mode, queue>>

Close(m) ==
  /\ mode = "none"
  /\ mode' = m
  /\ UNCHANGED <<queue, running, done>>

\* Tasks that were pending at an immediate shutdown are dropped with the queue.
Drop ==
  /\ mode = "immediate"
  /\ queue' = <<>>
  /\ UNCHANGED <<mode, running, done>>

Next ==
  \/ \E t \in Tasks : Submit(t) \/ Finish(t)
  \/ Start
  \/ \E m \in {"immediate", "graceful"} : Close(m)
  \/ Drop

Spec == Init /\ [][Next]_vars
=============================================================================
