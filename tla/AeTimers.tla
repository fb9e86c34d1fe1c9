------------------------------ MODULE AeTimers ------------------------------
(***************************************************************************)
(* The time events of utils/event/ae.c: an unsorted list with the newest   *)
(* timer at its head, which the loop walks once after every sleep.  All    *)
(* runs on the thread of the loop; what interleaves are the calls that     *)
(* callbacks make: aeCreateTimeEvent and aeDeleteTimeEvent from within the *)
(* walk, of any timer and also of the one that runs.  A deleted timer      *)
(* stays in the list, with the id -1, until a walk meets it.  The clock is *)
(* the system's and may be set.  A timer is named by the id it was given.  *)
(***************************************************************************)
EXTENDS Integers, FiniteSetsExt

CONSTANTS
  MaxTimers,        \* bound: how many ids are given
  MsPerSec,         \* 1000
  LastTick,         \* bound: the clock stops there
  Delays,           \* the milliseconds callers and timeProcs ask for
  MaxClockChanges,  \* bound: how often somebody sets the clock
  FinalizersCreate, \* do finalizerProcs create timers?
  NoTimer           \* NULL

ASSUME TimersAssumption ==
  /\ MaxTimers \in Nat /\ LastTick \in Nat
  /\ MsPerSec \in Nat /\ MsPerSec > 1
  /\ Delays \subseteq Nat
  /\ MaxClockChanges \in Nat
  /\ FinalizersCreate \in BOOLEAN
  /\ NoTimer \notin Nat

Ids     == 0..MaxTimers - 1
Forever == -1                  \* tvp == NULL
LongAgo == [sec |-> 0, ms |-> 0]

VARIABLES
  clock,             \* in milliseconds; 0 is long past
  clockChanges,      \* how often it was set
  timeEventHead, timeEventNextId, lastTime,   \* of the event loop
  events,            \* time events that are allocated
  deleted,           \* those whose id is AE_DELETED_EVENT_ID
  when,              \* when_sec and when_ms
  nextEvent,         \* their next pointers
  lpc,               \* the loop: "poll", "sleep", "files", "walk", "timeProc" or "finalizer"
  sleep,             \* milliseconds the poll will still wait, or Forever
  te, tprev, maxId,  \* of processTimeEvents
  owed,              \* history: timers this walk has still to fire
  moved              \* history: was the clock set since the poll began?

clockVars == <<clock, clockChanges>>
listed    == <<timeEventHead, nextEvent, events, timeEventNextId>>
timeVars  == <<clockVars, listed, lastTime, deleted, when, lpc, sleep, te, tprev, maxId, owed, moved>>

\* aeCreateEventLoop; the clock is at one second.
TimeInit ==
  /\ clock = MsPerSec /\ clockChanges = 0
  /\ timeEventHead = NoTimer /\ timeEventNextId = 0 /\ lastTime = 1
  /\ events = {} /\ deleted = {}
  /\ when = [i \in Ids |-> LongAgo]
  /\ nextEvent = [i \in Ids |-> NoTimer]
  /\ lpc = "poll" /\ sleep = 0
  /\ te = NoTimer /\ tprev = NoTimer /\ maxId = -1
  /\ owed = {} /\ moved = FALSE

-----------------------------------------------------------------------------
(* Time                                                                    *)

Sec(t) == t \div MsPerSec
Ms(t)  == t % MsPerSec

\* now is not before a when_sec and a when_ms.
IsDue(w, t) == Sec(t) > w.sec \/ (Sec(t) = w.sec /\ Ms(t) >= w.ms)
DueAt(w, t) == {i \in Ids : IsDue(w[i], t)}

\* aeAddMillisecondsToNow
AddMillisecondsToNow(d) ==
  LET sec == Sec(clock) + Sec(d)
      ms  == Ms(clock) + Ms(d)
  IN  IF ms >= MsPerSec THEN [sec |-> sec + 1, ms |-> ms - MsPerSec] ELSE [sec |-> sec, ms |-> ms]

\* A millisecond passes.
Tick ==
  /\ clock < LastTick \/ (lpc = "sleep" /\ sleep > 0)
  /\ clock' = IF clock < LastTick THEN clock + 1 ELSE clock
  /\ sleep' = IF lpc = "sleep" /\ sleep > 0 THEN sleep - 1 ELSE sleep
  /\ UNCHANGED <<clockChanges, listed, lastTime, deleted, when, lpc, te, tprev, maxId, owed, moved>>

\* Somebody sets the clock, forwards or back.
SetClock(t) ==
  /\ clockChanges < MaxClockChanges /\ t # clock
  /\ clock' = t /\ clockChanges' = clockChanges + 1
  /\ owed' = owed \cap DueAt(when, t)
  /\ moved' = (lpc = "sleep")
  /\ UNCHANGED <<listed, lastTime, deleted, when, lpc, sleep, te, tprev, maxId>>

-----------------------------------------------------------------------------
(* The calls callbacks make                                                *)

\* The timers that a walk from the head along next meets: the least set with the
\* head that is closed under next.
Closed(S) ==
  /\ timeEventHead \in S \cup {NoTimer}
  /\ \A i \in S : nextEvent[i] \in S \cup {NoTimer}
Listed == {i \in Ids : \A S \in SUBSET Ids : Closed(S) => i \in S}

\* Where callbacks run: before the poll, on file events, and in the walk.
Calling == lpc \in {"poll", "files", "timeProc"} \/ (FinalizersCreate /\ lpc = "finalizer")

\* aeCreateTimeEvent
CreateTimeEvent(d) ==
  LET i == timeEventNextId IN
  /\ Calling /\ i < MaxTimers
  /\ timeEventNextId' = i + 1
  /\ events' = events \cup {i}
  /\ when' = [when EXCEPT ![i] = AddMillisecondsToNow(d)]
  /\ nextEvent' = [nextEvent EXCEPT ![i] = timeEventHead]
  /\ timeEventHead' = i
  /\ UNCHANGED <<clockVars, lastTime, deleted, lpc, sleep, te, tprev, maxId, owed, moved>>

\* malloc fails: the id is gone.
CreateFails ==
  /\ Calling /\ timeEventNextId < MaxTimers
  /\ timeEventNextId' = timeEventNextId + 1
  /\ UNCHANGED <<clockVars, timeEventHead, nextEvent, events, lastTime, deleted, when,
                 lpc, sleep, te, tprev, maxId, owed, moved>>

\* aeDeleteTimeEvent, which finds the timer; finalizers may delete, too.
DeleteTimeEvent(i) ==
  /\ Calling \/ lpc = "finalizer"
  /\ i \in Listed \ deleted
  /\ deleted' = deleted \cup {i}
  /\ owed' = owed \ {i}
  /\ UNCHANGED <<clockVars, listed, lastTime, when, lpc, sleep, te, tprev, maxId, moved>>

-----------------------------------------------------------------------------
(* aeMain and aeProcessEvents                                              *)

Before(v, w) == v.sec < w.sec \/ (v.sec = w.sec /\ v.ms < w.ms)

\* aeSearchNearestTimer, which looks at deleted timers, too
Nearest_SecondsOnly ==                                              \* MUTANT
  CHOOSE i \in Listed : \A j \in Listed : when[i].sec <= when[j].sec
Nearest == CHOOSE i \in Listed : \A j \in Listed : ~ Before(when[j], when[i])

\* "How many milliseconds we need to wait for the next time event to fire?"
Poll ==
  LET w  == when[Nearest]
      ms == (w.sec - Sec(clock)) * MsPerSec + w.ms - Ms(clock)
  IN
  /\ lpc = "poll"
  /\ lpc' = "sleep"
  /\ sleep' = IF Listed = {} THEN Forever ELSE IF ms > 0 THEN ms ELSE 0
  /\ moved' = FALSE
  /\ UNCHANGED <<clockVars, listed, lastTime, deleted, when, te, tprev, maxId, owed>>

FileEvents_NoTimers ==                                              \* MUTANT
  /\ lpc = "sleep"
  /\ lpc' = "poll"
  /\ sleep' = 0 /\ moved' = FALSE
  /\ UNCHANGED <<clockVars, listed, lastTime, deleted, when, te, tprev, maxId, owed>>

\* A file event wakes the loop, and its callbacks run.
FileEvents ==
  /\ lpc = "sleep"
  /\ lpc' = "files"
  /\ sleep' = 0 /\ moved' = FALSE
  /\ UNCHANGED <<clockVars, listed, lastTime, deleted, when, te, tprev, maxId, owed>>

\* processTimeEvents up to its loop.  A clock that was set back makes every timer due.
Forced(w) == [i \in Ids |-> IF i \in Listed THEN [w[i] EXCEPT !.sec = 0] ELSE w[i]]

Begins(w) ==
  /\ lpc = "files" \/ (lpc = "sleep" /\ sleep = 0)
  /\ lpc' = "walk"
  /\ when' = w
  /\ lastTime' = Sec(clock)
  /\ te' = timeEventHead /\ tprev' = NoTimer
  /\ maxId' = timeEventNextId - 1
  /\ owed' = IF Sec(clock) < lastTime THEN Listed \ deleted
                                      ELSE (Listed \ deleted) \cap DueAt(when, clock)
  /\ moved' = FALSE
  /\ UNCHANGED <<clockVars, listed, deleted, sleep>>

ProcessTimeEvents_NoSkew == Begins(when)                            \* MUTANT
ProcessTimeEvents == Begins(IF Sec(clock) < lastTime THEN Forced(when) ELSE when)

-----------------------------------------------------------------------------
(* The loop of processTimeEvents                                           *)

RemoveDeleted_HeadOnly ==                                           \* MUTANT
  /\ lpc = "walk" /\ te \in deleted
  /\ timeEventHead' = nextEvent[te]
  /\ UNCHANGED nextEvent
  /\ lpc' = "finalizer"
  /\ UNCHANGED <<clockVars, events, timeEventNextId, lastTime, deleted, when, sleep,
                 te, tprev, maxId, owed, moved>>

\* A timer that was deleted is unlinked, and its finalizer runs ...
RemoveDeleted ==
  /\ lpc = "walk" /\ te \in deleted
  /\ IF tprev = NoTimer
     THEN timeEventHead' = nextEvent[te] /\ UNCHANGED nextEvent
     ELSE nextEvent' = [nextEvent EXCEPT ![tprev] = nextEvent[te]] /\ UNCHANGED timeEventHead
  /\ lpc' = "finalizer"
  /\ UNCHANGED <<clockVars, events, timeEventNextId, lastTime, deleted, when, sleep,
                 te, tprev, maxId, owed, moved>>

\* ... and then it is freed.
FinalizerReturns ==
  /\ lpc = "finalizer"
  /\ events' = events \ {te} /\ deleted' = deleted \ {te}
  /\ nextEvent' = [nextEvent EXCEPT ![te] = NoTimer]
  /\ when' = [when EXCEPT ![te] = LongAgo]
  /\ te' = nextEvent[te]
  /\ lpc' = "walk"
  /\ UNCHANGED <<clockVars, timeEventHead, timeEventNextId, lastTime, sleep,
                 tprev, maxId, owed, moved>>

\* A timer that is not due, or was created in this walk, is left alone.
PassOver ==
  /\ lpc = "walk" /\ te \in events \ deleted
  /\ te > maxId \/ ~ IsDue(when[te], clock)
  /\ tprev' = IF te > maxId THEN tprev ELSE te
  /\ te' = nextEvent[te]
  /\ UNCHANGED <<clockVars, listed, lastTime, deleted, when, lpc, sleep, maxId, owed, moved>>

TimeProc ==
  /\ lpc = "walk" /\ te \in events \ deleted
  /\ te <= maxId /\ IsDue(when[te], clock)
  /\ lpc' = "timeProc"
  /\ owed' = owed \ {te}
  /\ UNCHANGED <<clockVars, listed, lastTime, deleted, when, sleep, te, tprev, maxId, moved>>

\* te->timeProc has returned.
GoesOn == tprev' = te /\ te' = nextEvent[te] /\ lpc' = "walk"

\* It returned a period; if te was deleted in it, te stays deleted.
TimeProcAgain(d) ==
  /\ lpc = "timeProc"
  /\ when' = [when EXCEPT ![te] = AddMillisecondsToNow(d)]
  /\ GoesOn
  /\ UNCHANGED <<clockVars, listed, lastTime, deleted, sleep, maxId, owed, moved>>

\* It returned AE_NOMORE.
TimeProcNoMore ==
  /\ lpc = "timeProc"
  /\ deleted' = deleted \cup {te}
  /\ GoesOn
  /\ UNCHANGED <<clockVars, listed, lastTime, when, sleep, maxId, owed, moved>>

WalkEnds ==
  /\ lpc = "walk" /\ te = NoTimer
  /\ lpc' = "poll"
  /\ tprev' = NoTimer /\ maxId' = -1
  /\ UNCHANGED <<clockVars, listed, lastTime, deleted, when, sleep, te, owed, moved>>

-----------------------------------------------------------------------------
Loop ==
  \/ Poll \/ ProcessTimeEvents \/ RemoveDeleted \/ FinalizerReturns \/ PassOver
  \/ TimeProc \/ TimeProcNoMore \/ WalkEnds
  \/ \E d \in Delays : TimeProcAgain(d)

TimeNext ==
  \/ Loop \/ Tick \/ FileEvents \/ CreateFails
  \/ \E t \in MsPerSec..LastTick : SetClock(t)
  \/ \E d \in Delays : CreateTimeEvent(d)
  \/ \E i \in Ids : DeleteTimeEvent(i)

TimeSpec == TimeInit /\ [][TimeNext]_timeVars

\* Time passes, callbacks return and the thread runs on.
TimeFairSpec == TimeSpec /\ WF_timeVars(Loop) /\ WF_timeVars(Tick)

-----------------------------------------------------------------------------
(* Properties                                                              *)

TimerOrNone == Ids \cup {NoTimer}

\* The variables stay in their ranges; no when_ms is a second or more.
TimeTypeOK ==
  /\ clock \in Nat /\ clockChanges \in 0..MaxClockChanges
  /\ timeEventHead \in TimerOrNone /\ nextEvent \in [Ids -> TimerOrNone]
  /\ timeEventNextId \in 0..MaxTimers /\ lastTime \in Nat
  /\ events \subseteq Ids /\ deleted \subseteq events
  /\ when \in [Ids -> [sec : Nat, ms : 0..MsPerSec - 1]]
  /\ lpc \in {"poll", "sleep", "files", "walk", "timeProc", "finalizer"}
  /\ sleep \in Nat \cup {Forever}
  /\ te \in TimerOrNone /\ tprev \in TimerOrNone /\ maxId \in -1..MaxTimers - 1
  /\ owed \subseteq Ids /\ moved \in BOOLEAN

\* What the list should hold: every timer but the one whose finalizer runs.
InList      == IF lpc = "finalizer" THEN events \ {te} ELSE events
Older(i)    == {j \in InList : j < i}
IsNewest(i, S) == IF S = {} THEN i = NoTimer ELSE i \in S /\ \A j \in S : j <= i

\* ae.c:281-299,319: whatever callbacks create and delete while the list is
\* walked, it holds each timer once, the newest first; no timer is lost or met
\* after it was freed, and the walk meets none that was created during it ("this
\* check is currently useless: we always add new timers on the head").
NewestFirst == IsNewest(timeEventHead, InList) /\ \A i \in InList : IsNewest(nextEvent[i], Older(i))

WalkInList ==
  /\ lpc = "timeProc" => te # NoTimer
  /\ lpc \in {"walk", "timeProc"} /\ te # NoTimer => te \in InList /\ te <= maxId
  /\ lpc = "finalizer" => te \in deleted /\ te <= maxId /\ IsNewest(nextEvent[te], Older(te))
  /\ lpc = "walk" /\ tprev = NoTimer => timeEventHead = te
  /\ lpc = "finalizer" /\ tprev = NoTimer => timeEventHead = nextEvent[te]
  /\ lpc \in {"walk", "timeProc", "finalizer"} /\ tprev # NoTimer => tprev \in InList

TimersListed == NewestFirst /\ WalkInList

\* ae.c:225-227,364-372: no timer becomes due before a poll that nothing wakes is
\* over, unless the clock is set meanwhile.
NoOversleep ==
  lpc = "sleep" /\ ~ moved /\ sleep # 0 =>
    \A i \in Listed \ deleted : sleep # Forever /\ ~ IsDue(when[i], clock + sleep - 1)

\* ae.c:257-264: a walk fires every timer that was due when it began, and all of
\* them if it found the clock set back, unless a callback deletes one first or
\* the clock is set back once more.
DueFired == lpc = "poll" => owed = {}

\* A timer that is due fires, unless it is deleted or the clock is set back.
Pending(i) == i \in (events \ deleted) \cap DueAt(when, clock)
EveryTimerFires ==
  \A i \in Ids : Pending(i) ~> ((lpc = "timeProc" /\ te = i) \/ ~ Pending(i))
=============================================================================
