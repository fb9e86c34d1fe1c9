-------------------------------- MODULE Log ---------------------------------
(***************************************************************************)
(* utils/log.c after log_init: threads that print put their message at the *)
(* head of log_list under a spin lock and then UNLOCK the mutex log_lock,  *)
(* which the log thread locks again each time it has emptied the list: the *)
(* mutex serves as a binary semaphore.  The log thread takes messages from *)
(* the tail and writes them to the file that is open, which it changes     *)
(* with the first message it handles on another day of the month.  To      *)
(* close NULL or to write to it ends the process.                          *)
(***************************************************************************)
EXTENDS Naturals, SequencesExt

CONSTANTS
  Printers,      \* threads that call log_print
  Messages,      \* what they print, each message once
  Shown,         \* messages whose level is not above g_log_level
  LastDay,       \* bound: days 0..LastDay
  MonthDays,     \* the days of a month, all months being of one length
  OpenMayFail,   \* may fopen of the next day's file fail?
  MayUninit,     \* does main call log_uninit?
  NoMsg          \* no message

ASSUME LogAssumption ==
  /\ LastDay \in Nat /\ MonthDays \in Nat \ {0} /\ OpenMayFail \in BOOLEAN /\ MayUninit \in BOOLEAN
  /\ Shown \subseteq Messages /\ NoMsg \notin Messages

Null == LastDay + 1      \* g_logFile == NULL

VARIABLES
  g_log_enable,
  log_list,      \* head first
  log_lock,      \* is the mutex locked?
  today,         \* the clock
  g_oldDay,      \* a day of the month
  g_logFile,     \* the day whose file is open, or Null
  ppc,           \* per printer: "idle", or "unlock" with the message in the list
  pc,            \* the log thread: "wait", "pop", "handle" or "write"; or "crashed",
                 \* when the process is gone
  msg,           \* the message it has
  printed,       \* history: the messages printed, in order
  written        \* history: what is in the files, message and day

shared  == <<g_log_enable, log_list, log_lock>>
file    == <<g_oldDay, g_logFile>>
logVars    == <<shared, today, file, ppc, pc, msg, printed, written>>

DayOfMonth == today % MonthDays      \* tm_mday

\* log_init leaves the mutex locked and today's file open.
LogInit ==
  /\ g_log_enable = TRUE /\ log_list = <<>> /\ log_lock = TRUE
  /\ today = 0 /\ g_oldDay = DayOfMonth /\ g_logFile = 0
  /\ ppc = [p \in Printers |-> "idle"]
  /\ pc = "wait" /\ msg = NoMsg
  /\ printed = <<>> /\ written = <<>>

Midnight ==
  /\ today < LastDay
  /\ today' = today + 1
  /\ UNCHANGED <<shared, file, ppc, pc, msg, printed, written>>

-----------------------------------------------------------------------------
(* log_print                                                               *)

PutMessage_Last(m) == log_list' = Append(log_list, m)                   \* MUTANT
\* listAddNodeToHead
PutMessage(m) == log_list' = <<m>> \o log_list

LogPrint(p, m) ==
  /\ g_log_enable /\ ppc[p] = "idle"
  /\ \A k \in DOMAIN printed : printed[k] # m
  /\ PutMessage(m)
  /\ printed' = Append(printed, m)
  /\ ppc' = [ppc EXCEPT ![p] = "unlock"]
  /\ UNCHANGED <<g_log_enable, log_lock, today, file, pc, msg, written>>

LogPrintUnlocks_OnlyWhenEmpty(p) ==                                 \* MUTANT
  /\ ppc[p] = "unlock"
  /\ log_lock' = (log_lock /\ Len(log_list) # 1)
  /\ ppc' = [ppc EXCEPT ![p] = "idle"]
  /\ UNCHANGED <<g_log_enable, log_list, today, file, pc, msg, printed, written>>

LogPrintUnlocks(p) ==
  /\ ppc[p] = "unlock"
  /\ log_lock' = FALSE
  /\ ppc' = [ppc EXCEPT ![p] = "idle"]
  /\ UNCHANGED <<g_log_enable, log_list, today, file, pc, msg, printed, written>>

-----------------------------------------------------------------------------
(* log_thread_handle and log_handle                                        *)

Lock ==
  /\ pc = "wait" /\ ~ log_lock
  /\ log_lock' = TRUE
  /\ pc' = "pop"
  /\ UNCHANGED <<g_log_enable, log_list, today, file, ppc, msg, printed, written>>

\* log_uninit takes log_spin_lock and destroys it without unlocking it: the log
\* thread waits for it for ever.
SpinLock == g_log_enable

\* listPopNodeFromTail
Pop ==
  /\ pc = "pop" /\ SpinLock /\ log_list # <<>>
  /\ msg' = Last(log_list)
  /\ log_list' = Front(log_list)
  /\ pc' = "handle"
  /\ UNCHANGED <<g_log_enable, log_lock, today, file, ppc, printed, written>>

NothingLeft ==
  /\ pc = "pop" /\ SpinLock /\ log_list = <<>>
  /\ pc' = "wait"
  /\ UNCHANGED <<shared, today, file, ppc, msg, printed, written>>

\* update_logname compares days of the month: after a month without a message it
\* takes the day for the old one.
SameDay ==
  /\ pc = "handle" /\ DayOfMonth = g_oldDay
  /\ pc' = "write"
  /\ UNCHANGED <<shared, today, file, ppc, msg, printed, written>>

\* The first message of another day: the old file is closed ...
NewDay ==
  /\ pc = "handle" /\ DayOfMonth # g_oldDay
  /\ g_oldDay' = DayOfMonth
  /\ UNCHANGED <<shared, today, ppc, printed, written>>

NextDay ==
  /\ NewDay /\ g_logFile # Null
  /\ g_logFile' = today
  /\ pc' = "write"
  /\ UNCHANGED msg

\* ... the new one does not open and the message is dropped ...
NextDayFails ==
  /\ OpenMayFail /\ NewDay /\ g_logFile # Null
  /\ g_logFile' = Null
  /\ msg' = NoMsg
  /\ pc' = "pop"

\* ... or there is none to close: fclose(NULL).
ClosesNull ==
  /\ NewDay /\ g_logFile = Null
  /\ pc' = "crashed"
  /\ UNCHANGED <<g_logFile, msg>>

\* The level is above g_log_level.
Filtered ==
  /\ pc = "write" /\ msg \notin Shown
  /\ msg' = NoMsg
  /\ pc' = "pop"
  /\ UNCHANGED <<shared, today, file, ppc, printed, written>>

Write ==
  /\ pc = "write" /\ msg \in Shown /\ g_logFile # Null
  /\ written' = Append(written, [msg |-> msg, day |-> g_logFile])
  /\ msg' = NoMsg
  /\ pc' = "pop"
  /\ UNCHANGED <<shared, today, file, ppc, printed>>

\* fwrite(..., NULL)
WritesNull ==
  /\ pc = "write" /\ msg \in Shown /\ g_logFile = Null
  /\ pc' = "crashed"
  /\ UNCHANGED <<shared, today, file, ppc, msg, printed, written>>

\* log_uninit, on main, whatever the others are doing; it closes NULL if a file did
\* not open.
LogUninit ==
  /\ MayUninit /\ g_log_enable
  /\ g_log_enable' = FALSE
  /\ g_logFile' = Null
  /\ pc' = IF g_logFile = Null THEN "crashed" ELSE pc
  /\ UNCHANGED <<log_list, log_lock, today, g_oldDay, ppc, msg, printed, written>>

-----------------------------------------------------------------------------
LogThread == Lock \/ Pop \/ NothingLeft \/ SameDay \/ NextDay \/ NextDayFails
             \/ ClosesNull \/ Filtered \/ Write \/ WritesNull

LogNext ==
  /\ pc # "crashed"
  /\ \/ Midnight \/ LogThread \/ LogUninit
     \/ \E p \in Printers : LogPrintUnlocks(p) \/ \E m \in Messages : LogPrint(p, m)

LogSpec == LogInit /\ [][LogNext]_logVars

\* Threads run on while there is a process; nobody has to print.
LogFairSpec ==
  /\ LogSpec
  /\ WF_logVars(LogThread)
  /\ \A p \in Printers : WF_logVars(pc # "crashed" /\ LogPrintUnlocks(p))

-----------------------------------------------------------------------------
(* Properties                                                              *)

\* The variables stay in their ranges; in particular the log thread handles no NULL.
LogTypeOK ==
  /\ g_log_enable \in BOOLEAN /\ log_lock \in BOOLEAN
  /\ log_list \in Seq(Messages)
  /\ today \in 0..LastDay /\ g_oldDay \in 0..MonthDays - 1 /\ g_logFile \in (0..today) \cup {Null}
  /\ ppc \in [Printers -> {"idle", "unlock"}]
  /\ pc \in {"wait", "pop", "handle", "write", "crashed"} /\ msg \in Messages \cup {NoMsg}
  /\ pc \in {"handle", "write"} => msg # NoMsg
  /\ pc \in {"wait", "pop"} => msg = NoMsg
  /\ printed \in Seq(Messages)
  /\ written \in Seq([msg : Messages, day : 0..LastDay])

\* The mutex as a semaphore loses no wakeup although an unlock of the unlocked
\* mutex is not counted: while there are messages the log thread is awake or can
\* lock, or a printer is about to unlock.
NoLostWakeup ==
  log_list # <<>> => ~ log_lock \/ pc # "wait" \/ \E p \in Printers : ppc[p] = "unlock"

\* The messages of s that are shown, in their order.
ShownOf(s) ==
  LET upTo[n \in 0..Len(s)] ==
        IF n = 0 THEN <<>>
        ELSE IF s[n] \in Shown THEN Append(upTo[n - 1], s[n]) ELSE upTo[n - 1]
  IN  upTo[Len(s)]
InHand  == IF msg = NoMsg THEN <<>> ELSE <<msg>>
Waiting == InHand \o Reverse(log_list)
Texts   == [k \in DOMAIN written |-> written[k].msg]

InOrder    == g_logFile # Null => ShownOf(printed) = Texts \o ShownOf(Waiting)
FilesBegin == IsPrefix(Texts, ShownOf(printed))

\* While a file is open, what the files hold and what still waits is what was
\* printed, in that order, none twice and none missing but those above the level.
\* When a file has not opened, or log_uninit has closed it under the log thread,
\* the files hold a beginning of what was printed, and the rest is lost.
FilesRight == InOrder /\ FilesBegin

\* Every message printed is taken up, unless the file is gone before, and then the
\* process may be: the list becomes empty, and there are finitely many messages.
EveryMessageHandled == log_list # <<>> ~> log_list = <<>> \/ g_logFile = Null
=============================================================================
