--------------------------- MODULE UtilitiesProofs --------------------------
(***************************************************************************)
(* Theorems about Log, AeTimers and Dict, which share no state.            *)
(* Log, for any number of printers, messages and days: the mutex that      *)
(* serves as a semaphore loses no wakeup, the log thread never handles     *)
(* NULL as a message, and the files hold what was printed, in order, up to *)
(* the point where there is no file any more.                              *)
(* AeTimers, for any number of timers, any milliseconds to the second and  *)
(* any clock: what callbacks create and delete while the list is walked    *)
(* does not break it, the walk fires what it should, and the loop sleeps   *)
(* no longer than until the nearest timer.                                 *)
(* Dict, for any keys, hashes and sizes of tables: a lookup finds what is  *)
(* stored, whatever is being rehashed; a safe iterator returns every key   *)
(* once; a scan misses nothing while tables shrink no further than its     *)
(* cursor bears.                                                           *)
(***************************************************************************)
EXTENDS Log, AeTimers, Dict, Extremes, SequenceTheorems, FiniteSetTheorems, TLAPS

-----------------------------------------------------------------------------
(* Log: the mutex and the file.                                            *)

LogInv == LogTypeOK /\ NoLostWakeup

LEMMA DayOfMonthType ==
  ASSUME today \in Nat
  PROVE  DayOfMonth \in 0..MonthDays - 1
<1> DEFINE n == MonthDays
           t == today
<1>1. n \in Nat \ {0} /\ t \in Nat
  BY LogAssumption
<1> HIDE DEF n, t
<1>2. t % n \in 0..n - 1
  BY <1>1
<1> QED BY <1>2 DEF DayOfMonth, n, t

\* listPopNodeFromTail of a list that is not empty
LEMMA Popped ==
  ASSUME NEW s \in Seq(Messages), s # <<>>
  PROVE  Last(s) \in Messages /\ Front(s) \in Seq(Messages)
<1>1. Len(s) \in Nat \ {0} /\ DOMAIN s = 1..Len(s)
  BY LenProperties, EmptySeq
<1>2. Last(s) \in Messages
  BY <1>1 DEF Last
<1>3. SubSeq(s, 1, Len(s) - 1) \in Seq(Messages)
  BY <1>1, SubSeqProperties
<1> QED BY <1>2, <1>3 DEF Front

LEMMA LogInvInit == LogInit => LogInv
<1> SUFFICES ASSUME LogInit PROVE LogInv
  OBVIOUS
<1>1. DayOfMonth \in 0..MonthDays - 1
  BY DayOfMonthType DEF LogInit
<1> QED BY <1>1, LogAssumption DEF LogInit, LogInv, LogTypeOK, NoLostWakeup, Null

LEMMA PrinterStep ==
  ASSUME LogInv, NEW p \in Printers,
         LogPrintUnlocks(p) \/ \E m \in Messages : LogPrint(p, m)
  PROVE  LogInv'
<1>1. CASE LogPrintUnlocks(p)
  BY <1>1 DEF LogInv, LogTypeOK, NoLostWakeup, LogPrintUnlocks, Null, file
<1>2. ASSUME NEW m \in Messages, LogPrint(p, m)
      PROVE  LogInv'
  <2>1. log_list' \in Seq(Messages) /\ printed' \in Seq(Messages)
    BY <1>2, ConcatProperties, AppendProperties, <<m>> \in Seq(Messages)
       DEF LogInv, LogTypeOK, LogPrint, PutMessage
  <2>2. ppc' \in [Printers -> {"idle", "unlock"}] /\ ppc'[p] = "unlock"
    BY <1>2 DEF LogInv, LogTypeOK, LogPrint
  <2> QED BY <1>2, <2>1, <2>2 DEF LogInv, LogTypeOK, NoLostWakeup, LogPrint, Null, file
<1> QED BY <1>1, <1>2

LEMMA ThreadStep ==
  ASSUME LogInv, LogThread
  PROVE  LogInv'
<1> USE DEF LogInv, LogTypeOK, NoLostWakeup, Null
<1>0. DayOfMonth \in 0..MonthDays - 1
  <2>1. today \in Nat
    BY LogAssumption
  <2> QED BY <2>1, DayOfMonthType
<1>1. CASE Lock
  BY <1>1 DEF Lock, file
<1>2. CASE Pop
  <2>1. log_list # <<>> /\ log_list \in Seq(Messages)
    BY <1>2 DEF Pop
  <2>2. Last(log_list) \in Messages /\ Front(log_list) \in Seq(Messages)
    BY <2>1, Popped
  <2> QED BY <1>2, <2>2, LogAssumption DEF Pop, file
<1>3. CASE NothingLeft
  BY <1>3 DEF NothingLeft, shared, file
<1>4. CASE SameDay
  BY <1>4 DEF SameDay, shared, file
<1>5. CASE NextDay
  BY <1>5, <1>0 DEF NextDay, NewDay, shared
<1>6. CASE NextDayFails
  BY <1>6, <1>0, LogAssumption DEF NextDayFails, NewDay, shared
<1>9. CASE ClosesNull
  BY <1>9, <1>0 DEF ClosesNull, NewDay, shared
<1>7. CASE Filtered
  BY <1>7 DEF Filtered, shared, file
<1>8. CASE Write
  <2>1. [msg |-> msg, day |-> g_logFile] \in [msg : Messages, day : 0..LastDay]
    BY <1>8, LogAssumption DEF Write
  <2>2. written' \in Seq([msg : Messages, day : 0..LastDay])
    BY <1>8, <2>1, AppendProperties DEF Write
  <2> QED BY <1>8, <2>2 DEF Write, shared, file
<1>10. CASE WritesNull
  BY <1>10 DEF WritesNull, shared, file
<1> QED BY <1>1, <1>2, <1>3, <1>4, <1>5, <1>6, <1>7, <1>8, <1>9, <1>10 DEF LogThread

LEMMA OtherLogStep ==
  ASSUME LogInv, Midnight \/ LogUninit \/ UNCHANGED logVars
  PROVE  LogInv'
<1>1. CASE Midnight
  BY <1>1, LogAssumption DEF LogInv, LogTypeOK, NoLostWakeup, Null, Midnight, shared, file
<1>2. CASE LogUninit
  BY <1>2, LogAssumption DEF LogInv, LogTypeOK, NoLostWakeup, Null, LogUninit
<1>3. CASE UNCHANGED logVars
  BY <1>3 DEF LogInv, LogTypeOK, NoLostWakeup, Null, logVars, shared, file
<1> QED BY <1>1, <1>2, <1>3

LEMMA LogInductive == LogSpec => []LogInv
<1>1. LogInv /\ [LogNext]_logVars => LogInv'
  BY PrinterStep, ThreadStep, OtherLogStep DEF LogNext
<1> QED BY LogInvInit, <1>1, PTL DEF LogSpec

-----------------------------------------------------------------------------
(* ShownOf by its equation: f[n] is what is shown of the first n messages. *)

Longer(t, m) == IF m \in Shown THEN Append(t, m) ELSE t

IsUpTo(f, s) == f = [n \in 0..Len(s) |-> IF n = 0 THEN <<>> ELSE Longer(f[n - 1], s[n])]

LEMMA LongerType ==
  ASSUME NEW t \in Seq(Shown), NEW m
  PROVE  Longer(t, m) \in Seq(Shown)
BY AppendProperties DEF Longer

\* There is such a function: a least n up to which there is none is not 0, and one up
\* to its predecessor can be continued.
LEMMA UpToExists ==
  ASSUME NEW s \in Seq(Messages)
  PROVE  \E f \in [0..Len(s) -> Seq(Shown)] : IsUpTo(f, s)
<1> DEFINE Good(f, n) == /\ f \in [0..n -> Seq(Shown)] /\ f[0] = <<>>
                         /\ \A k \in 1..n : f[k] = Longer(f[k - 1], s[k])
           S == {n \in 0..Len(s) : ~ \E f : Good(f, n)}
<1>0. Len(s) \in Nat
  BY LenProperties
<1>1. S = {}
  <2> SUFFICES ASSUME S # {} PROVE FALSE
    OBVIOUS
  <2>1. PICK x \in S : \A y \in S : x <= y
    <3>1. S \in SUBSET Nat
      BY <1>0
    <3> HIDE DEF S
    <3> QED BY <3>1, LeastElement
  <2>2. x \in Nat /\ x <= Len(s)
    BY <1>0
  <2>3. x # 0
    <3> DEFINE f == [n \in 0..0 |-> <<>>]
    <3>1. <<>> \in Seq(Shown)
      BY EmptySeq
    <3>2. Good(f, 0)
      BY <3>1
    <3> HIDE DEF f
    <3>3. x = 0 => \E h : Good(h, x)
      BY <3>2
    <3>4. ~ \E h : Good(h, x)
      BY <2>1
    <3> QED BY <3>3, <3>4
  <2>4. x - 1 \in 0..Len(s) /\ x - 1 \notin S
    <3>1. x - 1 \in 0..Len(s) /\ ~ (x <= x - 1)
      BY <2>2, <2>3, <1>0
    <3> HIDE DEF S
    <3> QED BY <2>1, <3>1
  <2>5. PICK g : Good(g, x - 1)
    BY <2>4
  <2> DEFINE f == [n \in 0..x |-> IF n = x THEN Longer(g[x - 1], s[x]) ELSE g[n]]
  <2>6. \A n \in 0..(x - 1) : g[n] \in Seq(Shown)
    BY <2>5
  <2>7. Longer(g[x - 1], s[x]) \in Seq(Shown)
    BY <2>2, <2>3, <2>6, LongerType
  <2>8. f \in [0..x -> Seq(Shown)]
    BY <2>2, <2>6, <2>7
  <2>9. f[0] = <<>>
    BY <2>2, <2>3, <2>5
  <2>10. \A k \in 1..x : f[k] = Longer(f[k - 1], s[k])
    <3> TAKE k \in 1..x
    <3>1. CASE k = x
      BY <3>1, <2>2, <2>3
    <3>2. CASE k # x
      BY <3>2, <2>2, <2>3, <2>5
    <3> QED BY <3>1, <3>2
  <2> QED BY <2>1, <2>8, <2>9, <2>10
<1>2. Len(s) \notin S
  BY <1>1
<1>3. PICK f : Good(f, Len(s))
  BY <1>0, <1>2
<1>4. f \in [0..Len(s) -> Seq(Shown)]
  BY <1>3
<1>5. f = [n \in 0..Len(s) |-> f[n]]
  BY <1>4
<1>6. \A n \in 0..Len(s) : f[n] = IF n = 0 THEN <<>> ELSE Longer(f[n - 1], s[n])
  BY <1>0, <1>3
<1>7. IsUpTo(f, s)
  BY <1>5, <1>6 DEF IsUpTo
<1> QED BY <1>4, <1>7

\* And only one.
LEMMA UpToUnique ==
  ASSUME NEW s \in Seq(Messages), NEW f, NEW g, IsUpTo(f, s), IsUpTo(g, s)
  PROVE  f = g
<1> DEFINE S == {n \in 0..Len(s) : f[n] # g[n]}
<1>0. Len(s) \in Nat
  BY LenProperties
<1>1. S = {}
  <2> SUFFICES ASSUME S # {} PROVE FALSE
    OBVIOUS
  <2>1. PICK x \in S : \A y \in S : x <= y
    <3>1. S \in SUBSET Nat
      BY <1>0
    <3> HIDE DEF S
    <3> QED BY <3>1, LeastElement
  <2>2. x \in 1..Len(s)
    BY <2>1, <1>0 DEF IsUpTo
  <2>3. x - 1 \in 0..Len(s) /\ x - 1 \notin S
    BY <2>1, <2>2, <1>0
  <2>4. f[x - 1] = g[x - 1]
    BY <2>3
  <2> QED BY <2>1, <2>2, <2>4 DEF IsUpTo
<1> QED BY <1>1 DEF IsUpTo

LEMMA ShownIsUpTo ==
  ASSUME NEW s \in Seq(Messages), NEW f, IsUpTo(f, s)
  PROVE  ShownOf(s) = f[Len(s)]
<1> DEFINE F(u) == [n \in 0..Len(s) |-> IF n = 0 THEN <<>>
                     ELSE IF s[n] \in Shown THEN Append(u[n - 1], s[n]) ELSE u[n - 1]]
           c == CHOOSE u : u = F(u)
<1>0. Len(s) \in Nat
  BY LenProperties
<1>1. \A u : F(u) = [n \in 0..Len(s) |-> IF n = 0 THEN <<>> ELSE Longer(u[n - 1], s[n])]
  BY DEF Longer
<1>2. f = F(f)
  BY <1>1 DEF IsUpTo
<1>4. ShownOf(s) = c[Len(s)]
  BY DEF ShownOf
<1>3. c = F(c)
  <2> HIDE DEF F
  <2> QED BY <1>2
<1>5. IsUpTo(c, s)
  <2> HIDE DEF F, c
  <2> QED BY <1>1, <1>3 DEF IsUpTo
<1> QED BY <1>4, <1>5, UpToUnique

\* What is shown of one message more, at the end ...
LEMMA ShownAppend ==
  ASSUME NEW s \in Seq(Messages), NEW m \in Messages
  PROVE  /\ ShownOf(s) \in Seq(Shown)
         /\ ShownOf(Append(s, m)) = Longer(ShownOf(s), m)
<1>0. /\ Len(s) \in Nat /\ Append(s, m) \in Seq(Messages) /\ Len(Append(s, m)) = Len(s) + 1
      /\ \A k \in 1..Len(s) : Append(s, m)[k] = s[k]
      /\ Append(s, m)[Len(s) + 1] = m
  BY LenProperties, AppendProperties
<1>1. PICK f \in [0..Len(s) -> Seq(Shown)] : IsUpTo(f, s)
  BY UpToExists
<1>2. ShownOf(s) = f[Len(s)] /\ ShownOf(s) \in Seq(Shown)
  BY <1>0, <1>1, ShownIsUpTo
<1> DEFINE t == Append(s, m)
           g == [n \in 0..(Len(s) + 1) |-> IF n <= Len(s) THEN f[n] ELSE Longer(f[Len(s)], m)]
<1> HIDE DEF t
<1>3. \A n \in 0..Len(s) : f[n] = IF n = 0 THEN <<>> ELSE Longer(f[n - 1], s[n])
  BY <1>1 DEF IsUpTo
<1>4. \A n \in 0..(Len(s) + 1) : g[n] = IF n = 0 THEN <<>> ELSE Longer(g[n - 1], t[n])
  <2> TAKE n \in 0..(Len(s) + 1)
  <2>1. CASE n = 0
    BY <2>1, <1>0, <1>3
  <2>2. CASE n \in 1..Len(s)
    BY <2>2, <1>0, <1>3 DEF t
  <2>3. CASE n = Len(s) + 1
    BY <2>3, <1>0 DEF t
  <2> QED BY <2>1, <2>2, <2>3, <1>0
<1>5. IsUpTo(g, t)
  <2>1. g = [n \in 0..(Len(s) + 1) |-> g[n]]
    OBVIOUS
  <2> HIDE DEF g
  <2> QED BY <2>1, <1>4, <1>0 DEF IsUpTo, t
<1>6. ShownOf(t) = g[Len(s) + 1]
  <2> HIDE DEF g
  <2> QED BY <1>5, <1>0, ShownIsUpTo DEF t
<1> QED BY <1>0, <1>2, <1>6 DEF t

\* ... and at the front.
LEMMA ShownFirst ==
  ASSUME NEW s \in Seq(Messages), NEW m \in Messages
  PROVE  ShownOf(<<m>> \o s) = Longer(<<>>, m) \o ShownOf(s)
<1> DEFINE t == <<m>> \o s
           p == Longer(<<>>, m)
<1>0. /\ Len(s) \in Nat /\ t \in Seq(Messages) /\ Len(t) = Len(s) + 1
      /\ t[1] = m /\ \A k \in 1..Len(s) : t[k + 1] = s[k]
  <2>1. <<m>> \in Seq(Messages) /\ Len(<<m>>) = 1 /\ <<m>>[1] = m /\ Len(s) \in Nat
    BY LenProperties
  <2> QED BY <2>1, ConcatProperties
<1>1. PICK f \in [0..Len(s) -> Seq(Shown)] : IsUpTo(f, s)
  BY UpToExists
<1>2. ShownOf(s) = f[Len(s)]
  BY <1>1, ShownIsUpTo
<1>3. f[0] = <<>> /\ \A n \in 1..Len(s) : f[n] = Longer(f[n - 1], s[n])
  BY <1>0, <1>1 DEF IsUpTo
<1>p. p \in Seq(Shown)
  BY EmptySeq, LongerType
<1> HIDE DEF t, p
<1> DEFINE g == [n \in 0..(Len(s) + 1) |-> IF n = 0 THEN <<>> ELSE p \o f[n - 1]]
<1>a. \A n \in 0..(Len(s) + 1) : g[n] = IF n = 0 THEN <<>> ELSE p \o f[n - 1]
  BY Zenon
<1>b. g = [n \in 0..(Len(s) + 1) |-> g[n]]
  BY Zenon
<1> HIDE DEF g
<1>4. \A n \in 0..(Len(s) + 1) : g[n] = IF n = 0 THEN <<>> ELSE Longer(g[n - 1], t[n])
  <2> TAKE n \in 0..(Len(s) + 1)
  <2>1. CASE n = 0
    BY <2>1, <1>0, <1>a
  <2>2. CASE n = 1
    <3>1. g[1] = p \o <<>> /\ g[0] = <<>>
      <4>1. 1 \in 0..(Len(s) + 1) /\ 0 \in 0..(Len(s) + 1) /\ 1 - 1 = 0 /\ 1 # 0
        BY <1>0
      <4>2. g[0] = <<>> /\ g[1] = p \o f[1 - 1]
        BY <4>1, <1>a, Zenon
      <4>3. f[1 - 1] = <<>>
        BY <1>3
      <4> QED BY <4>2, <4>3, Zenon
    <3>2. g[1] = p
      BY <3>1, <1>p, ConcatEmptySeq
    <3> QED BY <3>1, <3>2, <2>2, <1>0 DEF p
  <2>3. CASE n \in 2..(Len(s) + 1)
    <3>1. n - 1 \in 1..Len(s) /\ n # 0 /\ n - 1 # 0 /\ t[n] = s[n - 1]
      BY <2>3, <1>0
    <3>2. g[n] = p \o f[n - 1] /\ g[n - 1] = p \o f[(n - 1) - 1]
      <4>1. n - 1 \in 0..(Len(s) + 1)
        BY <3>1, <1>0
      <4> QED BY <3>1, <4>1, <1>a, Zenon
    <3>3. f[n - 1] = Longer(f[(n - 1) - 1], t[n]) /\ f[(n - 1) - 1] \in Seq(Shown)
      <4>1. f[n - 1] = Longer(f[(n - 1) - 1], s[n - 1])
        BY <3>1, <1>3, Zenon
      <4>2. (n - 1) - 1 \in 0..Len(s)
        BY <3>1, <1>0
      <4>3. \A k \in 0..Len(s) : f[k] \in Seq(Shown)
        OBVIOUS
      <4> QED BY <3>1, <4>1, <4>2, <4>3, Zenon
    <3>4. \A x \in Seq(Shown) : p \o Longer(x, t[n]) = Longer(p \o x, t[n])
      <4> TAKE x \in Seq(Shown)
      <4>1. CASE t[n] \notin Shown
        BY <4>1 DEF Longer
      <4>2. CASE t[n] \in Shown
        <5>1. /\ Append(x, t[n]) = x \o <<t[n]>>
              /\ p \o x \in Seq(Shown)
              /\ Append(p \o x, t[n]) = (p \o x) \o <<t[n]>>
              /\ <<t[n]>> \in Seq(Shown)
          BY <4>2, <1>p, AppendIsConcat, ConcatProperties
        <5>2. (p \o x) \o <<t[n]>> = p \o (x \o <<t[n]>>)
          BY <5>1, <1>p, ConcatAssociative
        <5> QED BY <4>2, <5>1, <5>2 DEF Longer
      <4> QED BY <4>1, <4>2
    <3> QED BY <3>1, <3>2, <3>3, <3>4
  <2> QED BY <2>1, <2>2, <2>3, <1>0
<1>5. IsUpTo(g, t)
  BY <1>b, <1>4, <1>0 DEF IsUpTo
<1>6. ShownOf(t) = g[Len(s) + 1]
  BY <1>5, <1>0, ShownIsUpTo
<1>7. g[Len(s) + 1] = p \o f[Len(s)]
  <2>1. Len(s) + 1 \in 0..(Len(s) + 1) /\ (Len(s) + 1) - 1 = Len(s) /\ Len(s) + 1 # 0
    BY <1>0
  <2> QED BY <2>1, <1>a, Zenon
<1> QED BY <1>2, <1>6, <1>7 DEF t, p

-----------------------------------------------------------------------------
(* The list, which is written from its tail.                               *)

LEMMA ReverseType ==
  ASSUME NEW s \in Seq(Messages)
  PROVE  /\ Reverse(s) \in Seq(Messages) /\ Len(Reverse(s)) = Len(s)
         /\ \A k \in 1..Len(s) : Reverse(s)[k] = s[Len(s) - k + 1]
<1>1. Len(s) \in Nat /\ \A k \in 1..Len(s) : s[k] \in Messages
  BY LenProperties, ElementOfSeq
<1>2. \A k \in 1..Len(s) : (Len(s) - k) + 1 \in 1..Len(s)
  BY <1>1
<1> QED BY <1>1, <1>2 DEF Reverse

\* listAddNodeToHead: the new message is written last.
LEMMA PutIsLast ==
  ASSUME NEW s \in Seq(Messages), NEW m \in Messages
  PROVE  Reverse(<<m>> \o s) = Append(Reverse(s), m)
<1>1. <<m>> \in Seq(Messages) /\ Len(<<m>>) = 1 /\ <<m>>[1] = m /\ Len(s) \in Nat
  BY LenProperties
<1> DEFINE t == <<m>> \o s
           l == Reverse(t)
           r == Append(Reverse(s), m)
<1>2. /\ t \in Seq(Messages) /\ Len(t) = Len(s) + 1
      /\ t[1] = m /\ \A k \in 2..(Len(s) + 1) : t[k] = s[k - 1]
  BY <1>1, ConcatProperties
<1> HIDE DEF t
<1>3. /\ l \in Seq(Messages) /\ Len(l) = Len(s) + 1
      /\ \A k \in 1..(Len(s) + 1) : l[k] = t[Len(s) + 1 - k + 1]
  <2>1. /\ l \in Seq(Messages) /\ Len(l) = Len(t)
        /\ \A k \in 1..Len(t) : l[k] = t[Len(t) - k + 1]
    BY <1>2, ReverseType, Zenon
  <2> QED BY <1>2, <2>1
<1>4. /\ r \in Seq(Messages) /\ Len(r) = Len(s) + 1 /\ r[Len(s) + 1] = m
      /\ \A k \in 1..Len(s) : r[k] = s[Len(s) - k + 1]
  BY ReverseType, AppendProperties
<1> HIDE DEF l, r
<1>5. \A k \in 1..(Len(s) + 1) : l[k] = r[k]
  <2> TAKE k \in 1..(Len(s) + 1)
  <2>1. l[k] = t[Len(s) + 1 - k + 1]
    BY <1>3
  <2>2. CASE k = Len(s) + 1
    BY <2>1, <2>2, <1>1, <1>2, <1>4
  <2>3. CASE k \in 1..Len(s)
    <3>1. Len(s) + 1 - k + 1 \in 2..(Len(s) + 1) /\ (Len(s) + 1 - k + 1) - 1 = Len(s) - k + 1
      BY <2>3, <1>1
    <3> QED BY <2>1, <2>3, <3>1, <1>2, <1>4
  <2> QED BY <2>2, <2>3, <1>1
<1>6. l = r
  BY <1>3, <1>4, <1>5, SeqEqual
<1> QED BY <1>6 DEF l, r, t

\* listPopNodeFromTail: what is popped was next to be written.
LEMMA TailIsFirst ==
  ASSUME NEW s \in Seq(Messages), s # <<>>
  PROVE  <<Last(s)>> \o Reverse(Front(s)) = Reverse(s)
<1>1. Len(s) \in Nat \ {0} /\ \A k \in 1..Len(s) : s[k] \in Messages
  BY EmptySeq, ElementOfSeq
<1> DEFINE u == Front(s)
           m == Last(s)
           l == <<m>> \o Reverse(u)
           r == Reverse(s)
<1>2. m = s[Len(s)] /\ m \in Messages
  BY <1>1 DEF Last
<1>3. u \in Seq(Messages) /\ Len(u) = Len(s) - 1 /\ \A k \in 1..(Len(s) - 1) : u[k] = s[k]
  <2>1. 1 \in Int /\ Len(s) - 1 \in Int /\ \A k \in 1..(Len(s) - 1) : s[k] \in Messages
    BY <1>1
  <2> DEFINE v == SubSeq(s, 1, Len(s) - 1)
  <2>2. /\ v \in Seq(Messages)
        /\ Len(v) = IF 1 <= Len(s) - 1 THEN (Len(s) - 1) - 1 + 1 ELSE 0
        /\ \A k \in 1..((Len(s) - 1) - 1 + 1) : v[k] = s[1 + k - 1]
    BY <2>1, SubSeqProperties
  <2>3. u = v
    BY DEF Front
  <2> HIDE DEF u, v
  <2> QED BY <2>2, <2>3, <1>1
<1> HIDE DEF u, m
<1>4. <<m>> \in Seq(Messages) /\ Len(<<m>>) = 1 /\ <<m>>[1] = m
  BY <1>2
<1>5. /\ Reverse(u) \in Seq(Messages) /\ Len(Reverse(u)) = Len(s) - 1
      /\ \A k \in 1..(Len(s) - 1) : Reverse(u)[k] = u[Len(s) - 1 - k + 1]
  BY <1>3, ReverseType
<1>6. /\ l \in Seq(Messages) /\ Len(l) = Len(s) /\ l[1] = m
      /\ \A k \in 2..Len(s) : l[k] = Reverse(u)[k - 1]
  BY <1>1, <1>4, <1>5, ConcatProperties
<1>7. r \in Seq(Messages) /\ Len(r) = Len(s) /\ \A k \in 1..Len(s) : r[k] = s[Len(s) - k + 1]
  BY ReverseType
<1> HIDE DEF l, r
<1>8. \A k \in 1..Len(s) : l[k] = r[k]
  <2> TAKE k \in 1..Len(s)
  <2>1. CASE k = 1
    BY <2>1, <1>1, <1>2, <1>6, <1>7
  <2>2. CASE k # 1
    <3>1. /\ k \in 2..Len(s) /\ k - 1 \in 1..(Len(s) - 1)
          /\ Len(s) - 1 - (k - 1) + 1 = Len(s) - k + 1 /\ Len(s) - k + 1 \in 1..(Len(s) - 1)
      BY <2>2, <1>1
    <3>2. l[k] = Reverse(u)[k - 1] /\ Reverse(u)[k - 1] = u[Len(s) - k + 1]
      BY <3>1, <1>5, <1>6
    <3> QED BY <3>1, <3>2, <1>3, <1>7
  <2> QED BY <2>1, <2>2
<1>9. l = r
  BY <1>6, <1>7, <1>8, SeqEqual
<1> QED BY <1>9 DEF l, r, u, m

-----------------------------------------------------------------------------
(* The files: what is written and what waits is what was printed.          *)

StartsWith(t, s) == Len(s) <= Len(t) /\ \A k \in 1..Len(s) : t[k] = s[k]

FilesInv == InOrder /\ StartsWith(ShownOf(printed), Texts)

LEMMA StartsWithPrefix ==
  ASSUME NEW s \in Seq(Messages), NEW t \in Seq(Messages), StartsWith(t, s)
  PROVE  IsPrefix(s, t)
<1>1. Len(s) \in Nat /\ Len(t) \in Nat /\ Len(s) <= Len(t)
  BY LenProperties DEF StartsWith
<1>2. SubSeq(t, 1, Len(s)) = SubSeq(s, 1, Len(s))
  BY <1>1 DEF StartsWith
<1> QED BY <1>1, <1>2 DEF IsPrefix

LEMMA StartsWithPart ==
  ASSUME NEW s \in Seq(Messages), NEW u \in Seq(Messages), NEW t, t = s \o u
  PROVE  StartsWith(t, s)
<1>1. Len(s) \in Nat /\ Len(u) \in Nat /\ Len(t) = Len(s) + Len(u)
  BY ConcatProperties, LenProperties
<1>2. \A k \in 1..Len(s) : t[k] = s[k]
  BY <1>1, ConcatProperties
<1> QED BY <1>1, <1>2 DEF StartsWith

LEMMA StartsWithLonger ==
  ASSUME NEW s \in Seq(Messages), NEW t \in Seq(Messages), StartsWith(t, s), NEW m \in Messages
  PROVE  StartsWith(Longer(t, m), s)
<1>1. Len(s) \in Nat /\ Len(t) \in Nat /\ Len(s) <= Len(t)
  BY LenProperties DEF StartsWith
<1> DEFINE a == Append(t, m)
<1>2. Len(a) = Len(t) + 1 /\ \A k \in 1..Len(t) : a[k] = t[k]
  BY AppendProperties
<1> HIDE DEF a
<1>3. StartsWith(a, s)
  BY <1>1, <1>2 DEF StartsWith
<1> QED BY <1>3 DEF Longer, a

LEMMA WaitingType ==
  ASSUME LogTypeOK
  PROVE  /\ Waiting \in Seq(Messages) /\ ShownOf(Waiting) \in Seq(Shown)
         /\ ShownOf(printed) \in Seq(Shown)
         /\ Texts \in Seq(Messages) /\ Len(Texts) = Len(written)
<1>1. InHand \in Seq(Messages)
  BY DEF LogTypeOK, InHand
<1>2. Waiting \in Seq(Messages)
  BY <1>1, ReverseType, ConcatProperties DEF LogTypeOK, Waiting
<1>3. \A s \in Seq(Messages) : ShownOf(s) \in Seq(Shown)
  BY UpToExists, ShownIsUpTo, LenProperties
<1>4. /\ DOMAIN written = 1..Len(written) /\ Len(written) \in Nat
      /\ \A k \in 1..Len(written) : written[k].msg \in Messages
  <2> DEFINE S == [msg : Messages, day : 0..LastDay]
  <2>1. written \in Seq(S) /\ \A w \in S : w.msg \in Messages
    BY DEF LogTypeOK
  <2> HIDE DEF S
  <2>2. \A k \in 1..Len(written) : written[k] \in S
    BY <2>1, ElementOfSeq
  <2> QED BY <2>1, <2>2, LenProperties
<1>5. Texts \in Seq(Messages) /\ Len(Texts) = Len(written)
  BY <1>4 DEF Texts
<1> QED BY <1>2, <1>3, <1>5 DEF LogTypeOK

LEMMA FilesInit == LogInit => FilesInv
<1> SUFFICES ASSUME LogInit PROVE FilesInv
  OBVIOUS
<1>1. LogTypeOK
  BY LogInvInit DEF LogInv
<1>2. printed = <<>> /\ Waiting = <<>> /\ Texts = <<>>
  BY DEF LogInit, Waiting, InHand, Texts, Reverse
<1>3. Texts \o ShownOf(Waiting) = ShownOf(printed)
  BY <1>1, <1>2, WaitingType, ConcatEmptySeq
<1>4. Len(Texts) = 0 /\ Len(ShownOf(printed)) \in Nat
  BY <1>1, <1>2, WaitingType, LenProperties
<1> QED BY <1>2, <1>3, <1>4 DEF FilesInv, InOrder, StartsWith

\* A message that is printed waits as the last, whatever it is.
LEMMA FilesPrint ==
  ASSUME LogTypeOK, FilesInv, NEW p \in Printers, NEW m \in Messages, LogPrint(p, m)
  PROVE  FilesInv'
<1>1. log_list' = <<m>> \o log_list /\ printed' = Append(printed, m)
      /\ msg' = msg /\ written' = written /\ g_logFile' = g_logFile
  BY DEF LogPrint, PutMessage, file
<1>2. /\ InHand \in Seq(Messages) /\ log_list \in Seq(Messages) /\ printed \in Seq(Messages)
      /\ Reverse(log_list) \in Seq(Messages)
  BY ReverseType DEF LogTypeOK, InHand
<1>3. Waiting' = InHand \o Append(Reverse(log_list), m)
  BY <1>1, <1>2, PutIsLast DEF Waiting, InHand
<1>4. Waiting' = Append(Waiting, m)
  <2>0. Waiting \in Seq(Messages) /\ <<m>> \in Seq(Messages)
    BY WaitingType
  <2>1. /\ Append(Reverse(log_list), m) = Reverse(log_list) \o <<m>>
        /\ Waiting \in Seq(Messages)
        /\ Append(Waiting, m) = Waiting \o <<m>> /\ <<m>> \in Seq(Messages)
    BY <1>2, <2>0, AppendIsConcat
  <2>2. (InHand \o Reverse(log_list)) \o <<m>> = InHand \o (Reverse(log_list) \o <<m>>)
    <3> DEFINE Q == Reverse(log_list)
               H == InHand
    <3>1. H \in Seq(Messages) /\ Q \in Seq(Messages)
      BY <1>2
    <3> HIDE DEF Q, H
    <3>2. (H \o Q) \o <<m>> = H \o (Q \o <<m>>)
      BY <3>1, <2>0, ConcatAssociative
    <3> QED BY <3>2 DEF Q, H
  <2> QED BY <1>3, <2>1, <2>2 DEF Waiting
<1>5. Texts' = Texts
  BY <1>1 DEF Texts
<1> DEFINE P == ShownOf(printed)
           W == ShownOf(Waiting)
<1>6. /\ Waiting \in Seq(Messages) /\ P \in Seq(Shown) /\ W \in Seq(Shown) /\ Texts \in Seq(Messages)
      /\ W \in Seq(Messages) /\ P \in Seq(Messages)
  BY WaitingType, SeqMonotonic, LogAssumption
<1>7. ShownOf(printed)' = Longer(P, m) /\ ShownOf(Waiting)' = Longer(W, m)
  BY <1>1, <1>2, <1>4, <1>6, ShownAppend
<1> HIDE DEF P, W
<1>8. (P = Texts \o W) => (Longer(P, m) = Texts \o Longer(W, m))
  <2> SUFFICES ASSUME P = Texts \o W, m \in Shown
               PROVE  Append(P, m) = Texts \o Append(W, m)
    BY DEF Longer
  <2>1. /\ Append(P, m) = P \o <<m>> /\ Append(W, m) = W \o <<m>> /\ <<m>> \in Seq(Messages)
    BY <1>6, AppendIsConcat
  <2>2. (Texts \o W) \o <<m>> = Texts \o (W \o <<m>>)
    <3> DEFINE u == <<m>>
    <3>1. Texts \in Seq(Messages) /\ W \in Seq(Messages) /\ u \in Seq(Messages)
      BY <1>6, <2>1
    <3> HIDE DEF u, Texts
    <3>2. (Texts \o W) \o u = Texts \o (W \o u)
      BY ONLY <3>1, ConcatAssociative
    <3> QED BY <3>2 DEF u
  <2> QED BY <2>1, <2>2
<1>9. InOrder'
  BY <1>1, <1>5, <1>7, <1>8 DEF FilesInv, InOrder, Null, P, W
<1>10. StartsWith(P, Texts)
  BY DEF FilesInv, P
<1>11. StartsWith(Longer(P, m), Texts)
  BY <1>6, <1>10, StartsWithLonger
<1>12. StartsWith(ShownOf(printed)', Texts')
  BY <1>5, <1>7, <1>11
<1> QED BY <1>9, <1>12 DEF FilesInv

\* What is popped goes on waiting, as the first.
LEMMA FilesPop ==
  ASSUME LogTypeOK, FilesInv, Pop
  PROVE  FilesInv'
<1>1. /\ msg = NoMsg /\ log_list # <<>> /\ log_list \in Seq(Messages)
      /\ msg' = Last(log_list) /\ log_list' = Front(log_list)
      /\ printed' = printed /\ written' = written /\ g_logFile' = g_logFile
  BY DEF Pop, LogTypeOK, file
<1>2. Last(log_list) \in Messages
  <2>1. Len(log_list) \in 1..Len(log_list)
    BY <1>1, EmptySeq
  <2> QED BY <1>1, <2>1, ElementOfSeq DEF Last
<1>3. InHand' = <<Last(log_list)>> /\ InHand = <<>>
  BY <1>1, <1>2, LogAssumption DEF InHand
<1>4. Waiting' = Reverse(log_list)
  BY <1>1, <1>3, TailIsFirst DEF Waiting
<1>5. Waiting = Reverse(log_list)
  BY <1>1, <1>3, ReverseType, ConcatEmptySeq DEF Waiting
<1> QED BY <1>1, <1>4, <1>5 DEF FilesInv, InOrder, Texts, Null

\* What is taken in hand is the first of those that wait.
LEMMA HandFirst ==
  ASSUME LogTypeOK, pc \in {"handle", "write"}
  PROVE  /\ msg \in Messages
         /\ ShownOf(Waiting) = Longer(<<>>, msg) \o ShownOf(Reverse(log_list))
         /\ ShownOf(Reverse(log_list)) \in Seq(Shown)
<1>1. msg \in Messages /\ InHand = <<msg>> /\ log_list \in Seq(Messages)
  BY LogAssumption DEF LogTypeOK, InHand
<1>2. Reverse(log_list) \in Seq(Messages)
  BY <1>1, ReverseType
<1> QED BY <1>1, <1>2, ShownFirst, ShownAppend DEF Waiting

\* And when it is done with, the others are left.
LEMMA HandEmpty ==
  ASSUME LogTypeOK, msg' = NoMsg, log_list' = log_list
  PROVE  Waiting' = Reverse(log_list)
<1>1. InHand' = <<>> /\ log_list \in Seq(Messages)
  BY DEF InHand, LogTypeOK
<1>2. Reverse(log_list) \in Seq(Messages)
  BY <1>1, ReverseType
<1> QED BY <1>1, <1>2, ConcatEmptySeq DEF Waiting

LEMMA FilesWrite ==
  ASSUME LogTypeOK, FilesInv, Write
  PROVE  FilesInv'
<1>1. /\ pc \in {"handle", "write"} /\ msg \in Shown /\ g_logFile # Null /\ g_logFile' = g_logFile
      /\ msg' = NoMsg /\ log_list' = log_list /\ printed' = printed
      /\ written' = Append(written, [msg |-> msg, day |-> g_logFile])
  BY DEF Write, shared, file
<1> DEFINE R == ShownOf(Reverse(log_list))
           P == ShownOf(printed)
<1>2. ShownOf(Waiting) = <<msg>> \o R
  BY <1>1, HandFirst, AppendProperties, AppendIsConcat, ConcatEmptySeq, EmptySeq DEF Longer
<1>3. ShownOf(Waiting)' = R
  BY <1>1, HandEmpty
<1>4. /\ R \in Seq(Messages) /\ P \in Seq(Messages) /\ Texts \in Seq(Messages) /\ <<msg>> \in Seq(Messages)
      /\ Len(<<msg>>) = 1
  BY <1>1, HandFirst, WaitingType, SeqMonotonic, LogAssumption
<1>5. Texts' = Append(Texts, msg)
  <2> DEFINE w == [msg |-> msg, day |-> g_logFile]
             S == [msg : Messages, day : 0..LastDay]
  <2>1. w \in S /\ written \in Seq(S) /\ w.msg = msg
    BY <1>1, LogAssumption DEF LogTypeOK, Null
  <2> HIDE DEF w, S
  <2>2. /\ written' \in Seq(S) /\ Len(written') = Len(written) + 1
        /\ \A k \in 1..Len(written) : written'[k] = written[k]
        /\ written'[Len(written) + 1] = w
    BY <2>1, <1>1, AppendProperties DEF w
  <2>3. /\ DOMAIN written' = 1..(Len(written) + 1) /\ DOMAIN written = 1..Len(written)
        /\ Len(written) \in Nat
    BY <2>1, <2>2, LenProperties
  <2>4. /\ Append(Texts, msg) \in Seq(Messages) /\ Len(Append(Texts, msg)) = Len(written) + 1
        /\ \A k \in 1..Len(written) : Append(Texts, msg)[k] = Texts[k]
        /\ Append(Texts, msg)[Len(written) + 1] = msg
    BY <1>4, <1>1, HandFirst, WaitingType, AppendProperties
  <2>5. DOMAIN Append(Texts, msg) = 1..(Len(written) + 1)
    BY <2>4, LenProperties
  <2>6. \A k \in 1..(Len(written) + 1) : written'[k].msg = Append(Texts, msg)[k]
    <3> TAKE k \in 1..(Len(written) + 1)
    <3>1. CASE k \in 1..Len(written)
      BY <3>1, <2>2, <2>3, <2>4 DEF Texts
    <3>2. CASE k = Len(written) + 1
      BY <3>2, <2>1, <2>2, <2>4
    <3>3. k \in 1..Len(written) \/ k = Len(written) + 1
      BY <2>3
    <3> QED BY <3>1, <3>2, <3>3
  <2>7. Append(Texts, msg) = [k \in 1..(Len(written) + 1) |-> Append(Texts, msg)[k]]
    BY <2>4, <2>5, LenProperties
  <2>8. Texts' = [k \in 1..(Len(written) + 1) |-> written'[k].msg]
    BY <2>3 DEF Texts
  <2> QED BY <2>6, <2>7, <2>8
<1> HIDE DEF R, P
<1>6. Texts \o (<<msg>> \o R) = Append(Texts, msg) \o R
  <2>1. Append(Texts, msg) = Texts \o <<msg>>
    BY <1>4, HandFirst, <1>1, AppendIsConcat
  <2> QED BY <2>1, <1>4, ConcatAssociative
<1>7. P = Texts' \o R
  BY <1>1, <1>2, <1>5, <1>6 DEF FilesInv, InOrder, P
<1>8. InOrder'
  BY <1>1, <1>3, <1>7 DEF InOrder, P
<1>9. Texts' \in Seq(Messages)
  BY <1>4, <1>1, <1>5, HandFirst, AppendProperties
<1>10. StartsWith(P, Texts')
  <2> DEFINE t == Texts'
  <2>1. t \in Seq(Messages) /\ R \in Seq(Messages) /\ P = t \o R
    BY <1>4, <1>7, <1>9
  <2> HIDE DEF t
  <2>2. StartsWith(P, t)
    BY ONLY <2>1, StartsWithPart
  <2> QED BY <2>2 DEF t
<1>11. P' = P
  BY <1>1 DEF P
<1> QED BY <1>8, <1>10, <1>11 DEF FilesInv, P

LEMMA FilesFiltered ==
  ASSUME LogTypeOK, FilesInv, Filtered
  PROVE  FilesInv'
<1>1. /\ pc \in {"handle", "write"} /\ msg \notin Shown /\ g_logFile' = g_logFile
      /\ msg' = NoMsg /\ log_list' = log_list /\ printed' = printed /\ written' = written
  BY DEF Filtered, shared, file
<1>2. ShownOf(Waiting) = ShownOf(Reverse(log_list))
  BY <1>1, HandFirst, ConcatEmptySeq DEF Longer
<1>3. ShownOf(Waiting)' = ShownOf(Waiting)
  BY <1>1, <1>2, HandEmpty
<1> QED BY <1>1, <1>3 DEF FilesInv, InOrder, Texts, Null

\* Where no file is open in the end, only what is printed and what is written matters.
LEMMA FilesGone ==
  ASSUME LogTypeOK, FilesInv, UNCHANGED <<printed, written>>, g_logFile' = Null
  PROVE  FilesInv'
BY DEF FilesInv, InOrder, Texts, Null

\* Every other step leaves alone what was printed, waits and was written; a file that was
\* not open stays so.
LEMMA FilesSame ==
  ASSUME LogTypeOK, FilesInv, UNCHANGED <<log_list, msg, printed, written>>,
         g_logFile' # Null => g_logFile # Null
  PROVE  FilesInv'
BY DEF FilesInv, InOrder, Waiting, InHand, Texts, Null

LEMMA FilesNext == LogTypeOK /\ FilesInv /\ [LogNext]_logVars => FilesInv'
<1> SUFFICES ASSUME LogTypeOK, FilesInv, [LogNext]_logVars PROVE FilesInv'
  OBVIOUS
<1>1. CASE UNCHANGED logVars
  BY <1>1, FilesSame DEF logVars, shared, file
<1>2. CASE Midnight
  BY <1>2, FilesSame DEF Midnight, shared, file
<1>3. CASE LogUninit
  BY <1>3, FilesSame DEF LogUninit
<1>4. CASE Lock
  BY <1>4, FilesSame DEF Lock, file
<1>5. CASE Pop
  BY <1>5, FilesPop
<1>6. CASE NothingLeft
  BY <1>6, FilesSame DEF NothingLeft, shared, file
<1>7. CASE SameDay
  BY <1>7, FilesSame DEF SameDay, shared, file
<1>8. CASE NextDay
  BY <1>8, FilesSame DEF NextDay, NewDay, shared
<1>9. CASE NextDayFails
  BY <1>9, FilesGone DEF NextDayFails, NewDay
<1>10. CASE Filtered
  BY <1>10, FilesFiltered
<1>11. CASE Write
  BY <1>11, FilesWrite
<1>12. ASSUME NEW p \in Printers, LogPrintUnlocks(p) PROVE FilesInv'
  BY <1>12, FilesSame DEF LogPrintUnlocks, file
<1>13. ASSUME NEW p \in Printers, NEW m \in Messages, LogPrint(p, m) PROVE FilesInv'
  BY <1>13, FilesPrint
<1>14. CASE ClosesNull
  BY <1>14, FilesGone DEF ClosesNull, NewDay
<1>15. CASE WritesNull
  BY <1>15, FilesGone DEF WritesNull, file
<1> QED BY <1>1, <1>2, <1>3, <1>4, <1>5, <1>6, <1>7, <1>8, <1>9, <1>10, <1>11, <1>12, <1>13,
           <1>14, <1>15 DEF LogNext, LogThread

-----------------------------------------------------------------------------
(* The theorems.                                                           *)

\* The log thread handles a message and never NULL: it pops only from a list that
\* is not empty, although a printer's unlock may come when the list is empty again.
THEOREM LogTypeCorrect == LogSpec => []LogTypeOK
<1>1. LogInv => LogTypeOK
  BY DEF LogInv
<1> QED BY LogInductive, <1>1, PTL

\* While messages wait, the log thread is awake or can lock, or a printer is about
\* to unlock, although unlocks of the unlocked mutex are not counted.
THEOREM NoWakeupLost == LogSpec => []NoLostWakeup
<1>1. LogInv => NoLostWakeup
  BY DEF LogInv
<1> QED BY LogInductive, <1>1, PTL

\* While a file is open, what the files hold and what still waits is what was shown of
\* the messages, in the order in which they were printed; whatever fopen does and
\* whenever log_uninit closes the file, the files hold a beginning of it.
THEOREM FilesCorrect == LogSpec => []FilesRight
<1>1. LogTypeOK /\ FilesInv => FilesRight
  <2> SUFFICES ASSUME LogTypeOK, FilesInv PROVE FilesBegin
    BY DEF FilesInv, FilesRight
  <2>1. Texts \in Seq(Messages) /\ ShownOf(printed) \in Seq(Messages)
    BY WaitingType, SeqMonotonic, LogAssumption
  <2>2. StartsWith(ShownOf(printed), Texts)
    BY DEF FilesInv
  <2>3. IsPrefix(Texts, ShownOf(printed))
    <3> DEFINE t == Texts
               u == ShownOf(printed)
    <3>1. t \in Seq(Messages) /\ u \in Seq(Messages) /\ StartsWith(u, t)
      BY <2>1, <2>2
    <3> HIDE DEF t, u
    <3>2. IsPrefix(t, u)
      BY ONLY <3>1, StartsWithPrefix
    <3> QED BY <3>2 DEF t, u
  <2> QED BY <2>3 DEF FilesBegin
<1>2. LogInv => LogTypeOK
  BY DEF LogInv
<1> QED BY <1>1, <1>2, LogInductive, FilesInit, FilesNext, PTL DEF LogSpec

-----------------------------------------------------------------------------
(* AeTimers: seconds and milliseconds.                                     *)

Times == [sec : Nat, ms : 0..MsPerSec - 1]

\* What is divided is made up of the quotient and the remainder.
LEMMA Division ==
  ASSUME NEW t \in Nat
  PROVE  /\ Sec(t) \in Nat /\ Ms(t) \in 0..MsPerSec - 1 /\ Ms(t) \in Nat
         /\ MsPerSec * Sec(t) \in Nat
         /\ t = MsPerSec * Sec(t) + Ms(t)
<1>1. Sec(t) \in Nat /\ Ms(t) \in 0..MsPerSec - 1 /\ t = MsPerSec * Sec(t) + Ms(t)
  BY TimersAssumption DEF Sec, Ms
<1>2. MsPerSec * Sec(t) \in Nat
  BY <1>1, TimersAssumption
<1> QED BY <1>1, <1>2, TimersAssumption

\* A later second begins after an earlier one is over.
LEMMA NextSecond ==
  ASSUME NEW a \in Nat, NEW b \in Nat, a < b
  PROVE  MsPerSec * a + MsPerSec <= MsPerSec * b
<1>1. PICK c \in Nat : b = a + 1 + c
  <2>1. b - a - 1 \in Nat /\ b = a + 1 + (b - a - 1)
    OBVIOUS
  <2> QED BY <2>1
<1>2. MsPerSec * b = MsPerSec * a + MsPerSec + MsPerSec * c
  BY <1>1, TimersAssumption
<1>3. MsPerSec * c \in Nat /\ MsPerSec * a \in Nat /\ MsPerSec \in Nat
  BY TimersAssumption
<1> QED BY <1>2, <1>3

LEMMA SecMonotonic ==
  ASSUME NEW t \in Nat, NEW u \in Nat, t <= u
  PROVE  Sec(t) <= Sec(u) /\ (Sec(t) = Sec(u) => Ms(t) <= Ms(u))
<1> DEFINE a == MsPerSec * Sec(t)
           b == MsPerSec * Sec(u)
<1>1. a \in Nat /\ t = a + Ms(t) /\ Ms(t) \in Nat /\ Sec(t) \in Nat
  BY Division
<1>2. b \in Nat /\ u = b + Ms(u) /\ Ms(u) \in Nat /\ Ms(u) < MsPerSec /\ Sec(u) \in Nat
  <2>1. Ms(u) \in 0..MsPerSec - 1 /\ MsPerSec \in Nat
    BY Division, TimersAssumption
  <2> QED BY <2>1, Division
<1>3. Sec(u) < Sec(t) => b + MsPerSec <= a
  BY <1>1, <1>2, NextSecond
<1>4. Sec(t) = Sec(u) => a = b
  OBVIOUS
<1>5. MsPerSec \in Nat
  BY TimersAssumption
<1> HIDE DEF a, b
<1>6. ~ (Sec(u) < Sec(t))
  BY <1>1, <1>2, <1>3, <1>5
<1>7. Sec(t) = Sec(u) => Ms(t) <= Ms(u)
  BY <1>1, <1>2, <1>4
<1> QED BY <1>1, <1>2, <1>6, <1>7

\* What is due stays due while the clock is not set back.
LEMMA DueLater ==
  ASSUME NEW w \in Times, NEW t \in Nat, NEW u \in Nat, t <= u, IsDue(w, t)
  PROVE  IsDue(w, u)
<1>1. w.sec \in Nat /\ w.ms \in Nat
  BY TimersAssumption DEF Times
<1>2. Sec(t) \in Nat /\ Sec(u) \in Nat /\ Ms(t) \in Nat /\ Ms(u) \in Nat
  BY Division
<1> QED BY <1>1, <1>2, SecMonotonic DEF IsDue

\* The second 0 is past, whatever the milliseconds.
LEMMA ForcedDue ==
  ASSUME NEW w \in Times, w.sec = 0, NEW t \in Nat, MsPerSec <= t
  PROVE  IsDue(w, t)
<1>1. Sec(t) # 0
  <2>1. Sec(t) = 0 => MsPerSec * Sec(t) = 0
    BY TimersAssumption
  <2>2. Ms(t) < MsPerSec /\ Ms(t) \in Nat /\ MsPerSec \in Nat
    <3>1. Ms(t) \in 0..MsPerSec - 1 /\ MsPerSec \in Nat
      BY Division, TimersAssumption
    <3> QED BY <3>1
  <2>3. t = MsPerSec * Sec(t) + Ms(t)
    BY Division
  <2> QED BY <2>1, <2>2, <2>3
<1>2. Sec(t) \in Nat
  BY Division
<1> QED BY <1>1, <1>2 DEF IsDue

\* aeAddMillisecondsToNow carries.
LEMMA NowPlus ==
  ASSUME NEW delay \in Nat, clock \in Nat
  PROVE  AddMillisecondsToNow(delay) \in Times
<1>1. /\ Sec(clock) \in Nat /\ Ms(clock) \in 0..MsPerSec - 1
      /\ Sec(delay) \in Nat /\ Ms(delay) \in 0..MsPerSec - 1 /\ MsPerSec \in Nat
  BY Division, TimersAssumption
<1> QED BY <1>1 DEF AddMillisecondsToNow, Times
-----------------------------------------------------------------------------
(* The invariant                                                           *)

Walking == lpc \in {"walk", "timeProc", "finalizer"}

TypeInv ==
  /\ clock \in Nat /\ MsPerSec <= clock
  /\ timeEventNextId \in 0..MaxTimers /\ events \subseteq 0..timeEventNextId - 1
  /\ timeEventHead \in TimerOrNone /\ nextEvent \in [Ids -> TimerOrNone]
  /\ deleted \subseteq events
  /\ when \in [Ids -> Times]
  /\ lpc \in {"poll", "sleep", "files", "walk", "timeProc", "finalizer"}
  /\ te \in TimerOrNone /\ tprev \in TimerOrNone
  /\ maxId \in Int /\ maxId < timeEventNextId
  /\ owed \subseteq Ids

\* tprev is the timer before te.
PrevBeforeTe ==
  Walking /\ tprev # NoTimer => nextEvent[tprev] = IF lpc = "finalizer" THEN nextEvent[te] ELSE te

\* What a walk has still to fire is due and is still to be met.
OwedAhead ==
  /\ owed \subseteq DueAt(when, clock)
  /\ owed \subseteq InList \ deleted
  /\ owed # {} => Walking /\ te # NoTimer
  /\ \A i \in owed : IF lpc = "walk" THEN i <= te ELSE i < te

TimersInv == TypeInv /\ TimersListed /\ PrevBeforeTe /\ OwedAhead

LEMMA EventsAreIds ==
  ASSUME TypeInv
  PROVE  /\ InList \subseteq events /\ events \subseteq Ids
         /\ \A i \in events : i \in Nat /\ i < timeEventNextId
<1>1. timeEventNextId \in Nat /\ timeEventNextId <= MaxTimers /\ MaxTimers \in Nat
  BY TimersAssumption DEF TypeInv
<1>2. ASSUME NEW i \in events
      PROVE  i \in Nat /\ i < timeEventNextId /\ i \in Ids
  BY <1>1, <1>2 DEF TypeInv, Ids
<1> QED BY <1>2 DEF InList

\* The walk from the head along the pointers meets what is in the list.
LEMMA ListedInList ==
  ASSUME TypeInv, NewestFirst
  PROVE  Listed \subseteq InList
<1>1. InList \subseteq Ids
  BY EventsAreIds
<1>2. Closed(InList)
  <2>1. timeEventHead \in InList \cup {NoTimer}
    BY DEF NewestFirst, IsNewest
  <2>2. ASSUME NEW i \in InList
        PROVE  nextEvent[i] \in InList \cup {NoTimer}
    BY <2>2 DEF NewestFirst, IsNewest, Older
  <2> QED BY <2>1, <2>2 DEF Closed
<1> QED BY <1>1, <1>2 DEF Listed

\* What is older than a timer of the list is from its next timer on.
LEMMA NextIsNewest ==
  ASSUME TypeInv, NewestFirst, NEW i \in InList
  PROVE  /\ i \in Ids /\ i \in Nat
         /\ IsNewest(nextEvent[i], Older(i))
         /\ nextEvent[i] # NoTimer => nextEvent[i] \in InList /\ nextEvent[i] < i
         /\ \A j \in InList : j < i => nextEvent[i] # NoTimer /\ j <= nextEvent[i]
<1>1. i \in Ids /\ i \in Nat
  BY EventsAreIds
<1>2. IsNewest(nextEvent[i], Older(i))
  BY DEF NewestFirst
<1>3. \A j \in InList : j \in Nat
  BY EventsAreIds
<1> QED BY <1>1, <1>2, <1>3, TimersAssumption DEF IsNewest, Older

LEMMA TimersInvInit == TimeInit => TimersInv
<1> SUFFICES ASSUME TimeInit PROVE TimersInv
  OBVIOUS
<1>1. LongAgo \in Times
  BY TimersAssumption DEF LongAgo, Times
<1>2. TypeInv
  <2>1. clock \in Nat /\ MsPerSec <= clock /\ timeEventNextId \in 0..MaxTimers
    BY TimersAssumption DEF TimeInit
  <2>2. when \in [Ids -> Times] /\ nextEvent \in [Ids -> TimerOrNone]
    BY <1>1 DEF TimeInit, TimerOrNone
  <2> QED BY <2>1, <2>2 DEF TimeInit, TypeInv, TimerOrNone
<1>3. InList = {}
  BY DEF TimeInit, InList
<1>4. NewestFirst
  BY <1>3 DEF TimeInit, NewestFirst, IsNewest, Older
<1> QED BY <1>2, <1>3, <1>4 DEF TimeInit, TimersInv, TimersListed, WalkInList, PrevBeforeTe, OwedAhead, Walking

-----------------------------------------------------------------------------
(* Steps that leave the list alone                                         *)

LEMMA SameList ==
  ASSUME UNCHANGED listed, UNCHANGED <<lpc, te>>
  PROVE  /\ InList' = InList /\ \A i \in InList : Older(i)' = Older(i)
         /\ NewestFirst => NewestFirst'
BY DEF listed, InList, Older, NewestFirst, IsNewest

\* A step to or from a timeProc leaves it alone, too.
LEMMA SameListWalk ==
  ASSUME UNCHANGED listed, lpc # "finalizer", lpc' # "finalizer"
  PROVE  /\ InList' = InList /\ \A i \in InList : Older(i)' = Older(i)
         /\ NewestFirst => NewestFirst'
BY DEF listed, InList, Older, NewestFirst, IsNewest

LEMMA TickStep ==
  ASSUME TimersInv, Tick
  PROVE  TimersInv'
<1>1. /\ clock' \in Nat /\ clock <= clock' /\ MsPerSec <= clock'
      /\ UNCHANGED <<listed, lastTime, deleted, when, lpc, te, tprev, maxId, owed>>
  BY TimersAssumption DEF Tick, TimersInv, TypeInv
<1>2. TypeInv'
  BY <1>1 DEF TimersInv, TypeInv, listed
<1>3. InList' = InList /\ NewestFirst'
  BY <1>1, SameList DEF TimersInv, TimersListed
<1>4. WalkInList' /\ PrevBeforeTe'
  BY <1>1, <1>3, SameList DEF TimersInv, TimersListed, WalkInList, PrevBeforeTe, Walking, listed, Older
<1>5. owed' \subseteq DueAt(when', clock')
  BY <1>1, DueLater DEF TimersInv, OwedAhead, DueAt, TypeInv
<1> QED BY <1>1, <1>2, <1>3, <1>4, <1>5 DEF TimersInv, TimersListed, OwedAhead, Walking

LEMMA SetClockStep ==
  ASSUME TimersInv, NEW t \in MsPerSec..LastTick, SetClock(t)
  PROVE  TimersInv'
<1>1. /\ clock' \in Nat /\ MsPerSec <= clock'
      /\ owed' \subseteq owed /\ owed' \subseteq DueAt(when, clock')
      /\ UNCHANGED <<listed, lastTime, deleted, when, lpc, te, tprev, maxId>>
  BY TimersAssumption DEF SetClock, TimersInv, TypeInv
<1>2. TypeInv'
  BY <1>1 DEF TimersInv, TypeInv, listed
<1>3. InList' = InList /\ NewestFirst'
  BY <1>1, SameList DEF TimersInv, TimersListed
<1>4. WalkInList' /\ PrevBeforeTe'
  BY <1>1, <1>3, SameList DEF TimersInv, TimersListed, WalkInList, PrevBeforeTe, Walking, listed, Older
<1> QED BY <1>1, <1>2, <1>3, <1>4 DEF TimersInv, TimersListed, OwedAhead, Walking

LEMMA DeleteStep ==
  ASSUME TimersInv, NEW i \in Ids, DeleteTimeEvent(i)
  PROVE  TimersInv'
<1>1. i \in InList
  BY ListedInList DEF DeleteTimeEvent, TimersInv, TimersListed
<1>2. /\ deleted' = deleted \cup {i} /\ owed' = owed \ {i}
      /\ UNCHANGED <<clockVars, listed, lastTime, when, lpc, te, tprev, maxId>>
  BY DEF DeleteTimeEvent
<1>3. TypeInv'
  BY <1>1, <1>2 DEF TimersInv, TypeInv, listed, clockVars, InList
<1>4. InList' = InList /\ NewestFirst'
  BY <1>2, SameList DEF TimersInv, TimersListed
<1>5. WalkInList' /\ PrevBeforeTe'
  BY <1>2, <1>4, SameList DEF TimersInv, TimersListed, WalkInList, PrevBeforeTe, Walking, listed, Older
<1> QED BY <1>2, <1>3, <1>4, <1>5 DEF TimersInv, TimersListed, OwedAhead, Walking, clockVars, DueAt
-----------------------------------------------------------------------------
(* Steps of callbacks and between walks                                    *)

\* A new timer is the newest, before whatever the walk has met.
LEMMA CreateStep ==
  ASSUME TimersInv, ~ FinalizersCreate, NEW delay \in Delays, CreateTimeEvent(delay)
  PROVE  TimersInv'
<1>0. PICK new : new = timeEventNextId
  OBVIOUS
<1>1. /\ lpc \in {"poll", "files", "timeProc"} /\ new < MaxTimers
      /\ timeEventNextId' = new + 1
      /\ events' = events \cup {new}
      /\ when' = [when EXCEPT ![new] = AddMillisecondsToNow(delay)]
      /\ nextEvent' = [nextEvent EXCEPT ![new] = timeEventHead]
      /\ timeEventHead' = new
      /\ UNCHANGED <<clockVars, lastTime, deleted, lpc, sleep, te, tprev, maxId, owed, moved>>
  BY <1>0 DEF CreateTimeEvent, Calling
<1>2. /\ new \in Nat /\ new \in Ids /\ new \notin events /\ \A j \in events : j \in Nat /\ j < new
      /\ new # NoTimer /\ InList = events /\ InList' = events \cup {new}
  <2>1. new \in Nat /\ new \in Ids /\ new # NoTimer
    BY <1>0, <1>1, TimersAssumption DEF TimersInv, TypeInv, Ids
  <2>2. \A j \in events : j \in Nat /\ j < new
    BY <1>0, EventsAreIds DEF TimersInv
  <2> QED BY <1>1, <2>1, <2>2 DEF InList
<1>3. /\ nextEvent'[new] = timeEventHead
      /\ \A i \in events : nextEvent'[i] = nextEvent[i] /\ Older(i)' = Older(i)
      /\ Older(new)' = events
  <2>1. \A i \in events : i \in Ids /\ i # new
    BY <1>2, EventsAreIds DEF TimersInv
  <2>2. nextEvent'[new] = timeEventHead /\ \A i \in events : nextEvent'[i] = nextEvent[i]
    BY <1>1, <1>2, <2>1 DEF TimersInv, TypeInv
  <2>3. Older(new)' = events /\ \A i \in events : Older(i)' = Older(i)
    BY <1>2 DEF Older
  <2> QED BY <2>2, <2>3
<1>4. NewestFirst'
  <2>1. IsNewest(new, events \cup {new})
    BY <1>2 DEF IsNewest
  <2>2. IsNewest(timeEventHead, events)
    BY <1>2 DEF TimersInv, TimersListed, NewestFirst
  <2>3. \A i \in events : IsNewest(nextEvent'[i], Older(i)')
    BY <1>2, <1>3 DEF TimersInv, TimersListed, NewestFirst, IsNewest
  <2>4. \A i \in events \cup {new} : IsNewest(nextEvent'[i], Older(i)')
    BY <1>3, <2>2, <2>3 DEF IsNewest
  <2> QED BY <1>1, <1>2, <2>1, <2>4 DEF NewestFirst
<1>5. TypeInv'
  <2>1. AddMillisecondsToNow(delay) \in Times
    BY NowPlus, TimersAssumption DEF TimersInv, TypeInv
  <2>2. when' \in [Ids -> Times] /\ nextEvent' \in [Ids -> TimerOrNone]
    BY <1>1, <2>1 DEF TimersInv, TypeInv
  <2>3. timeEventNextId' \in 0..MaxTimers /\ events' \subseteq 0..timeEventNextId' - 1
        /\ maxId' < timeEventNextId'
    BY <1>0, <1>1, <1>2, TimersAssumption DEF TimersInv, TypeInv
  <2> QED BY <1>1, <1>2, <2>2, <2>3 DEF TimersInv, TypeInv, TimerOrNone, clockVars
<1>6. WalkInList' /\ PrevBeforeTe'
  BY <1>1, <1>2, <1>3 DEF TimersInv, TimersListed, WalkInList, PrevBeforeTe, Walking
<1>7. OwedAhead'
  <2>1. \A i \in owed : i \in events /\ when'[i] = when[i] /\ i \in Ids
    BY <1>1, <1>2 DEF TimersInv, OwedAhead, TypeInv
  <2>2. owed' \subseteq DueAt(when', clock')
    BY <1>1, <2>1 DEF TimersInv, OwedAhead, DueAt, clockVars
  <2> QED BY <1>1, <1>2, <2>2 DEF TimersInv, OwedAhead, Walking
<1> QED BY <1>4, <1>5, <1>6, <1>7 DEF TimersInv, TimersListed

LEMMA CreateFailsStep ==
  ASSUME TimersInv, CreateFails
  PROVE  TimersInv'
<1>1. /\ timeEventNextId' \in 0..MaxTimers /\ timeEventNextId' = timeEventNextId + 1
      /\ UNCHANGED <<clockVars, timeEventHead, nextEvent, events, lastTime, deleted, when,
                     lpc, sleep, te, tprev, maxId, owed, moved>>
  BY TimersAssumption DEF CreateFails, TimersInv, TypeInv
<1>2. TypeInv'
  <2>1. events' \subseteq 0..timeEventNextId' - 1 /\ maxId' < timeEventNextId'
    BY <1>1 DEF TimersInv, TypeInv
  <2> QED BY <1>1, <2>1 DEF TimersInv, TypeInv, clockVars
<1>3. InList' = InList /\ NewestFirst'
  BY <1>1 DEF InList, TimersInv, TimersListed, NewestFirst, IsNewest, Older
<1>4. WalkInList' /\ PrevBeforeTe'
  BY <1>1, <1>3 DEF TimersInv, TimersListed, WalkInList, PrevBeforeTe, Walking, Older
<1> QED BY <1>1, <1>2, <1>3, <1>4 DEF TimersInv, TimersListed, OwedAhead, Walking, DueAt, clockVars

\* The loop goes to sleep, or file events wake it.
LEMMA IdleStep ==
  ASSUME TimersInv, Poll \/ FileEvents
  PROVE  TimersInv'
<1>1. /\ lpc \in {"poll", "sleep"} /\ lpc' \in {"sleep", "files"}
      /\ UNCHANGED <<clockVars, listed, lastTime, deleted, when, te, tprev, maxId, owed>>
  BY DEF Poll, FileEvents
<1>2. TypeInv'
  BY <1>1 DEF TimersInv, TypeInv, clockVars, listed
<1>3. InList' = InList /\ NewestFirst'
  BY <1>1, SameListWalk DEF TimersInv, TimersListed
<1> QED BY <1>1, <1>2, <1>3 DEF TimersInv, TimersListed, WalkInList, PrevBeforeTe, OwedAhead, Walking, DueAt, clockVars

\* A walk begins at the head, which is no newer than maxId.
LEMMA BeginStep ==
  ASSUME TimersInv, ProcessTimeEvents
  PROVE  TimersInv'
<1> DEFINE w == IF Sec(clock) < lastTime THEN Forced(when) ELSE when
<1>1. /\ lpc \in {"files", "sleep"} /\ lpc' = "walk" /\ when' = w
      /\ te' = timeEventHead /\ tprev' = NoTimer /\ maxId' = timeEventNextId - 1
      /\ owed' = IF Sec(clock) < lastTime THEN Listed \ deleted
                                          ELSE (Listed \ deleted) \cap DueAt(when, clock)
      /\ UNCHANGED <<clockVars, listed, deleted>>
  BY DEF ProcessTimeEvents, Begins
<1>2. InList' = InList /\ NewestFirst' /\ InList = events
  <2>1. InList' = InList /\ NewestFirst'
    BY <1>1, SameListWalk DEF TimersInv, TimersListed
  <2> QED BY <1>1, <2>1 DEF InList
<1>3. Forced(when) \in [Ids -> Times]
  <2>1. ASSUME NEW x \in Times
        PROVE  [x EXCEPT !.sec = 0] \in Times
    BY <2>1 DEF Times
  <2> QED BY <2>1 DEF Forced, TimersInv, TypeInv
<1>4. TypeInv'
  <2>1. when' \in [Ids -> Times]
    BY <1>1, <1>3 DEF TimersInv, TypeInv
  <2>2. maxId' \in Int /\ maxId' < timeEventNextId'
    BY <1>1, TimersAssumption DEF TimersInv, TypeInv, listed
  <2>3. owed' \subseteq Ids
    BY <1>1 DEF Listed
  <2>4. te' \in TimerOrNone /\ tprev' \in TimerOrNone /\ timeEventHead' \in TimerOrNone
    BY <1>1 DEF TimersInv, TypeInv, TimerOrNone, listed
  <2>5. UNCHANGED <<clock, timeEventNextId, events, nextEvent, deleted>> /\ lpc' = "walk"
    BY <1>1 DEF clockVars, listed
  <2> QED BY <2>1, <2>2, <2>3, <2>4, <2>5 DEF TimersInv, TypeInv
<1>5. \A i \in InList : i \in Nat /\ i <= maxId'
  BY <1>1, <1>2, EventsAreIds, TimersAssumption DEF TimersInv, TypeInv
<1>6. WalkInList' /\ PrevBeforeTe'
  BY <1>1, <1>2, <1>5 DEF TimersInv, TimersListed, NewestFirst, IsNewest, WalkInList, PrevBeforeTe, listed
<1>7. OwedAhead'
  <2>1. owed' \subseteq InList \ deleted
    BY <1>1, ListedInList DEF TimersInv, TimersListed
  <2>2. \A i \in owed' : timeEventHead # NoTimer /\ i <= timeEventHead
    BY <1>1, <2>1, EventsAreIds, TimersAssumption DEF TimersInv, TimersListed, NewestFirst, IsNewest
  <2>3. ASSUME Sec(clock) < lastTime, NEW i \in owed'
        PROVE  IsDue(when'[i], clock)
    <3>1. i \in Listed /\ i \in Ids
      BY <1>1, <2>3 DEF Listed
    <3>2. when[i] \in Times /\ when'[i] = [when[i] EXCEPT !.sec = 0]
      BY <1>1, <2>3, <3>1 DEF Forced, TimersInv, TypeInv
    <3>3. when'[i] \in Times /\ when'[i].sec = 0
      BY <3>2 DEF Times
    <3> QED BY <3>3, ForcedDue DEF TimersInv, TypeInv
  <2>4. owed' \subseteq DueAt(when', clock')
    BY <1>1, <1>4, <2>3 DEF DueAt, clockVars, TypeInv
  <2> QED BY <1>1, <1>2, <2>1, <2>2, <2>4 DEF OwedAhead, Walking
<1> QED BY <1>2, <1>4, <1>6, <1>7 DEF TimersInv, TimersListed
-----------------------------------------------------------------------------
(* Steps of the walk                                                       *)

\* Passing te on the way, as PassOver and the returns of a timeProc do.
LEMMA Passes ==
  ASSUME TimersInv, lpc \in {"walk", "timeProc"}, te # NoTimer, te \notin owed,
         UNCHANGED listed, te' = nextEvent[te], lpc' = "walk",
         tprev' = te, maxId' = maxId, owed' = owed, deleted \subseteq deleted',
         deleted' \ deleted \subseteq {te}
  PROVE  /\ NewestFirst' /\ WalkInList' /\ PrevBeforeTe' /\ InList' = InList
         /\ owed' \subseteq InList' \ deleted' /\ te' \in TimerOrNone
         /\ owed' # {} => te' # NoTimer
         /\ \A i \in owed' : i <= te'
<1>1. InList' = InList /\ NewestFirst'
  BY SameListWalk DEF TimersInv, TimersListed
<1>2. te \in InList /\ te <= maxId
  BY DEF TimersInv, TimersListed, WalkInList
<1>3. /\ te \in Ids /\ te \in Nat
      /\ nextEvent[te] # NoTimer => nextEvent[te] \in InList /\ nextEvent[te] < te
      /\ \A j \in InList : j < te => nextEvent[te] # NoTimer /\ j <= nextEvent[te]
  BY <1>2, NextIsNewest DEF TimersInv, TimersListed
<1>4. \A i \in InList : i \in Nat
  BY EventsAreIds DEF TimersInv
<1>5. \A i \in owed : i \in InList /\ i < te
  BY <1>3, <1>4 DEF TimersInv, OwedAhead
<1>6. te' # NoTimer => te' \in InList /\ te' <= maxId'
  BY <1>2, <1>3, <1>4 DEF TimersInv, TypeInv
<1>7. WalkInList' /\ PrevBeforeTe'
  BY <1>1, <1>2, <1>6, TimersAssumption, <1>3 DEF WalkInList, PrevBeforeTe, listed
<1>8. te' \in TimerOrNone
  BY <1>3 DEF TimersInv, TypeInv
<1>9. owed' \subseteq InList' \ deleted'
  BY <1>1 DEF TimersInv, OwedAhead
<1> QED BY <1>1, <1>3, <1>5, <1>7, <1>8, <1>9

LEMMA PassOverStep ==
  ASSUME TimersInv, PassOver
  PROVE  TimersInv'
<1>1. /\ lpc = "walk" /\ lpc' = "walk" /\ te # NoTimer /\ te \in events
      /\ te' = nextEvent[te]
      /\ UNCHANGED <<clockVars, listed, lastTime, deleted, when, maxId, owed>>
  BY EventsAreIds, TimersAssumption DEF PassOver, TimersInv
<1>2. te <= maxId /\ ~ IsDue(when[te], clock) /\ tprev' = te
  BY <1>1, EventsAreIds DEF PassOver, TimersInv, TimersListed, WalkInList, TypeInv
<1>3. te \notin owed
  BY <1>2 DEF TimersInv, OwedAhead, DueAt
<1>4. /\ NewestFirst' /\ WalkInList' /\ PrevBeforeTe' /\ InList' = InList
      /\ owed' \subseteq InList' \ deleted' /\ te' \in TimerOrNone
      /\ owed' # {} => te' # NoTimer
      /\ \A i \in owed' : i <= te'
  BY <1>1, <1>2, <1>3, Passes
<1>5. TypeInv'
  BY <1>1, <1>2, <1>4 DEF TimersInv, TypeInv, clockVars, listed
<1> QED BY <1>1, <1>4, <1>5 DEF TimersInv, TimersListed, OwedAhead, Walking, DueAt, clockVars

LEMMA TimeProcStep ==
  ASSUME TimersInv, TimeProc
  PROVE  TimersInv'
<1>1. /\ lpc = "walk" /\ lpc' = "timeProc" /\ te \in events
      /\ owed' = owed \ {te}
      /\ UNCHANGED <<clockVars, listed, lastTime, deleted, when, te, tprev, maxId>>
  BY DEF TimeProc
<1>2. TypeInv'
  BY <1>1 DEF TimersInv, TypeInv, clockVars, listed
<1>3. InList' = InList /\ NewestFirst'
  BY <1>1, SameListWalk DEF TimersInv, TimersListed
<1>4. WalkInList' /\ PrevBeforeTe'
  <2>1. te # NoTimer
    BY <1>1, EventsAreIds, TimersAssumption DEF TimersInv
  <2> QED BY <1>1, <1>3, <2>1 DEF TimersInv, TimersListed, WalkInList, PrevBeforeTe, Walking, listed
<1>5. \A i \in owed' : i \in Nat /\ te \in Nat /\ i <= te /\ i # te
  BY <1>1, EventsAreIds DEF TimersInv, OwedAhead
<1> QED BY <1>1, <1>2, <1>3, <1>4, <1>5 DEF TimersInv, TimersListed, OwedAhead, Walking, DueAt, clockVars

LEMMA TimeProcReturns ==
  ASSUME TimersInv, TimeProcNoMore \/ \E delay \in Delays : TimeProcAgain(delay)
  PROVE  TimersInv'
<1>1. /\ lpc = "timeProc" /\ lpc' = "walk" /\ te' = nextEvent[te] /\ tprev' = te
      /\ deleted \subseteq deleted' /\ deleted' \subseteq deleted \cup {te}
      /\ UNCHANGED <<clockVars, listed, maxId, owed>>
  BY DEF TimeProcNoMore, TimeProcAgain, GoesOn
<1>2. when' \in [Ids -> Times] /\ \A i \in Ids : i # te => when'[i] = when[i]
  <2>1. CASE TimeProcNoMore
    BY <2>1 DEF TimeProcNoMore, TimersInv, TypeInv
  <2>2. ASSUME NEW delay \in Delays, TimeProcAgain(delay)
        PROVE  when' \in [Ids -> Times] /\ \A i \in Ids : i # te => when'[i] = when[i]
    <3>1. AddMillisecondsToNow(delay) \in Times
      BY NowPlus, TimersAssumption DEF TimersInv, TypeInv
    <3> QED BY <2>2, <3>1 DEF TimeProcAgain, TimersInv, TypeInv
  <2> QED BY <2>1, <2>2
<1>3. te # NoTimer /\ te \in InList /\ te \in Nat
  <2>1. lpc = "timeProc" => te # NoTimer
    BY DEF TimersInv, TimersListed, WalkInList
  <2> QED BY <1>1, <2>1, EventsAreIds DEF TimersInv, TimersListed, WalkInList
<1>4. te \notin owed /\ owed \subseteq Ids
  BY <1>1, <1>3 DEF TimersInv, OwedAhead, TypeInv
<1>5. /\ NewestFirst' /\ WalkInList' /\ PrevBeforeTe' /\ InList' = InList
      /\ owed' \subseteq InList' \ deleted' /\ te' \in TimerOrNone
      /\ owed' # {} => te' # NoTimer
      /\ \A i \in owed' : i <= te'
  BY <1>1, <1>3, <1>4, Passes
<1>6. TypeInv'
  <2>1. deleted' \subseteq events'
    BY <1>1, <1>3, EventsAreIds DEF TimersInv, TypeInv, listed
  <2> QED BY <1>1, <1>2, <1>5, <2>1 DEF TimersInv, TypeInv, clockVars, listed
<1>7. owed' \subseteq DueAt(when', clock')
  BY <1>1, <1>2, <1>4 DEF TimersInv, OwedAhead, DueAt, clockVars
<1> QED BY <1>1, <1>5, <1>6, <1>7 DEF TimersInv, TimersListed, OwedAhead, Walking

\* A deleted timer is unlinked from the one before it, or from the head.
LEMMA RemoveStep ==
  ASSUME TimersInv, RemoveDeleted
  PROVE  TimersInv'
<1>0. PICK x, p, n : x = te /\ p = tprev /\ n = nextEvent[te]
  OBVIOUS
<1>1. /\ lpc = "walk" /\ lpc' = "finalizer" /\ x \in deleted
      /\ IF p = NoTimer THEN timeEventHead' = n /\ UNCHANGED nextEvent
                        ELSE nextEvent' = [nextEvent EXCEPT ![p] = n] /\ UNCHANGED timeEventHead
      /\ te' = x /\ tprev' = p
      /\ UNCHANGED <<clockVars, events, timeEventNextId, deleted, when, maxId, owed>>
  BY <1>0 DEF RemoveDeleted
<1>2. /\ InList = events /\ InList' = events \ {x} /\ x \in events /\ x # NoTimer
      /\ x \in Ids /\ x <= maxId
      /\ \A i \in events : i \in Nat /\ i \in Ids
  <2>1. x \in events
    BY <1>1 DEF TimersInv, TypeInv
  <2>2. x # NoTimer
    BY <2>1, EventsAreIds, TimersAssumption DEF TimersInv
  <2> QED BY <1>0, <1>1, <2>1, <2>2, EventsAreIds DEF TimersInv, TimersListed, WalkInList, InList
<1>3. /\ IsNewest(timeEventHead, events)
      /\ \A i \in events : IsNewest(nextEvent[i], {j \in events : j < i})
  BY <1>2 DEF TimersInv, TimersListed, NewestFirst, Older
<1>4. n \in TimerOrNone /\ IsNewest(n, {j \in events : j < x}) /\ n # x
  BY <1>0, <1>2, <1>3, TimersAssumption DEF TimersInv, TypeInv, IsNewest
<1>5. p # NoTimer => p \in events /\ nextEvent[p] = x /\ x < p /\ \A j \in events : j < p => j <= x
  <2> SUFFICES ASSUME p # NoTimer
               PROVE  p \in events /\ nextEvent[p] = x /\ x < p /\ \A j \in events : j < p => j <= x
    OBVIOUS
  <2>1. p \in events /\ nextEvent[p] = x
    BY <1>0, <1>1, <1>2 DEF TimersInv, TimersListed, WalkInList, PrevBeforeTe, Walking
  <2> QED BY <1>2, <1>3, <2>1 DEF IsNewest
<1>6. \A i \in events \ {x} : nextEvent'[i] = IF i = p THEN n ELSE nextEvent[i]
  <2> SUFFICES ASSUME NEW i \in events \ {x}
               PROVE  nextEvent'[i] = IF i = p THEN n ELSE nextEvent[i]
    OBVIOUS
  <2>1. i \in Ids /\ i # NoTimer
    BY <1>2, TimersAssumption
  <2>2. CASE p = NoTimer
    BY <1>1, <2>1, <2>2
  <2>3. CASE p # NoTimer
    BY <1>1, <2>1, <2>3 DEF TimersInv, TypeInv
  <2> QED BY <2>2, <2>3
<1>7. \A i \in events \ {x} : IsNewest(nextEvent'[i], {j \in events \ {x} : j < i})
  <2> SUFFICES ASSUME NEW i \in events \ {x}
               PROVE  IsNewest(nextEvent'[i], {j \in events \ {x} : j < i})
    OBVIOUS
  <2>1. CASE i = p
    <3>1. p # NoTimer
      BY <1>2, <2>1, TimersAssumption
    <3>2. {j \in events \ {x} : j < i} = {j \in events : j < x}
      BY <1>2, <1>5, <2>1, <3>1
    <3> QED BY <1>4, <1>6, <2>1, <3>2
  <2>2. CASE i # p
    <3>1. nextEvent'[i] = nextEvent[i] /\ IsNewest(nextEvent[i], {j \in events : j < i})
      BY <1>3, <1>6, <2>2
    <3>2. nextEvent[i] # x
      <4> SUFFICES ASSUME nextEvent[i] = x PROVE FALSE
        OBVIOUS
      <4>1. x < i /\ \A j \in events : j < i => j <= x
        BY <1>2, <3>1 DEF IsNewest
      <4>2. CASE p = NoTimer
        <5>1. timeEventHead = x
          BY <1>0, <1>1, <4>2 DEF TimersInv, TimersListed, WalkInList
        <5> QED BY <1>2, <1>3, <4>1, <5>1 DEF IsNewest
      <4>3. CASE p # NoTimer
        BY <1>2, <1>5, <2>2, <4>1, <4>3
      <4> QED BY <4>2, <4>3
    <3> QED BY <1>2, <3>1, <3>2 DEF IsNewest
  <2> QED BY <2>1, <2>2
<1>8. IsNewest(timeEventHead', events \ {x})
  <2>1. CASE p = NoTimer
    <3>1. timeEventHead = x
      BY <1>0, <1>1, <2>1 DEF TimersInv, TimersListed, WalkInList
    <3>2. events \ {x} = {j \in events : j < x}
      BY <1>2, <1>3, <3>1 DEF IsNewest
    <3> QED BY <1>1, <1>4, <2>1, <3>2
  <2>2. CASE p # NoTimer
    <3>1. timeEventHead \in events /\ \A j \in events : j <= timeEventHead
      BY <1>2, <1>3 DEF IsNewest
    <3>2. timeEventHead # x
      BY <1>2, <1>5, <2>2, <3>1
    <3> QED BY <1>1, <2>2, <3>1, <3>2 DEF IsNewest
  <2> QED BY <2>1, <2>2
<1>9. NewestFirst'
  BY <1>2, <1>7, <1>8 DEF NewestFirst, Older
<1>10. TypeInv'
  <2>1. nextEvent' \in [Ids -> TimerOrNone] /\ timeEventHead' \in TimerOrNone
    BY <1>1, <1>4 DEF TimersInv, TypeInv
  <2> QED BY <1>0, <1>1, <2>1 DEF TimersInv, TypeInv, clockVars
<1>11. /\ nextEvent'[x] = n /\ Older(te)' = {j \in events : j < x}
       /\ p # NoTimer => nextEvent'[p] = n /\ p \in events \ {x}
  <2>1. p # x
    BY <1>2, <1>5
  <2>2. nextEvent'[x] = n
    BY <1>0, <1>1, <1>2, <2>1 DEF TimersInv, TypeInv
  <2>3. Older(te)' = {j \in events : j < x}
    BY <1>1, <1>2 DEF Older
  <2> QED BY <1>2, <1>5, <1>6, <2>1, <2>2, <2>3
<1>12. WalkInList' /\ PrevBeforeTe'
  BY <1>1, <1>2, <1>4, <1>11 DEF WalkInList, PrevBeforeTe, Walking
<1>13. OwedAhead'
  <2>1. \A i \in owed : i \in events /\ i <= x /\ i \notin deleted
    BY <1>0, <1>1, <1>2 DEF TimersInv, OwedAhead
  <2>2. \A i \in owed : i # x /\ i < x
    BY <1>1, <1>2, <2>1
  <2> QED BY <1>1, <1>2, <2>1, <2>2 DEF TimersInv, OwedAhead, Walking, DueAt, clockVars
<1> QED BY <1>9, <1>10, <1>12, <1>13 DEF TimersInv, TimersListed

LEMMA FinalizerStep ==
  ASSUME TimersInv, FinalizerReturns
  PROVE  TimersInv'
<1>0. PICK x, n : x = te /\ n = nextEvent[te]
  OBVIOUS
<1>1. /\ lpc = "finalizer" /\ lpc' = "walk"
      /\ events' = events \ {x} /\ deleted' = deleted \ {x}
      /\ nextEvent' = [nextEvent EXCEPT ![x] = NoTimer]
      /\ when' = [when EXCEPT ![x] = LongAgo]
      /\ te' = n
      /\ UNCHANGED <<clockVars, timeEventHead, timeEventNextId, tprev, maxId, owed>>
  BY <1>0 DEF FinalizerReturns
<1>2. /\ InList = events \ {x} /\ InList' = events \ {x} /\ x \in events
      /\ x \in Ids /\ x <= maxId /\ IsNewest(n, {j \in events \ {x} : j < x})
      /\ \A i \in events : i \in Nat /\ i \in Ids
  <2>1. InList = events \ {x} /\ InList' = events \ {x}
    BY <1>0, <1>1 DEF InList
  <2>2. x \in events
    BY <1>0, <1>1 DEF TimersInv, TypeInv, TimersListed, WalkInList
  <2> QED BY <1>0, <1>1, <2>1, <2>2, EventsAreIds DEF TimersInv, TimersListed, WalkInList, Older
<1>3. \A i \in events \ {x} : nextEvent'[i] = nextEvent[i] /\ when'[i] = when[i] /\ Older(i)' = Older(i)
  BY <1>1, <1>2 DEF TimersInv, TypeInv, Older
<1>4. NewestFirst'
  BY <1>1, <1>2, <1>3 DEF TimersInv, TimersListed, NewestFirst
<1>5. TypeInv'
  <2>1. LongAgo \in Times
    BY TimersAssumption DEF LongAgo, Times
  <2>2. when' \in [Ids -> Times] /\ nextEvent' \in [Ids -> TimerOrNone] /\ te' \in TimerOrNone
    BY <1>0, <1>1, <1>2, <2>1 DEF TimersInv, TypeInv, TimerOrNone
  <2> QED BY <1>1, <2>2 DEF TimersInv, TypeInv, clockVars
<1>6. n # NoTimer => n \in events \ {x} /\ n < x /\ n <= maxId
  <2>1. n # NoTimer => n \in events \ {x} /\ n < x
    BY <1>2 DEF IsNewest
  <2>2. maxId \in Int
    BY DEF TimersInv, TypeInv
  <2>3. x \in Nat /\ x <= maxId /\ \A i \in events : i \in Nat
    BY <1>2
  <2> QED BY <2>1, <2>2, <2>3
<1>7. tprev # NoTimer => tprev \in events \ {x} /\ nextEvent[tprev] = n /\ nextEvent'[tprev] = n
  BY <1>0, <1>1, <1>2, <1>3 DEF TimersInv, TimersListed, WalkInList, PrevBeforeTe, Walking
<1>8. WalkInList' /\ PrevBeforeTe'
  BY <1>0, <1>1, <1>2, <1>6, <1>7 DEF TimersInv, TimersListed, WalkInList, PrevBeforeTe, Walking
<1>9. OwedAhead'
  <2>1. \A i \in owed : i \in events \ {x} /\ i < x /\ i \in Ids
    BY <1>0, <1>1, <1>2 DEF TimersInv, OwedAhead
  <2>2. \A i \in owed : n # NoTimer /\ i <= n
    BY <1>2, <2>1, TimersAssumption, <1>6 DEF IsNewest
  <2>3. owed' \subseteq DueAt(when', clock')
    BY <1>1, <1>3, <2>1 DEF TimersInv, OwedAhead, DueAt, clockVars
  <2>4. owed' \subseteq InList' \ deleted'
    BY <1>1, <1>2, <2>1 DEF TimersInv, OwedAhead
  <2> QED BY <1>1, <2>2, <2>3, <2>4 DEF OwedAhead, Walking
<1> QED BY <1>4, <1>5, <1>8, <1>9 DEF TimersInv, TimersListed

LEMMA WalkEndsStep ==
  ASSUME TimersInv, WalkEnds
  PROVE  TimersInv'
<1>1. /\ lpc = "walk" /\ te = NoTimer /\ lpc' = "poll"
      /\ tprev' = NoTimer /\ maxId' = -1
      /\ UNCHANGED <<clockVars, listed, lastTime, deleted, when, te, owed>>
  BY DEF WalkEnds
<1>2. TypeInv'
  BY <1>1, TimersAssumption DEF TimersInv, TypeInv, TimerOrNone, clockVars, listed
<1>3. InList' = InList /\ NewestFirst'
  BY <1>1, SameListWalk DEF TimersInv, TimersListed
<1> QED BY <1>1, <1>2, <1>3 DEF TimersInv, TimersListed, WalkInList, PrevBeforeTe, OwedAhead, Walking, DueAt, clockVars

-----------------------------------------------------------------------------
(* The theorems                                                            *)

LEMMA TimersInductive ==
  ASSUME ~ FinalizersCreate
  PROVE  TimeSpec => []TimersInv
<1>1. TimersInv /\ [TimeNext]_timeVars => TimersInv'
  <2> SUFFICES ASSUME TimersInv, [TimeNext]_timeVars PROVE TimersInv'
    OBVIOUS
  <2>1. CASE UNCHANGED timeVars
    BY <2>1 DEF timeVars, clockVars, listed, TimersInv, TypeInv, TimersListed, NewestFirst, WalkInList,
       PrevBeforeTe, OwedAhead, Walking, InList, Older, DueAt
  <2>2. CASE Loop
    BY <2>2, IdleStep, BeginStep, RemoveStep, FinalizerStep, PassOverStep, TimeProcStep,
       TimeProcReturns, WalkEndsStep DEF Loop
  <2>3. CASE Tick \/ FileEvents \/ CreateFails
    BY <2>3, TickStep, IdleStep, CreateFailsStep
  <2>4. CASE \E t \in MsPerSec..LastTick : SetClock(t)
    BY <2>4, SetClockStep
  <2>5. CASE \E delay \in Delays : CreateTimeEvent(delay)
    BY <2>5, CreateStep
  <2>6. CASE \E i \in Ids : DeleteTimeEvent(i)
    BY <2>6, DeleteStep
  <2> QED BY <2>1, <2>2, <2>3, <2>4, <2>5, <2>6 DEF TimeNext
<1> QED BY TimersInvInit, <1>1, PTL DEF TimeSpec

\* Whatever the callbacks of timers and files create and delete, in or between the
\* walks, the list holds every timer once and the walk stays in it, as long as no
\* finalizer creates a timer.
THEOREM ListHoldsTimers ==
  ASSUME ~ FinalizersCreate
  PROVE  TimeSpec => []TimersListed
<1>1. TimersInv => TimersListed
  BY DEF TimersInv
<1> QED BY TimersInductive, <1>1, PTL

\* A walk leaves no timer behind that was due when it began, nor any at all after
\* the clock was set back: the walk meets every one of them, and it is still due.
THEOREM WalkFiresWhatIsDue ==
  ASSUME ~ FinalizersCreate
  PROVE  TimeSpec => []DueFired
<1>1. TimersInv => DueFired
  BY DEF TimersInv, OwedAhead, Walking, DueFired
<1> QED BY TimersInductive, <1>1, PTL

-----------------------------------------------------------------------------
(* The sleep of the loop                                                   *)

\* A time in milliseconds
Total(w) == MsPerSec * w.sec + w.ms

\* It is due when the clock has come to it, ...
LEMMA DueIsReached ==
  ASSUME NEW w \in Times, NEW t \in Nat
  PROVE  Total(w) \in Nat /\ (IsDue(w, t) <=> Total(w) <= t)
<1> DEFINE a == MsPerSec * w.sec
           b == MsPerSec * Sec(t)
<1>1. w.sec \in Nat /\ w.ms \in Nat /\ w.ms < MsPerSec /\ MsPerSec \in Nat
  BY TimersAssumption DEF Times
<1>2. Sec(t) \in Nat /\ Ms(t) \in Nat /\ Ms(t) < MsPerSec /\ t = b + Ms(t) /\ b \in Nat
  <2>1. Ms(t) \in 0..MsPerSec - 1
    BY Division
  <2> QED BY <1>1, <2>1, Division
<1>3. a \in Nat /\ Total(w) = a + w.ms
  BY <1>1 DEF Total
<1>4. Sec(t) > w.sec => a + MsPerSec <= b
  BY <1>1, <1>2, NextSecond
<1>5. Sec(t) < w.sec => b + MsPerSec <= a
  BY <1>1, <1>2, NextSecond
<1>6. Sec(t) = w.sec => a = b
  OBVIOUS
<1> HIDE DEF a, b
<1>7. CASE Sec(t) > w.sec
  BY <1>1, <1>2, <1>3, <1>4, <1>7 DEF IsDue
<1>8. CASE Sec(t) < w.sec
  BY <1>1, <1>2, <1>3, <1>5, <1>8 DEF IsDue
<1>9. CASE Sec(t) = w.sec
  BY <1>1, <1>2, <1>3, <1>6, <1>9 DEF IsDue
<1> QED BY <1>1, <1>2, <1>3, <1>7, <1>8, <1>9

\* ... and before another if it is less.
LEMMA BeforeIsLess ==
  ASSUME NEW v \in Times, NEW w \in Times
  PROVE  Before(v, w) <=> Total(v) < Total(w)
<1> DEFINE a == MsPerSec * v.sec
           b == MsPerSec * w.sec
<1>1. /\ v.sec \in Nat /\ v.ms \in Nat /\ v.ms < MsPerSec
      /\ w.sec \in Nat /\ w.ms \in Nat /\ w.ms < MsPerSec /\ MsPerSec \in Nat
  BY TimersAssumption DEF Times
<1>2. a \in Nat /\ Total(v) = a + v.ms /\ b \in Nat /\ Total(w) = b + w.ms
  BY <1>1 DEF Total
<1>3. v.sec < w.sec => a + MsPerSec <= b
  BY <1>1, NextSecond
<1>4. w.sec < v.sec => b + MsPerSec <= a
  BY <1>1, NextSecond
<1>5. v.sec = w.sec => a = b
  OBVIOUS
<1> HIDE DEF a, b
<1> QED BY <1>1, <1>2, <1>3, <1>4, <1>5 DEF Before

\* aeSearchNearestTimer finds a timer than which none is earlier.
LEMMA NearestIsFirst ==
  ASSUME when \in [Ids -> Times], Listed # {}
  PROVE  Nearest \in Listed /\ \A j \in Listed : Total(when[Nearest]) <= Total(when[j])
<1>1. Listed \subseteq Ids
  BY DEF Listed
<1> DEFINE S == {Total(when[i]) : i \in Listed}
<1>2. S \in SUBSET Nat /\ S # {}
  <2>1. ASSUME NEW i \in Listed
        PROVE  Total(when[i]) \in Nat
    BY <1>1, DueIsReached, 0 \in Nat
  <2> QED BY <2>1
<1>3. PICK x \in S : \A y \in S : x <= y
  BY <1>2, LeastElement
<1>4. PICK i \in Listed : x = Total(when[i])
  OBVIOUS
<1>5. \A j \in Listed : Total(when[j]) \in Nat /\ Total(when[i]) \in Nat /\ Total(when[i]) <= Total(when[j])
  BY <1>2, <1>3, <1>4
<1> HIDE DEF S
<1>6. \A j \in Listed : ~ Before(when[j], when[i])
  BY <1>1, <1>4, <1>5, BeforeIsLess
<1>7. Nearest \in Listed /\ \A j \in Listed : ~ Before(when[j], when[Nearest])
  BY <1>4, <1>6 DEF Nearest
<1> HIDE DEF Nearest
<1>8. ASSUME NEW j \in Listed
      PROVE  Total(when[Nearest]) <= Total(when[j])
  <2>1. ~ (Total(when[j]) < Total(when[Nearest]))
    BY <1>1, <1>7, BeforeIsLess
  <2>2. Total(when[j]) \in Nat /\ Total(when[Nearest]) \in Nat
    BY <1>5, <1>7
  <2> QED BY <2>1, <2>2
<1> QED BY <1>7, <1>8

\* What the sleep needs of the types holds whatever finalizers do.
SleepInv ==
  /\ clock \in Nat /\ when \in [Ids -> Times] /\ sleep \in Nat \cup {Forever}
  /\ NoOversleep

\* The poll waits until the first timer is due, and no longer.
LEMMA PollSleeps ==
  ASSUME SleepInv, Poll
  PROVE  SleepInv'
<1> DEFINE w  == when[Nearest]
           ms == (w.sec - Sec(clock)) * MsPerSec + w.ms - Ms(clock)
<1>1. /\ sleep' = IF Listed = {} THEN Forever ELSE IF ms > 0 THEN ms ELSE 0
      /\ UNCHANGED <<clock, when, deleted>> /\ Listed' = Listed
  BY DEF Poll, clockVars, listed, Listed, Closed
<1>2. CASE Listed = {}
  BY <1>1, <1>2 DEF SleepInv, NoOversleep
<1>3. CASE Listed # {}
  <2>1. Nearest \in Listed /\ Listed \subseteq Ids /\ \A j \in Listed : Total(w) <= Total(when[j])
    BY <1>3, NearestIsFirst DEF SleepInv, Listed
  <2>2. w \in Times
    BY <2>1 DEF SleepInv
  <2> HIDE DEF w
  <2>3. ms = Total(w) - clock /\ Total(w) \in Nat /\ clock \in Nat
    <3>1. clock \in Nat /\ Sec(clock) \in Nat /\ Ms(clock) \in Nat /\ clock = MsPerSec * Sec(clock) + Ms(clock)
      BY Division DEF SleepInv
    <3>2. w.sec \in Nat /\ w.ms \in Nat /\ MsPerSec \in Nat /\ Total(w) \in Nat
      BY <2>2, DueIsReached, 0 \in Nat, TimersAssumption DEF Times
    <3>3. (w.sec - Sec(clock)) * MsPerSec = MsPerSec * w.sec - MsPerSec * Sec(clock)
      BY <3>1, <3>2
    <3>4. MsPerSec * w.sec \in Nat /\ MsPerSec * Sec(clock) \in Nat
      BY <3>1, <3>2
    <3> QED BY <3>1, <3>2, <3>3, <3>4 DEF Total
  <2> HIDE DEF ms
  <2>4. sleep' = (IF ms > 0 THEN ms ELSE 0) /\ sleep' \in Nat
    BY <1>1, <1>3, <2>3
  <2>5. ASSUME sleep' # 0, NEW i \in Listed
        PROVE  sleep' # Forever /\ ~ IsDue(when[i], clock + sleep' - 1)
    <3>1. sleep' = Total(w) - clock /\ Total(w) <= Total(when[i]) /\ clock + sleep' - 1 \in Nat
      BY <2>1, <2>3, <2>4, <2>5
    <3>2. when[i] \in Times
      BY <2>1 DEF SleepInv
    <3>3. Total(when[i]) \in Nat /\ (IsDue(when[i], clock + sleep' - 1) <=> Total(when[i]) <= clock + sleep' - 1)
      BY <3>1, <3>2, DueIsReached
    <3> QED BY <2>3, <2>4, <3>1, <3>3 DEF Forever
  <2> QED BY <1>1, <2>4, <2>5 DEF SleepInv, NoOversleep
<1> QED BY <1>2, <1>3

\* The clock does not outrun the sleep.
LEMMA TickSleeps ==
  ASSUME SleepInv, Tick
  PROVE  SleepInv'
<1>1. /\ clock' \in Nat /\ clock' \in {clock, clock + 1} /\ sleep' \in Nat \cup {Forever}
      /\ lpc = "sleep" => sleep' = IF sleep > 0 THEN sleep - 1 ELSE sleep
      /\ UNCHANGED <<when, deleted, lpc, moved>> /\ Listed' = Listed
  BY DEF Tick, SleepInv, listed, Listed, Closed, Forever
<1>2. ASSUME lpc = "sleep", ~ moved, sleep' # 0, NEW i \in Listed \ deleted
      PROVE  sleep' # Forever /\ ~ IsDue(when[i], clock' + sleep' - 1)
  <2>1. sleep # 0
    BY <1>1, <1>2
  <2>2. sleep # Forever /\ ~ IsDue(when[i], clock + sleep - 1)
    BY <1>2, <2>1 DEF SleepInv, NoOversleep
  <2>3. clock \in Nat /\ sleep \in Nat /\ sleep > 0 /\ sleep' = sleep - 1 /\ when[i] \in Times
    BY <1>1, <1>2, <2>1, <2>2 DEF SleepInv, Listed
  <2>4. sleep' \in Nat /\ sleep' > 0 /\ sleep' # Forever /\ (clock' = clock \/ clock' = clock + 1)
    BY <1>1, <1>2, <2>3 DEF Forever
  <2>5. /\ clock + sleep - 1 \in Nat /\ clock' + sleep' - 1 \in Nat
        /\ clock' + sleep' - 1 <= clock + sleep - 1
    BY <2>3, <2>4
  <2> QED BY <2>2, <2>3, <2>4, <2>5, DueLater
<1> QED BY <1>1, <1>2 DEF SleepInv, NoOversleep

\* No other step begins a sleep or goes on with one, unless the clock is set.
LEMMA OthersSleep ==
  ASSUME SleepInv, [TimeNext]_timeVars
  PROVE  SleepInv'
<1>1. CASE UNCHANGED timeVars
  BY <1>1 DEF timeVars, clockVars, listed, SleepInv, NoOversleep, Listed, Closed
<1>2. CASE Poll \/ Tick
  BY <1>2, PollSleeps, TickSleeps
<1>3. CASE RemoveDeleted \/ PassOver \/ TimeProc \/ TimeProcNoMore \/ WalkEnds \/ CreateFails
  BY <1>3 DEF RemoveDeleted, PassOver, TimeProc, TimeProcNoMore, GoesOn, WalkEnds, CreateFails, Calling,
     clockVars, SleepInv, NoOversleep
<1>4. CASE FileEvents
  BY <1>4 DEF FileEvents, clockVars, SleepInv, NoOversleep
<1>5. CASE ProcessTimeEvents
  <2>1. /\ lpc' = "walk" /\ UNCHANGED <<clock, sleep>>
        /\ when' = IF Sec(clock) < lastTime THEN Forced(when) ELSE when
    BY <1>5 DEF ProcessTimeEvents, Begins, clockVars
  <2>2. ASSUME NEW x \in Times
        PROVE  [x EXCEPT !.sec = 0] \in Times
    BY <2>2 DEF Times
  <2>3. Forced(when) \in [Ids -> Times]
    BY <2>2 DEF Forced, SleepInv
  <2> QED BY <2>1, <2>3 DEF SleepInv, NoOversleep
<1>6. CASE FinalizerReturns
  <2>1. LongAgo \in Times
    BY TimersAssumption DEF LongAgo, Times
  <2> QED BY <1>6, <2>1 DEF FinalizerReturns, clockVars, SleepInv, NoOversleep
<1>7. ASSUME NEW delay \in Delays, TimeProcAgain(delay) \/ CreateTimeEvent(delay)
      PROVE  SleepInv'
  <2>1. AddMillisecondsToNow(delay) \in Times
    BY NowPlus, TimersAssumption DEF SleepInv
  <2> QED BY <1>7, <2>1 DEF TimeProcAgain, GoesOn, CreateTimeEvent, Calling, clockVars, SleepInv, NoOversleep
<1>8. ASSUME NEW t \in MsPerSec..LastTick, SetClock(t)
      PROVE  SleepInv'
  <2>1. clock' \in Nat /\ UNCHANGED <<when, sleep, lpc>>
    BY <1>8, TimersAssumption DEF SetClock
  <2>2. lpc' = "sleep" => moved'
    BY <1>8, Zenon DEF SetClock
  <2> QED BY <2>1, <2>2 DEF SleepInv, NoOversleep
<1>9. ASSUME NEW i \in Ids, DeleteTimeEvent(i)
      PROVE  SleepInv'
  BY <1>9 DEF DeleteTimeEvent, Calling, clockVars, SleepInv, NoOversleep
<1> QED BY <1>1, <1>2, <1>3, <1>4, <1>5, <1>6, <1>7, <1>8, <1>9 DEF TimeNext, Loop

\* The loop sleeps past no timer: while it sleeps and the clock is not set, no
\* timer that is not deleted becomes due before the poll is over.  This holds
\* whatever finalizers do.
THEOREM SleepsNoLonger == TimeSpec => []NoOversleep
<1>1. TimeInit => SleepInv
  <2>1. LongAgo \in Times
    BY TimersAssumption DEF LongAgo, Times
  <2> QED BY <2>1, TimersAssumption DEF TimeInit, SleepInv, NoOversleep
<1>2. SleepInv /\ [TimeNext]_timeVars => SleepInv'
  BY OthersSleep
<1>3. SleepInv => NoOversleep
  BY DEF SleepInv
<1> QED BY <1>1, <1>2, <1>3, PTL DEF TimeSpec

\* What TypeInv leaves out of the types.
CountersInv ==
  /\ clockChanges \in 0..MaxClockChanges /\ lastTime \in Nat
  /\ maxId \in -1..MaxTimers - 1 /\ moved \in BOOLEAN

LEMMA CountersNext ==
  ASSUME TypeInv, CountersInv, [TimeNext]_timeVars
  PROVE  CountersInv'
<1>1. /\ MaxClockChanges \in Nat /\ MaxTimers \in Nat /\ Sec(clock) \in Nat
      /\ clockChanges \in 0..MaxClockChanges /\ timeEventNextId \in 0..MaxTimers
  BY Division, TimersAssumption DEF TypeInv, CountersInv
<1>2. clockChanges' \in 0..MaxClockChanges
  <2>1. \/ clockChanges' = clockChanges
        \/ clockChanges < MaxClockChanges /\ clockChanges' = clockChanges + 1
    BY DEF TimeNext, Loop, Tick, SetClock, CreateTimeEvent, CreateFails, DeleteTimeEvent, Poll, FileEvents,
       ProcessTimeEvents, Begins, RemoveDeleted, FinalizerReturns, PassOver, TimeProc, TimeProcAgain,
       TimeProcNoMore, WalkEnds, timeVars, clockVars
  <2> QED BY <1>1, <2>1
<1>3. lastTime' \in Nat
  <2>1. lastTime' = lastTime \/ lastTime' = Sec(clock)
    BY DEF TimeNext, Loop, Tick, SetClock, CreateTimeEvent, CreateFails, DeleteTimeEvent, Poll, FileEvents,
       ProcessTimeEvents, Begins, RemoveDeleted, FinalizerReturns, PassOver, TimeProc, TimeProcAgain,
       TimeProcNoMore, WalkEnds, timeVars
  <2> QED BY <1>1, <2>1 DEF CountersInv
<1>4. maxId' \in -1..MaxTimers - 1
  <2>1. maxId' = maxId \/ maxId' = timeEventNextId - 1 \/ maxId' = -1
    BY DEF TimeNext, Loop, Tick, SetClock, CreateTimeEvent, CreateFails, DeleteTimeEvent, Poll, FileEvents,
       ProcessTimeEvents, Begins, RemoveDeleted, FinalizerReturns, PassOver, TimeProc, TimeProcAgain,
       TimeProcNoMore, WalkEnds, timeVars
  <2> QED BY <1>1, <2>1 DEF CountersInv
<1>5. moved' \in BOOLEAN
  <2>1. moved' = moved \/ moved' = FALSE \/ moved' = (lpc = "sleep")
    BY Zenon DEF TimeNext, Loop, Tick, SetClock, CreateTimeEvent, CreateFails, DeleteTimeEvent, Poll, FileEvents,
       ProcessTimeEvents, Begins, RemoveDeleted, FinalizerReturns, PassOver, TimeProc, TimeProcAgain,
       TimeProcNoMore, WalkEnds, timeVars
  <2> QED BY <2>1, Zenon DEF CountersInv
<1> QED BY <1>2, <1>3, <1>4, <1>5 DEF CountersInv

\* The variables of the time events stay in their ranges: the times carry, so that no
\* when_ms is a second or more, and the walk is on a timer or at the end.
THEOREM TimeTypeCorrect ==
  ASSUME ~ FinalizersCreate
  PROVE  TimeSpec => []TimeTypeOK
<1>1. TimeInit => SleepInv /\ CountersInv
  <2>1. LongAgo \in Times
    BY TimersAssumption DEF LongAgo, Times
  <2> SUFFICES ASSUME TimeInit PROVE SleepInv /\ CountersInv
    OBVIOUS
  <2>2. SleepInv
    BY <2>1, TimersAssumption DEF TimeInit, SleepInv, NoOversleep
  <2>3. clockChanges \in 0..MaxClockChanges /\ lastTime \in Nat /\ maxId \in -1..MaxTimers - 1
    BY TimersAssumption DEF TimeInit
  <2>4. moved \in BOOLEAN
    BY DEF TimeInit
  <2> QED BY <2>2, <2>3, <2>4 DEF CountersInv
<1>2. TimersInv /\ SleepInv /\ CountersInv /\ [TimeNext]_timeVars => (SleepInv /\ CountersInv)'
  BY OthersSleep, CountersNext DEF TimersInv
<1>3. TimersInv /\ SleepInv /\ CountersInv => TimeTypeOK
  <2> SUFFICES ASSUME TimersInv, SleepInv, CountersInv PROVE TimeTypeOK
    OBVIOUS
  <2>1. events \subseteq Ids
    BY TimersAssumption DEF TimersInv, TypeInv, Ids
  <2> QED BY <2>1 DEF TimersInv, TypeInv, SleepInv, CountersInv, TimeTypeOK, Times
<1> QED BY TimersInductive, <1>1, <1>2, <1>3, PTL DEF TimeSpec


-----------------------------------------------------------------------------
(* Dict: chains, which are sequences of keys without repetitions.          *)

\* The chain holds no key twice.
Distinct(s) == \A i, j \in 1..Len(s) : s[i] = s[j] => i = j

\* A chain and the set of its keys
LEMMA ChainFacts ==
  ASSUME NEW s \in Seq(Keys)
  PROVE  /\ Len(s) \in Nat /\ DOMAIN s = 1..Len(s)
         /\ \A i \in 1..Len(s) : s[i] \in Keys /\ s[i] \in ToSet(s)
         /\ \A k \in ToSet(s) : k \in Keys /\ \E i \in 1..Len(s) : s[i] = k
         /\ (s = <<>> <=> Len(s) = 0) /\ (s = <<>> <=> ToSet(s) = {})
<1>1. Len(s) \in Nat /\ DOMAIN s = 1..Len(s) /\ s \in [1..Len(s) -> Keys]
  BY LenProperties
<1>2. s = <<>> <=> Len(s) = 0
  BY <1>1, EmptySeq
<1>3. /\ \A i \in 1..Len(s) : s[i] \in Keys /\ s[i] \in ToSet(s)
      /\ \A k \in ToSet(s) : k \in Keys /\ \E i \in 1..Len(s) : s[i] = k
  BY <1>1 DEF ToSet
<1>4. Len(s) # 0 => ToSet(s) # {}
  <2>1. Len(s) # 0 => 1 \in 1..Len(s)
    BY <1>1
  <2> QED BY <2>1, <1>3
<1>5. Len(s) = 0 => ToSet(s) = {}
  BY <1>1, <1>3
<1> QED BY <1>1, <1>2, <1>3, <1>4, <1>5

\* An entry put at the head of a chain
LEMMA PutFirst ==
  ASSUME NEW s \in Seq(Keys), NEW k \in Keys, NEW u, u = <<k>> \o s
  PROVE  /\ u \in Seq(Keys) /\ Len(u) = Len(s) + 1 /\ u[1] = k
         /\ \A i \in 1..Len(s) : u[i + 1] = s[i]
         /\ ToSet(u) = ToSet(s) \cup {k}
         /\ Distinct(s) /\ k \notin ToSet(s) => Distinct(u)
<1>1. Len(s) \in Nat /\ DOMAIN s = 1..Len(s)
  BY ChainFacts
<1>2. <<k>> \in Seq(Keys) /\ Len(<<k>>) = 1 /\ <<k>>[1] = k
  OBVIOUS
<1>3. /\ u \in Seq(Keys) /\ Len(u) = Len(s) + 1
      /\ \A i \in 1..Len(s) + 1 : u[i] = IF i <= 1 THEN k ELSE s[i - 1]
  <2>1. /\ <<k>> \o s \in Seq(Keys) /\ Len(<<k>> \o s) = Len(<<k>>) + Len(s)
        /\ \A i \in 1..Len(<<k>>) + Len(s) :
             (<<k>> \o s)[i] = IF i <= Len(<<k>>) THEN <<k>>[i] ELSE s[i - Len(<<k>>)]
    BY <1>2, ConcatProperties
  <2>2. u \in Seq(Keys) /\ Len(u) = Len(s) + 1
    BY <2>1, <1>2, <1>1
  <2>3. ASSUME NEW i \in 1..Len(s) + 1
        PROVE  u[i] = IF i <= 1 THEN k ELSE s[i - 1]
    <3>1. i \in 1..Len(<<k>>) + Len(s)
      BY <1>2, <1>1
    <3>2. u[i] = IF i <= 1 THEN <<k>>[i] ELSE s[i - 1]
      BY <3>1, <2>1, <1>2
    <3>3. i <= 1 => i = 1
      BY <1>1
    <3> QED BY <3>2, <3>3, <1>2
  <2> QED BY <2>2, <2>3
<1>4. u[1] = k
  BY <1>1, <1>3
<1>5. \A i \in 1..Len(s) : u[i + 1] = s[i]
  <2> TAKE i \in 1..Len(s)
  <2>1. i + 1 \in 1..Len(s) + 1 /\ ~ (i + 1 <= 1) /\ (i + 1) - 1 = i
    BY <1>1
  <2>2. u[i + 1] = s[(i + 1) - 1]
    BY <2>1, <1>3
  <2> QED BY <2>1, <2>2
<1>6. ToSet(u) \subseteq ToSet(s) \cup {k}
  <2> SUFFICES ASSUME NEW x \in ToSet(u) PROVE x \in ToSet(s) \cup {k}
    OBVIOUS
  <2>1. PICK i \in 1..Len(s) + 1 : u[i] = x
    BY <1>3, ChainFacts
  <2>2. i = 1 \/ i - 1 \in 1..Len(s)
    BY <1>1
  <2> QED BY <2>1, <2>2, <1>3, <1>4, ChainFacts
<1>7. ToSet(s) \cup {k} \subseteq ToSet(u)
  <2>1. k \in ToSet(u)
    <3>1. 1 \in 1..Len(u) /\ u \in Seq(Keys)
      BY <1>3, <1>1
    <3>2. u[1] \in ToSet(u)
      BY ONLY <3>1, ChainFacts
    <3> QED BY <3>2, <1>4
  <2>2. ASSUME NEW x \in ToSet(s) PROVE x \in ToSet(u)
    <3>1. PICK i \in 1..Len(s) : s[i] = x
      BY ChainFacts
    <3>2. i + 1 \in 1..Len(u) /\ u[i + 1] = x
      BY <3>1, <1>1, <1>3, <1>5
    <3> QED BY <3>2, <1>3, ChainFacts
  <2> QED BY <2>1, <2>2
<1>8. ASSUME Distinct(s), k \notin ToSet(s)
      PROVE  Distinct(u)
  <2>1. SUFFICES ASSUME NEW i \in 1..Len(u), NEW j \in 1..Len(u), u[i] = u[j]
                 PROVE  i = j
    BY DEF Distinct
  <2>2. ASSUME NEW a \in 1..Len(u) PROVE a = 1 \/ (a - 1 \in 1..Len(s) /\ u[a] = s[a - 1] /\ u[a] # k)
    <3>1. a = 1 \/ (a - 1 \in 1..Len(s) /\ ~ (a <= 1))
      BY <1>1, <1>3
    <3>2. ~ (a <= 1) => u[a] = s[a - 1]
      BY <1>3
    <3>3. a - 1 \in 1..Len(s) => s[a - 1] # k
      BY <1>8, ChainFacts
    <3> QED BY <3>1, <3>2, <3>3
  <2>3. CASE i = 1 \/ j = 1
    BY <2>1, <2>2, <2>3, <1>4
  <2>4. CASE i # 1 /\ j # 1
    <3>1. i - 1 \in 1..Len(s) /\ j - 1 \in 1..Len(s) /\ s[i - 1] = s[j - 1]
      BY <2>1, <2>2, <2>4
    <3>2. i - 1 = j - 1
      BY <3>1, <1>8 DEF Distinct
    <3> QED BY <3>2, <1>1, <1>3
  <2> QED BY <2>3, <2>4
<1> QED BY <1>3, <1>4, <1>5, <1>6, <1>7, <1>8

\* SelectInSeq finds the place of a key.
LEMMA PlaceOf ==
  ASSUME NEW s \in Seq(Keys), Distinct(s), NEW p \in 1..Len(s)
  PROVE  SelectInSeq(s, LAMBDA x : x = s[p]) = p
<1> DEFINE I == {i \in 1..Len(s) : s[i] = s[p]}
<1>1. I = {p}
  BY DEF Distinct
<1>2. Min({p}) = p
  <2>1. Len(s) \in Nat
    BY ChainFacts
  <2> QED BY <2>1 DEF Min
<1>3. SelectInSeq(s, LAMBDA x : x = s[p]) = IF I # {} THEN Min(I) ELSE 0
  BY DEF SelectInSeq
<1> QED BY <1>1, <1>2, <1>3

\* u is chain s without its entry at p.
Without(s, p, u) ==
  /\ u \in Seq(Keys) /\ Len(u) = Len(s) - 1
  /\ \A i \in 1..Len(u) : u[i] = IF i < p THEN s[i] ELSE s[i + 1]

\* RemoveFirst takes one entry out.
LEMMA TakenOut ==
  ASSUME NEW s \in Seq(Keys), Distinct(s), NEW p \in 1..Len(s)
  PROVE  Without(s, p, RemoveFirst(s, s[p]))
<1> DEFINE x == SubSeq(s, 1, p - 1)
           y == SubSeq(s, p + 1, Len(s))
           u == x \o y
<1>1. Len(s) \in Nat /\ \A i \in 1..Len(s) : s[i] \in Keys
  BY ChainFacts
<1>2. RemoveFirst(s, s[p]) = u
  <2>1. SelectInSeq(s, LAMBDA v : v = s[p]) = p
    BY PlaceOf
  <2>2. RemoveFirst(s, s[p]) = RemoveAt(s, SelectInSeq(s, LAMBDA v : v = s[p]))
    BY DEF RemoveFirst
  <2>3. RemoveFirst(s, s[p]) = RemoveAt(s, p)
    BY <2>1, <2>2
  <2> QED BY <2>3 DEF RemoveAt
<1>3. x \in Seq(Keys) /\ Len(x) = p - 1 /\ \A i \in 1..p - 1 : x[i] = s[i]
  <2>1. 1 \in Int /\ p - 1 \in Int /\ \A i \in 1..p - 1 : s[i] \in Keys
    BY <1>1
  <2>2. /\ x \in Seq(Keys) /\ Len(x) = IF 1 <= p - 1 THEN (p - 1) - 1 + 1 ELSE 0
        /\ \A i \in 1..(p - 1) - 1 + 1 : x[i] = s[1 + i - 1]
    BY <2>1, SubSeqProperties
  <2> HIDE DEF x
  <2> QED BY <2>2, <1>1
<1>4. y \in Seq(Keys) /\ Len(y) = Len(s) - p /\ \A i \in 1..Len(s) - p : y[i] = s[p + i]
  <2>1. p + 1 \in Int /\ Len(s) \in Int /\ \A i \in p + 1..Len(s) : s[i] \in Keys
    BY <1>1
  <2>2. /\ y \in Seq(Keys) /\ Len(y) = IF p + 1 <= Len(s) THEN Len(s) - (p + 1) + 1 ELSE 0
        /\ \A i \in 1..Len(s) - (p + 1) + 1 : y[i] = s[(p + 1) + i - 1]
    BY <2>1, SubSeqProperties
  <2> HIDE DEF y
  <2>3. Len(y) = Len(s) - p
    BY <2>2, <1>1
  <2>4. \A i \in 1..Len(s) - p : y[i] = s[p + i]
    <3> TAKE i \in 1..Len(s) - p
    <3>1. i \in 1..Len(s) - (p + 1) + 1 /\ (p + 1) + i - 1 = p + i
      BY <1>1
    <3> QED BY <3>1, <2>2
  <2> QED BY <2>2, <2>3, <2>4
<1> HIDE DEF x, y
<1>5. /\ u \in Seq(Keys) /\ Len(u) = Len(s) - 1
      /\ \A i \in 1..Len(s) - 1 : u[i] = IF i <= p - 1 THEN x[i] ELSE y[i - (p - 1)]
  <2>1. /\ u \in Seq(Keys) /\ Len(u) = Len(x) + Len(y)
        /\ \A i \in 1..Len(x) + Len(y) : u[i] = IF i <= Len(x) THEN x[i] ELSE y[i - Len(x)]
    BY <1>3, <1>4, ConcatProperties
  <2> HIDE DEF u
  <2> QED BY <1>1, <1>3, <1>4, <2>1
<1> HIDE DEF u
<1>6. ASSUME NEW i \in 1..Len(s) - 1
      PROVE  u[i] = IF i < p THEN s[i] ELSE s[i + 1]
  <2>1. CASE i < p
    BY <2>1, <1>1, <1>3, <1>5
  <2>2. CASE i >= p
    <3>1. i - (p - 1) \in 1..Len(s) - p /\ p + (i - (p - 1)) = i + 1 /\ ~ (i <= p - 1)
      BY <2>2, <1>1
    <3>2. u[i] = y[i - (p - 1)] /\ y[i - (p - 1)] = s[p + (i - (p - 1))]
      BY <3>1, <1>4, <1>5
    <3> QED BY <2>2, <3>1, <3>2
  <2> QED BY <2>1, <2>2, <1>1
<1> QED BY <1>2, <1>5, <1>6 DEF Without

\* A chain without one of its entries
LEMMA WithoutFacts ==
  ASSUME NEW s \in Seq(Keys), Distinct(s), NEW p \in 1..Len(s), NEW u, Without(s, p, u)
  PROVE  u \in Seq(Keys) /\ Distinct(u) /\ ToSet(u) = ToSet(s) \ {s[p]}
<1>1. Len(s) \in Nat /\ u \in Seq(Keys) /\ Len(u) = Len(s) - 1
  BY ChainFacts DEF Without
<1>2. \A i \in 1..Len(u) : \/ i < p /\ u[i] = s[i] /\ i \in 1..Len(s)
                           \/ i >= p /\ u[i] = s[i + 1] /\ i + 1 \in 1..Len(s)
  BY <1>1 DEF Without
<1>3. Distinct(u)
  <2>1. SUFFICES ASSUME NEW i \in 1..Len(u), NEW j \in 1..Len(u), u[i] = u[j]
                 PROVE  i = j
    BY DEF Distinct
  <2>2. PICK a \in 1..Len(s) : u[i] = s[a] /\ ((i < p /\ a = i) \/ (i >= p /\ a = i + 1))
    BY <1>2
  <2>3. PICK b \in 1..Len(s) : u[j] = s[b] /\ ((j < p /\ b = j) \/ (j >= p /\ b = j + 1))
    BY <1>2
  <2>4. a = b
    BY <2>1, <2>2, <2>3 DEF Distinct
  <2> QED BY <2>2, <2>3, <2>4, <1>1
<1>4. ASSUME NEW x \in ToSet(u) PROVE x \in ToSet(s) \ {s[p]}
  <2>1. PICK i \in 1..Len(u) : u[i] = x
    BY <1>1, ChainFacts
  <2>2. PICK a \in 1..Len(s) : u[i] = s[a] /\ ((i < p /\ a = i) \/ (i >= p /\ a = i + 1))
    BY <1>2
  <2>3. a # p
    BY <2>2, <1>1
  <2> QED BY <2>1, <2>2, <2>3, ChainFacts DEF Distinct
<1>5. ASSUME NEW x \in ToSet(s) \ {s[p]} PROVE x \in ToSet(u)
  <2>1. PICK a \in 1..Len(s) : s[a] = x
    BY ChainFacts
  <2>2. CASE a < p
    <3>1. a \in 1..Len(u) /\ u[a] = x
      BY <2>1, <2>2, <1>1 DEF Without
    <3> QED BY <3>1, <1>1, ChainFacts
  <2>3. CASE a > p
    <3>1. a - 1 \in 1..Len(u) /\ (a - 1) + 1 = a /\ ~ (a - 1 < p)
      BY <2>3, <1>1
    <3>2. u[a - 1] = x
      BY <2>1, <3>1 DEF Without
    <3> QED BY <3>1, <3>2, <1>1, ChainFacts
  <2> QED BY <2>1, <2>2, <2>3, <1>1
<1> QED BY <1>1, <1>3, <1>4, <1>5

\* A chain without repetitions has as many entries as keys.
LEMMA ChainCounts ==
  ASSUME NEW s \in Seq(Keys), Distinct(s)
  PROVE  IsFiniteSet(ToSet(s)) /\ Cardinality(ToSet(s)) = Len(s)
<1>1. Len(s) \in Nat /\ s \in [1..Len(s) -> ToSet(s)]
  BY ChainFacts, LenProperties
<1>2. s \in Bijection(1..Len(s), ToSet(s))
  BY <1>1, ChainFacts DEF Bijection, Injection, Surjection, IsInjective, Distinct
<1>3. IsFiniteSet(1..Len(s)) /\ Cardinality(1..Len(s)) = Len(s)
  BY <1>1, FS_Interval
<1> QED BY <1>2, <1>3, FS_Bijection DEF ExistsBijection


\* f begins with base and goes on by step.
StepsOver(n, T)             == [(1..n) \X T -> T]
IsRecursive(f, n, base, step) == f[0] = base /\ \A i \in 1..n : f[i] = step[<<i, f[i - 1]>>]

\* A function can be defined by recursion over 0..n.
LEMMA RecursionExists ==
  ASSUME NEW T, NEW base \in T, NEW n \in Nat, NEW step \in StepsOver(n, T)
  PROVE  \E f \in [0..n -> T] : IsRecursive(f, n, base, step)
<1>0. step \in [(1..n) \X T -> T]
  BY DEF StepsOver
<1> DEFINE Good(f, m) == /\ f \in [0..m -> T] /\ f[0] = base
                         /\ \A i \in 1..m : f[i] = step[<<i, f[i - 1]>>]
           S == {m \in 0..n : ~ \E f : Good(f, m)}
<1>1. SUFFICES ASSUME S # {} PROVE FALSE
  <2>1. n \in 0..n
    OBVIOUS
  <2>2. S = {} => \E f : Good(f, n)
    <3> HIDE DEF Good
    <3> QED BY <2>1
  <2>3. \A f : Good(f, n) => f \in [0..n -> T] /\ IsRecursive(f, n, base, step)
    BY DEF IsRecursive
  <2> HIDE DEF Good, S
  <2> QED BY <2>2, <2>3
<1>2. PICK x \in S : \A y \in S : x <= y
  <2>1. S \in SUBSET Nat
    OBVIOUS
  <2> HIDE DEF S
  <2> QED BY <1>1, <2>1, LeastElement
<1>3. x \in 0..n /\ ~ \E f : Good(f, x)
  BY <1>2
<1>4. x # 0
  <2> DEFINE f == [i \in 0..0 |-> base]
  <2>1. Good(f, 0)
    OBVIOUS
  <2> HIDE DEF f, Good
  <2> QED BY <2>1, <1>3
<1>5. x - 1 \in 0..n /\ x - 1 \notin S /\ x \in 1..n
  <2>1. x - 1 \in 0..n /\ ~ (x <= x - 1) /\ x \in 1..n
    BY <1>3, <1>4
  <2> HIDE DEF S
  <2> QED BY <2>1, <1>2
<1>6. PICK g : Good(g, x - 1)
  BY <1>5
<1> DEFINE f == [i \in 0..x |-> IF i = x THEN step[<<x, g[x - 1]>>] ELSE g[i]]
<1>7. \A i \in 0..x - 1 : g[i] \in T
  BY <1>6
<1>8. step[<<x, g[x - 1]>>] \in T
  <2>1. x - 1 \in 0..x - 1
    BY <1>5
  <2>2. <<x, g[x - 1]>> \in (1..n) \X T
    BY <2>1, <1>5, <1>7
  <2> QED BY <2>2, <1>0
<1>9. f \in [0..x -> T] /\ f[0] = base
  <2>1. \A i \in 0..x : f[i] \in T
    BY <1>7, <1>8
  <2> QED BY <2>1, <1>3, <1>4, <1>6
<1>10. \A i \in 1..x : f[i] = step[<<i, f[i - 1]>>]
  <2> TAKE i \in 1..x
  <2>1. i \in 0..x /\ i - 1 \in 0..x /\ i - 1 # x
    BY <1>5
  <2>2. CASE i = x
    BY <2>1, <2>2
  <2>3. CASE i # x
    <3>1. i \in 1..x - 1
      BY <2>3, <1>5
    <3> QED BY <3>1, <2>1, <2>3, <1>6
  <2> QED BY <2>2, <2>3
<1>11. Good(f, x)
  BY <1>9, <1>10
<1> HIDE DEF f, Good
<1> QED BY <1>11, <1>3

\* The chain of the new table after the old one's entries were moved.
LEMMA ReceivedChain ==
  ASSUME NEW e, NEW j, NEW chain \in Seq(Keys), Distinct(chain),
         NEW c, c = Chain(e, 1, j), c \in Seq(Keys), Distinct(c), ToSet(chain) \cap ToSet(c) = {},
         NEW u, u = Received(e, j, chain)
  PROVE  /\ u \in Seq(Keys) /\ Distinct(u)
         /\ ToSet(u) = ToSet(c) \cup {k \in ToSet(chain) : Slot(e, 1, k) = j}
<1> DEFINE n == Len(chain)
           Next1(k, s) == IF Slot(e, 1, k) = j THEN <<k>> \o s ELSE s
           F(f) == [i \in 0..n |-> IF i = 0 THEN c ELSE Next1(chain[i], f[i - 1])]
           g == CHOOSE f : f = F(f)
<1>1. n \in Nat /\ \A i \in 1..n : chain[i] \in Keys
  BY ChainFacts
<1>2. \A k \in Keys, s \in Seq(Keys) : Next1(k, s) \in Seq(Keys)
  BY PutFirst
<1>3. \E f : f = F(f)
  <2> DEFINE step == [p \in (1..n) \X Seq(Keys) |-> Next1(chain[p[1]], p[2])]
  <2>1. step \in StepsOver(n, Seq(Keys))
    <3> HIDE DEF Next1, n
    <3> QED BY <1>1, <1>2 DEF StepsOver
  <2>2. PICK f \in [0..n -> Seq(Keys)] : f[0] = c /\ \A i \in 1..n : f[i] = step[<<i, f[i - 1]>>]
    <3> HIDE DEF step, n
    <3>1. \E f \in [0..n -> Seq(Keys)] : IsRecursive(f, n, c, step)
      BY <2>1, <1>1, RecursionExists
    <3> QED BY <3>1 DEF IsRecursive
  <2>3. \A i \in 1..n : f[i] = Next1(chain[i], f[i - 1])
    <3> TAKE i \in 1..n
    <3>1. i - 1 \in 0..n /\ <<i, f[i - 1]>> \in (1..n) \X Seq(Keys)
      <4> HIDE DEF n
      <4> QED BY <1>1, <2>2
    <3>2. step[<<i, f[i - 1]>>] = Next1(chain[i], f[i - 1])
      <4> HIDE DEF Next1, n
      <4> QED BY <3>1
    <3> HIDE DEF Next1, step, n
    <3> QED BY <2>2, <3>2
  <2>4. \A i \in 0..n : f[i] = IF i = 0 THEN c ELSE Next1(chain[i], f[i - 1])
    <3> HIDE DEF Next1, step, n
    <3> QED BY <2>2, <2>3, <1>1
  <2>5. f = F(f)
    <3> HIDE DEF Next1, step, n
    <3> QED BY <2>2, <2>4
  <2> QED BY <2>5
<1>4. g = F(g)
  <2> HIDE DEF F
  <2> QED BY <1>3
<1>5. u = g[n]
  BY DEF Received
<1> HIDE DEF g
<1>6. g[0] = c /\ \A i \in 1..n : g[i] = Next1(chain[i], g[i - 1])
  <2> HIDE DEF Next1, n
  <2> QED BY <1>1, <1>4
<1> DEFINE Moved(m) == {k \in Keys : \E i \in 1..m : chain[i] = k /\ Slot(e, 1, k) = j}
           Right(m) == g[m] \in Seq(Keys) /\ Distinct(g[m]) /\ ToSet(g[m]) = ToSet(c) \cup Moved(m)
           S == {m \in 0..n : ~ Right(m)}
<1>7. S = {}
  <2>1. SUFFICES ASSUME S # {} PROVE FALSE
    OBVIOUS
  <2>2. PICK x \in S : \A y \in S : x <= y
    <3>1. S \in SUBSET Nat
      OBVIOUS
    <3> HIDE DEF S
    <3> QED BY <2>1, <3>1, LeastElement
  <2>3. x \in 0..n /\ ~ Right(x)
    BY <2>2
  <2>4. Right(0)
    <3>1. Moved(0) = {}
      OBVIOUS
    <3> HIDE DEF Moved
    <3> QED BY <3>1, <1>6
  <2>5. x \in 1..n /\ x - 1 \in 0..n /\ x - 1 \notin S
    <3>1. x # 0
      <4> HIDE DEF Right
      <4> QED BY <2>3, <2>4
    <3>2. x - 1 \in 0..n /\ ~ (x <= x - 1) /\ x \in 1..n
      <4> HIDE DEF Right, n
      <4> QED BY <3>1, <2>3, <1>1
    <3> HIDE DEF S
    <3> QED BY <2>2, <3>2
  <2>6. Right(x - 1)
    <3> HIDE DEF Right
    <3> QED BY <2>5
  <2> DEFINE k == chain[x]
             s == g[x - 1]
  <2>7. k \in Keys /\ g[x] = Next1(k, s)
    BY <2>5, <1>1, <1>6
  <2>8. Moved(x) = IF Slot(e, 1, k) = j THEN Moved(x - 1) \cup {k} ELSE Moved(x - 1)
    <3>1. \A i \in 1..x : i = x \/ i \in 1..x - 1
      BY <2>5, <1>1
    <3>2. \A i \in 1..x - 1 : i \in 1..x
      BY <2>5, <1>1
    <3>3. x \in 1..x
      BY <2>5, <1>1
    <3> HIDE DEF n
    <3> QED BY <3>1, <3>2, <3>3, <2>7
  <2>9. k \notin ToSet(s)
    <3>1. k \notin ToSet(c)
      <4>1. k \in ToSet(chain)
        BY <2>5, ChainFacts
      <4> QED BY <4>1
    <3>2. k \notin Moved(x - 1)
      <4>1. \A i \in 1..x - 1 : i \in 1..n /\ i # x
        BY <2>5, <1>1
      <4> QED BY <4>1, <2>5 DEF Distinct
    <3> HIDE DEF Moved
    <3> QED BY <3>1, <3>2, <2>6
  <2>10. Right(x)
    <3>1. s \in Seq(Keys) /\ Distinct(s) /\ ToSet(s) = ToSet(c) \cup Moved(x - 1)
      BY <2>6
    <3> HIDE DEF s, k, Moved
    <3>2. CASE Slot(e, 1, k) = j
      <4>1. g[x] = <<k>> \o s
        BY <2>7, <3>2
      <4>2. g[x] \in Seq(Keys) /\ Distinct(g[x]) /\ ToSet(g[x]) = ToSet(s) \cup {k}
        <5> DEFINE v == g[x]
        <5>1. v = <<k>> \o s /\ k \in Keys
          BY <4>1, <2>7
        <5> HIDE DEF v
        <5>3. s \in Seq(Keys)
          BY <3>1
        <5>4. /\ v \in Seq(Keys) /\ ToSet(v) = ToSet(s) \cup {k}
              /\ Distinct(s) /\ k \notin ToSet(s) => Distinct(v)
          BY ONLY <5>1, <5>3, PutFirst
        <5>2. v \in Seq(Keys) /\ Distinct(v) /\ ToSet(v) = ToSet(s) \cup {k}
          BY <5>4, <2>9, <3>1
        <5> QED BY <5>2 DEF v
      <4> QED BY <4>2, <3>1, <3>2, <2>8
    <3>3. CASE Slot(e, 1, k) # j
      <4>1. g[x] = s
        BY <2>7, <3>3
      <4> QED BY <4>1, <3>1, <3>3, <2>8
    <3> QED BY <3>2, <3>3
  <2> QED BY <2>3, <2>10
<1>8. Right(n)
  <2> HIDE DEF Right, n
  <2> QED BY <1>7, <1>1
<1>9. Moved(n) = {k \in ToSet(chain) : Slot(e, 1, k) = j}
  BY ChainFacts
<1> HIDE DEF Moved, n
<1> QED BY <1>5, <1>8, <1>9


-----------------------------------------------------------------------------
(* One table                                                               *)

\* The records a table can be
Buckets      == UNION {[0..n - 1 -> Seq(Keys)] : n \in {0} \cup Sizes}
TableRecords == [size : {0} \cup Sizes, used : Int, bucket : Buckets]

\* The keys HasKey finds in table T.
Held(T) == {k \in Keys : T.size # 0 /\ k \in ToSet(T.bucket[Hash[k] % T.size])}

\* A chain holds keys of its bucket only, each once.
GoodChain(T, i) ==
  T.bucket[i] \in Seq(Keys) /\ Distinct(T.bucket[i]) /\ \A k \in ToSet(T.bucket[i]) : Hash[k] % T.size = i

GoodChains(T) ==
  /\ T \in TableRecords
  /\ T.bucket \in [0..T.size - 1 -> Seq(Keys)]
  /\ \A i \in 0..T.size - 1 : GoodChain(T, i)

\* A table also counts what it holds.
GoodTable(T) == GoodChains(T) /\ T.used = Cardinality(Held(T))

\* Sizes and hashes are naturals, and a key has a bucket in any table.
LEMMA SizeFacts ==
  /\ \A n \in {0} \cup Sizes : n \in Nat
  /\ \A n \in Sizes : n # 0 /\ \A k \in Keys : Hash[k] % n \in 0..n - 1
  /\ \A k \in Keys : Hash[k] \in Nat
BY DictAssumption DEF PowersOfTwo

\* A key has a bucket in a table of some size.
LEMMA PlaceInTable ==
  ASSUME NEW T, GoodChains(T), NEW k \in Keys, T.size # 0
  PROVE  Hash[k] % T.size \in 0..T.size - 1 /\ T.size \in Nat \ {0}
BY SizeFacts DEF GoodChains, TableRecords

\* A key is held when it is in any chain.
LEMMA HeldInChain ==
  ASSUME NEW T, GoodChains(T)
  PROVE  /\ T.size \in Nat
         /\ \A k : k \in Held(T) <=> \E i \in 0..T.size - 1 : k \in ToSet(T.bucket[i])
         /\ \A k \in Held(T) : k \in Keys /\ T.size # 0 /\ k \in ToSet(T.bucket[Hash[k] % T.size])
<1>1. T.size \in Nat
  BY SizeFacts DEF GoodChains, TableRecords
<1>2. ASSUME NEW k \in Held(T)
      PROVE  /\ k \in Keys /\ T.size # 0 /\ k \in ToSet(T.bucket[Hash[k] % T.size])
             /\ \E i \in 0..T.size - 1 : k \in ToSet(T.bucket[i])
  <2>1. k \in Keys /\ T.size # 0 /\ k \in ToSet(T.bucket[Hash[k] % T.size])
    BY DEF Held
  <2>2. Hash[k] % T.size \in 0..T.size - 1
    BY <2>1, PlaceInTable
  <2> QED BY <2>1, <2>2
<1>3. ASSUME NEW i \in 0..T.size - 1, NEW k \in ToSet(T.bucket[i])
      PROVE  k \in Held(T)
  <2>1. T.bucket[i] \in Seq(Keys) /\ Hash[k] % T.size = i
    BY DEF GoodChains, GoodChain
  <2>2. k \in Keys
    BY <2>1, ChainFacts
  <2>3. T.size # 0
    BY <1>1
  <2> QED BY <2>1, <2>2, <2>3 DEF Held
<1> QED BY <1>1, <1>2, <1>3

\* A table holds finitely many keys.
LEMMA HeldFinite ==
  ASSUME NEW T
  PROVE  IsFiniteSet(Held(T)) /\ Cardinality(Held(T)) \in Nat /\ Held(T) \subseteq Keys
<1>1. Held(T) \in SUBSET Keys
  BY DEF Held
<1>2. IsFiniteSet(Held(T))
  BY <1>1, FS_Subset, DictAssumption
<1> QED BY <1>1, <1>2, FS_CardinalityType

\* used tells whether a table holds anything.
LEMMA NothingHeld ==
  ASSUME NEW T, GoodTable(T)
  PROVE  /\ T.used \in Nat
         /\ T.used = 0 <=> Held(T) = {}
         /\ T.used # 0 => \E i \in 0..T.size - 1 : T.bucket[i] # <<>>
<1>1. T.used \in Nat /\ (T.used = 0 <=> Held(T) = {})
  BY HeldFinite, FS_EmptySet DEF GoodTable
<1>2. ASSUME NEW k \in Held(T) PROVE \E i \in 0..T.size - 1 : T.bucket[i] # <<>>
  <2>1. PICK i \in 0..T.size - 1 : k \in ToSet(T.bucket[i])
    BY HeldInChain DEF GoodTable
  <2>2. T.bucket[i] \in Seq(Keys)
    BY DEF GoodTable, GoodChains, GoodChain
  <2> QED BY <2>1, <2>2, ChainFacts
<1> QED BY <1>1, <1>2

\* Cardinalities of a disjoint union and of a difference
LEMMA CountUnion ==
  ASSUME NEW A, NEW B, IsFiniteSet(A), IsFiniteSet(B), A \cap B = {}
  PROVE  Cardinality(A \cup B) = Cardinality(A) + Cardinality(B)
<1>1. /\ Cardinality(A \cup B) = Cardinality(A) + Cardinality(B) - Cardinality(A \cap B)
      /\ Cardinality(A) \in Nat /\ Cardinality(B) \in Nat
  BY FS_Union, FS_CardinalityType
<1>2. Cardinality(A \cap B) = 0
  BY FS_EmptySet
<1> QED BY <1>1, <1>2

LEMMA CountDifference ==
  ASSUME NEW A, NEW B, IsFiniteSet(A), B \subseteq A
  PROVE  Cardinality(A \ B) = Cardinality(A) - Cardinality(B)
<1>1. A \cap B = B
  OBVIOUS
<1>2. Cardinality(A \ B) = Cardinality(A) - Cardinality(A \cap B)
  BY FS_Difference
<1> QED BY <1>1, <1>2

\* No entries, whatever the size
LEMMA NewTableGood ==
  ASSUME NEW n \in {0} \cup Sizes
  PROVE  /\ GoodTable(NewTable(n)) /\ Held(NewTable(n)) = {}
         /\ NewTable(n).size = n /\ NewTable(n).used = 0
         /\ \A i \in 0..n - 1 : NewTable(n).bucket[i] = <<>>
<1> DEFINE T == NewTable(n)
           b == [i \in 0..n - 1 |-> <<>>]
<1>1. T = [size |-> n, used |-> 0, bucket |-> b]
  BY DEF NewTable
<1>2. b \in [0..n - 1 -> Seq(Keys)] /\ \A i \in 0..n - 1 : b[i] = <<>>
  BY EmptySeq
<1> HIDE DEF b
<1>3. T.size = n /\ T.used = 0 /\ T.bucket = b /\ T \in TableRecords
  BY <1>1, <1>2 DEF TableRecords, Buckets
<1> HIDE DEF T
<1>4. <<>> \in Seq(Keys) /\ ToSet(<<>>) = {} /\ Len(<<>>) = 0
  BY ChainFacts, EmptySeq
<1>5. Distinct(<<>>)
  BY <1>4 DEF Distinct
<1>6. \A i \in 0..n - 1 : GoodChain(T, i)
  BY <1>2, <1>3, <1>4, <1>5 DEF GoodChain
<1>7. GoodChains(T)
  BY <1>2, <1>3, <1>6 DEF GoodChains
<1>8. Held(T) = {}
  BY <1>7, <1>3, <1>2, <1>4, HeldInChain
<1> QED BY <1>7, <1>8, <1>3, <1>2, FS_EmptySet DEF GoodTable, T

\* What changing one chain does to a table
LEMMA OneChain ==
  ASSUME NEW T, GoodChains(T), NEW i \in 0..T.size - 1,
         NEW u \in Seq(Keys), Distinct(u), \A k \in ToSet(u) : Hash[k] % T.size = i,
         NEW U \in TableRecords, U.size = T.size, U.bucket = [T.bucket EXCEPT ![i] = u]
  PROVE  /\ GoodChains(U)
         /\ Held(U) = (Held(T) \ ToSet(T.bucket[i])) \cup ToSet(u)
<1>1. /\ U.bucket \in [0..U.size - 1 -> Seq(Keys)] /\ U.bucket[i] = u
      /\ \A j \in 0..T.size - 1 : j # i => U.bucket[j] = T.bucket[j]
  BY DEF GoodChains
<1>2. ASSUME NEW j \in 0..T.size - 1 PROVE GoodChain(U, j)
  <2>1. CASE j = i
    BY <2>1, <1>1 DEF GoodChain
  <2>2. CASE j # i
    BY <2>2, <1>1 DEF GoodChain, GoodChains
  <2> QED BY <2>1, <2>2
<1>3. GoodChains(U)
  BY <1>1, <1>2 DEF GoodChains
<1>4. ASSUME NEW k \in Held(U)
      PROVE  k \in (Held(T) \ ToSet(T.bucket[i])) \cup ToSet(u)
  <2>1. PICK j \in 0..T.size - 1 : k \in ToSet(U.bucket[j])
    BY <1>3, HeldInChain
  <2>2. CASE j = i
    BY <2>1, <2>2, <1>1
  <2>3. CASE j # i
    <3>1. k \in ToSet(T.bucket[j])
      BY <2>1, <2>3, <1>1
    <3>2. k \notin ToSet(T.bucket[i])
      BY <2>3, <3>1 DEF GoodChains, GoodChain
    <3> QED BY <3>1, <3>2, HeldInChain
  <2> QED BY <2>2, <2>3
<1>5. ASSUME NEW k \in Held(T), k \notin ToSet(T.bucket[i])
      PROVE  k \in Held(U)
  <2>1. PICK j \in 0..T.size - 1 : k \in ToSet(T.bucket[j])
    BY HeldInChain
  <2>2. j # i
    BY <2>1, <1>5
  <2> QED BY <2>1, <2>2, <1>1, <1>3, HeldInChain
<1>6. ASSUME NEW k \in ToSet(u)
      PROVE  k \in Held(U)
  BY <1>1, <1>3, HeldInChain
<1> QED BY <1>3, <1>4, <1>5, <1>6

\* The new value of one bucket, and of a chain with an entry more
ChainSet(b, i, c) == [b EXCEPT ![i] = c]
PutHead(k, c)     == <<k>> \o c

\* dictAddRaw on its table
LEMMA InsertedTable ==
  ASSUME NEW T, GoodTable(T), T.size # 0, NEW k \in Keys, k \notin Held(T),
         NEW i, i = Hash[k] % T.size,
         NEW v, v = PutHead(k, T.bucket[i]), NEW n, n = T.used + 1,
         NEW U \in TableRecords, U.size = T.size, U.used = n, U.bucket = ChainSet(T.bucket, i, v)
  PROVE  GoodTable(U) /\ Held(U) = Held(T) \cup {k}
<1> DEFINE c == T.bucket[i]
           u == <<k>> \o c
<1>1. GoodChains(T) /\ i \in 0..T.size - 1
  BY PlaceInTable DEF GoodTable
<1>2. c \in Seq(Keys) /\ Distinct(c) /\ \A x \in ToSet(c) : Hash[x] % T.size = i
  BY <1>1 DEF GoodChains, GoodChain
<1>3. k \notin ToSet(c)
  BY <1>1, HeldInChain
<1>4. u \in Seq(Keys) /\ Distinct(u) /\ ToSet(u) = ToSet(c) \cup {k}
  <2>1. k \in Keys /\ u = <<k>> \o c
    OBVIOUS
  <2> HIDE DEF c, u
  <2> QED BY ONLY <1>2, <1>3, <2>1, PutFirst
<1>5. U.bucket = [T.bucket EXCEPT ![i] = u]
  BY DEF ChainSet, PutHead
<1> HIDE DEF u
<1>6. GoodChains(U) /\ Held(U) = (Held(T) \ ToSet(c)) \cup ToSet(u)
  <2>1. \A x \in ToSet(u) : Hash[x] % T.size = i
    BY <1>2, <1>4
  <2> QED BY <1>1, <1>4, <1>5, <2>1, OneChain
<1>7. ToSet(c) \subseteq Held(T)
  BY <1>1, HeldInChain
<1>8. Held(U) = Held(T) \cup {k}
  <2> HIDE DEF c
  <2> QED BY <1>4, <1>6, <1>7
<1>9. Cardinality(Held(U)) = T.used + 1
  <2>1. IsFiniteSet(Held(T)) /\ T.used = Cardinality(Held(T)) /\ k \notin Held(T)
    BY HeldFinite DEF GoodTable
  <2> QED BY ONLY <1>8, <2>1, FS_AddElement
<1> QED BY <1>6, <1>8, <1>9 DEF GoodTable

\* dictGenericDelete on its table
LEMMA UnlinkedTable ==
  ASSUME NEW T, GoodTable(T), NEW k \in Held(T),
         NEW i, i = Hash[k] % T.size,
         NEW v, v = RemoveFirst(T.bucket[i], k), NEW n, n = T.used - 1,
         NEW U \in TableRecords, U.size = T.size, U.used = n, U.bucket = ChainSet(T.bucket, i, v)
  PROVE  /\ GoodTable(U) /\ Held(U) = Held(T) \ {k}
         /\ i \in 0..T.size - 1
         /\ \E p \in 1..Len(T.bucket[i]) : T.bucket[i][p] = k /\ Without(T.bucket[i], p, U.bucket[i])
<1> DEFINE c == T.bucket[i]
           u == RemoveFirst(c, k)
<1>1. GoodChains(T) /\ i \in 0..T.size - 1 /\ k \in ToSet(c) /\ k \in Keys
  BY HeldInChain, PlaceInTable DEF GoodTable
<1>2. c \in Seq(Keys) /\ Distinct(c) /\ \A x \in ToSet(c) : Hash[x] % T.size = i
  BY <1>1 DEF GoodChains, GoodChain
<1>3. PICK p \in 1..Len(c) : c[p] = k
  BY <1>1, <1>2, ChainFacts
<1>4. Without(c, p, u)
  <2> HIDE DEF c
  <2> QED BY <1>2, <1>3, TakenOut
<1>5. U.bucket = [T.bucket EXCEPT ![i] = u] /\ U.bucket[i] = u
  BY <1>1 DEF GoodChains, ChainSet
<1> HIDE DEF u
<1>6. u \in Seq(Keys) /\ Distinct(u) /\ ToSet(u) = ToSet(c) \ {k}
  <2> HIDE DEF c
  <2> QED BY <1>2, <1>3, <1>4, WithoutFacts
<1>7. GoodChains(U) /\ Held(U) = (Held(T) \ ToSet(c)) \cup ToSet(u)
  <2>1. \A x \in ToSet(u) : Hash[x] % T.size = i
    BY <1>2, <1>6
  <2> QED BY <1>1, <1>5, <1>6, <2>1, OneChain
<1>8. ToSet(c) \subseteq Held(T)
  BY <1>1, HeldInChain
<1>9. Held(U) = Held(T) \ {k}
  <2> HIDE DEF c
  <2> QED BY ONLY <1>1, <1>6, <1>7, <1>8
<1>10. Cardinality(Held(U)) = T.used - 1
  BY <1>9, HeldFinite, FS_RemoveElement DEF GoodTable
<1> QED BY <1>1, <1>3, <1>4, <1>5, <1>7, <1>9, <1>10 DEF GoodTable

\* dictRehash on the old table
LEMMA ClearedTable ==
  ASSUME NEW T, GoodTable(T), NEW i \in 0..T.size - 1,
         NEW U \in TableRecords, U.size = T.size, U.used = T.used - Len(T.bucket[i]),
         U.bucket = [T.bucket EXCEPT ![i] = <<>>]
  PROVE  GoodTable(U) /\ Held(U) = Held(T) \ ToSet(T.bucket[i])
<1> DEFINE c == T.bucket[i]
<1>1. GoodChains(T) /\ c \in Seq(Keys) /\ Distinct(c)
  BY DEF GoodTable, GoodChains, GoodChain
<1>2. <<>> \in Seq(Keys) /\ ToSet(<<>>) = {} /\ Distinct(<<>>)
  <2>1. <<>> \in Seq(Keys) /\ ToSet(<<>>) = {} /\ Len(<<>>) = 0
    BY ChainFacts, EmptySeq
  <2> QED BY <2>1 DEF Distinct
<1>3. GoodChains(U) /\ Held(U) = (Held(T) \ ToSet(c)) \cup ToSet(<<>>)
  <2> DEFINE u == <<>>
  <2>1. /\ u \in Seq(Keys) /\ Distinct(u) /\ \A x \in ToSet(u) : Hash[x] % T.size = i
        /\ U.bucket = [T.bucket EXCEPT ![i] = u]
    BY <1>2
  <2> HIDE DEF u
  <2>2. GoodChains(U) /\ Held(U) = (Held(T) \ ToSet(T.bucket[i])) \cup ToSet(u)
    BY <1>1, <2>1, OneChain
  <2> QED BY <2>2 DEF u
<1>4. Held(U) = Held(T) \ ToSet(c)
  BY <1>2, <1>3
<1>5. ToSet(c) \subseteq Held(T)
  BY <1>1, HeldInChain
<1>6. Cardinality(Held(U)) = T.used - Len(c)
  <2> HIDE DEF c
  <2>1. Cardinality(ToSet(c)) = Len(c) /\ IsFiniteSet(Held(T))
    BY <1>1, ChainCounts, HeldFinite
  <2>2. Cardinality(Held(T) \ ToSet(c)) = Cardinality(Held(T)) - Cardinality(ToSet(c))
    BY ONLY <1>5, <2>1, CountDifference
  <2>3. T.used = Cardinality(Held(T))
    BY DEF GoodTable
  <2> QED BY ONLY <1>4, <2>1, <2>2, <2>3
<1> QED BY <1>3, <1>4, <1>6 DEF GoodTable

\* dictRehash on the new table: its chain j becomes s.
Receives(T, chain, j, s) ==
  /\ s \in Seq(Keys) /\ Distinct(s)
  /\ ToSet(s) = ToSet(T.bucket[j]) \cup {k \in ToSet(chain) : Hash[k] % T.size = j}

\* Received is right for one chain ...
LEMMA ChainReceives ==
  ASSUME NEW e, NEW T, T = e.ht[1], GoodChains(T), NEW j \in 0..T.size - 1,
         NEW chain \in Seq(Keys), Distinct(chain), ToSet(chain) \cap Held(T) = {}
  PROVE  Receives(T, chain, j, Received(e, j, chain))
<1> DEFINE c == Chain(e, 1, j)
           u == Received(e, j, chain)
<1>1. c = T.bucket[j]
  BY DEF Chain
<1>2. c \in Seq(Keys) /\ Distinct(c) /\ ToSet(c) \subseteq Held(T)
  <2>1. \A k \in ToSet(T.bucket[j]) : k \in Held(T)
    BY HeldInChain
  <2>2. c \in Seq(Keys) /\ Distinct(c)
    BY <1>1 DEF GoodChains, GoodChain
  <2> QED BY <1>1, <2>1, <2>2
<1>3. ToSet(chain) \cap ToSet(c) = {}
  <2> HIDE DEF c
  <2> QED BY <1>2
<1>4. u \in Seq(Keys) /\ Distinct(u) /\ ToSet(u) = ToSet(c) \cup {k \in ToSet(chain) : Slot(e, 1, k) = j}
  BY <1>2, <1>3, ReceivedChain
<1>5. \A k : Slot(e, 1, k) = Hash[k] % T.size
  BY DEF Slot
<1> HIDE DEF c, u
<1> QED BY <1>1, <1>4, <1>5 DEF Receives, u

\* ... and for all of them.
LEMMA ReceivedTable ==
  ASSUME NEW T, GoodTable(T), T.size # 0,
         NEW chain \in Seq(Keys), Distinct(chain), ToSet(chain) \cap Held(T) = {},
         NEW U \in TableRecords, U.size = T.size, U.used = T.used + Len(chain),
         DOMAIN U.bucket = 0..T.size - 1,
         \A j \in 0..T.size - 1 : Receives(T, chain, j, U.bucket[j])
  PROVE  GoodTable(U) /\ Held(U) = Held(T) \cup ToSet(chain)
<1>1. GoodChains(T) /\ T.size \in Nat \ {0}
  BY HeldInChain DEF GoodTable
<1>2. ASSUME NEW j \in 0..T.size - 1
      PROVE  /\ U.bucket[j] \in Seq(Keys) /\ Distinct(U.bucket[j])
             /\ ToSet(U.bucket[j]) = ToSet(T.bucket[j]) \cup {k \in ToSet(chain) : Hash[k] % T.size = j}
  BY DEF Receives
<1>3. ASSUME NEW j \in 0..T.size - 1 PROVE GoodChain(U, j)
  <2>1. \A k \in ToSet(T.bucket[j]) : Hash[k] % T.size = j
    BY <1>1 DEF GoodChain, GoodChains
  <2> QED BY <1>2, <2>1 DEF GoodChain
<1>4. GoodChains(U)
  <2>1. U.bucket \in [0..T.size - 1 -> Seq(Keys)]
    BY <1>2 DEF TableRecords, Buckets
  <2> QED BY <1>3, <2>1 DEF GoodChains
<1>5. ASSUME NEW k \in Held(U) PROVE k \in Held(T) \cup ToSet(chain)
  <2>1. PICK j \in 0..T.size - 1 : k \in ToSet(U.bucket[j])
    BY <1>4, HeldInChain
  <2>2. k \in ToSet(T.bucket[j]) \/ k \in ToSet(chain)
    BY <2>1, <1>2
  <2> QED BY <2>2, <1>1, HeldInChain
<1>6. ASSUME NEW k \in Held(T) PROVE k \in Held(U)
  <2>1. PICK j \in 0..T.size - 1 : k \in ToSet(T.bucket[j])
    BY <1>1, HeldInChain
  <2>2. k \in ToSet(U.bucket[j])
    BY <2>1, <1>2
  <2> QED BY <2>2, <1>4, HeldInChain
<1>7. ASSUME NEW k \in ToSet(chain) PROVE k \in Held(U)
  <2>1. k \in Keys
    BY ChainFacts
  <2>2. Hash[k] % T.size \in 0..T.size - 1
    BY <2>1, <1>1, PlaceInTable
  <2>3. k \in ToSet(U.bucket[Hash[k] % T.size])
    BY <2>2, <1>2
  <2> QED BY <2>2, <2>3, <1>4, HeldInChain
<1>8. Held(U) = Held(T) \cup ToSet(chain)
  BY <1>5, <1>6, <1>7
<1>9. Cardinality(Held(U)) = T.used + Len(chain)
  <2>1. /\ Cardinality(ToSet(chain)) = Len(chain) /\ IsFiniteSet(ToSet(chain))
        /\ IsFiniteSet(Held(T)) /\ Cardinality(Held(T)) = T.used
    BY ChainCounts, HeldFinite DEF GoodTable
  <2>2. Held(T) \cap ToSet(chain) = {}
    OBVIOUS
  <2>3. Cardinality(Held(T) \cup ToSet(chain)) = Cardinality(Held(T)) + Cardinality(ToSet(chain))
    BY ONLY <2>1, <2>2, CountUnion
  <2> QED BY ONLY <1>8, <2>1, <2>3
<1> QED BY <1>4, <1>8, <1>9 DEF GoodTable


-----------------------------------------------------------------------------
(* The two tables                                                          *)

\* What a dict can be, and what it holds
Dicts == [ht : [0..1 -> TableRecords], rehashidx : Int, iterators : Nat]

HeldBy(e) == Held(e.ht[0]) \cup Held(e.ht[1])

\* While one table is moved to the other both are there, and the old one is empty
\* up to rehashidx.
GoodRehash(e) ==
  IF e.rehashidx = -1 THEN e.ht[1].size = 0
  ELSE /\ e.ht[0].size # 0 /\ e.ht[1].size # 0
       /\ e.rehashidx \in 0..e.ht[0].size
       /\ \A i \in 0..e.rehashidx - 1 : e.ht[0].bucket[i] = <<>>

\* Two good tables that hold different keys, and rehashing in order
GoodDict(e) ==
  /\ e \in Dicts
  /\ GoodTable(e.ht[0]) /\ GoodTable(e.ht[1])
  /\ Held(e.ht[0]) \cap Held(e.ht[1]) = {}
  /\ GoodRehash(e)

\* f holds what e holds.
SameKeys(e, f) == GoodDict(f) /\ HeldBy(f) = HeldBy(e) /\ f.iterators = e.iterators

\* The sizes of the tables that are there
SizesOf(e) == {e.ht[0].size, e.ht[1].size} \ {0}

\* Each of the two tables is good.
LEMMA SizeTypes ==
  ASSUME NEW e, GoodDict(e)
  PROVE  \A t \in 0..1 : /\ e.ht[t].size \in {0} \cup Sizes /\ e.ht[t].size \in Nat
                         /\ e.ht[t] \in TableRecords /\ GoodTable(e.ht[t]) /\ e.ht[t].used \in Int
<1>1. \A t \in 0..1 : t = 0 \/ t = 1
  OBVIOUS
<1>2. \A t \in 0..1 : e.ht[t] \in TableRecords /\ GoodTable(e.ht[t])
  BY <1>1 DEF GoodDict, Dicts
<1> QED BY <1>2, SizeFacts DEF TableRecords

\* _dictInit
LEMMA NewDictGood == GoodDict(NewDict) /\ HeldBy(NewDict) = {} /\ NewDict.iterators = 0
<1> DEFINE T == NewTable(0)
<1>1. /\ GoodTable(T) /\ Held(T) = {} /\ T.size = 0
  BY NewTableGood
<1>2. T \in TableRecords
  BY <1>1 DEF GoodTable, GoodChains
<1> HIDE DEF T
<1>3. NewDict = [ht |-> Both(T, T), rehashidx |-> -1, iterators |-> 0]
  BY DEF NewDict, T
<1>4. NewDict \in Dicts /\ NewDict.ht[0] = T /\ NewDict.ht[1] = T
  BY <1>2, <1>3 DEF Dicts, Both
<1> QED BY <1>1, <1>3, <1>4 DEF GoodDict, GoodRehash, HeldBy

LEMMA HasKeyHeld ==
  ASSUME NEW e, NEW t \in 0..1, NEW k \in Keys
  PROVE  HasKey(e, t, k) <=> k \in Held(e.ht[t])
BY DEF HasKey, Held, Chain, Slot

\* A lookup finds what the tables hold.
LEMMA LookupHeld ==
  ASSUME NEW e, GoodDict(e), NEW k \in Keys
  PROVE  Lookup(e, k) <=> k \in HeldBy(e)
<1>1. \A t \in {0, 1} : HasKey(e, t, k) <=> k \in Held(e.ht[t])
  BY HasKeyHeld
<1>2. CASE IsRehashing(e)
  BY <1>1, <1>2 DEF Lookup, Tables, HeldBy
<1>3. CASE ~ IsRehashing(e)
  <2>1. e.ht[1].size = 0
    BY <1>3 DEF GoodDict, GoodRehash, IsRehashing
  <2>2. Held(e.ht[1]) = {}
    BY <2>1 DEF Held
  <2> QED BY <1>1, <1>3, <2>2 DEF Lookup, Tables, HeldBy
<1> QED BY <1>2, <1>3

\* The entries that DictSize counts are the keys.
LEMMA SizeIsHeld ==
  ASSUME NEW e, GoodDict(e)
  PROVE  /\ DictSize(e) = Cardinality(HeldBy(e))
         /\ DictSize(e) = 0 <=> HeldBy(e) = {}
<1>1. /\ IsFiniteSet(Held(e.ht[0])) /\ IsFiniteSet(Held(e.ht[1]))
      /\ Held(e.ht[0]) \cap Held(e.ht[1]) = {}
      /\ e.ht[0].used = Cardinality(Held(e.ht[0])) /\ e.ht[1].used = Cardinality(Held(e.ht[1]))
  BY HeldFinite DEF GoodDict, GoodTable
<1>2. DictSize(e) = Cardinality(HeldBy(e))
  BY ONLY <1>1, CountUnion DEF DictSize, HeldBy
<1>3. IsFiniteSet(HeldBy(e))
  BY <1>1, FS_Union DEF HeldBy
<1> QED BY <1>2, <1>3, FS_EmptySet

-----------------------------------------------------------------------------
(* Rehashing                                                               *)

\* e with other tables, and a table with another count and other chains
WithTables(e, i, A, B) == [e EXCEPT !.rehashidx = i, !.ht = Both(A, B)]
WithChains(T, b, n)    == [T EXCEPT !.bucket = b, !.used = n]

\* A dict with other tables, and a table with other chains
LEMMA BothTablesChange ==
  ASSUME NEW e \in Dicts, NEW A \in TableRecords, NEW B \in TableRecords, NEW i \in Int
  PROVE  /\ WithTables(e, i, A, B) \in Dicts
         /\ WithTables(e, i, A, B).rehashidx = i
         /\ WithTables(e, i, A, B).iterators = e.iterators
         /\ WithTables(e, i, A, B).ht[0] = A /\ WithTables(e, i, A, B).ht[1] = B
<1> DEFINE f == WithTables(e, i, A, B)
<1>1. Both(A, B) \in [0..1 -> TableRecords] /\ Both(A, B)[0] = A /\ Both(A, B)[1] = B
  BY DEF Both
<1>2. f.ht = Both(A, B) /\ f.rehashidx = i /\ f.iterators = e.iterators
  BY DEF Dicts, WithTables
<1>3. f \in Dicts
  BY <1>1 DEF Dicts, WithTables
<1> QED BY <1>1, <1>2, <1>3

LEMMA TableChanges ==
  ASSUME NEW T \in TableRecords, NEW b, b \in [0..T.size - 1 -> Seq(Keys)], NEW n \in Int,
         NEW U, U = WithChains(T, b, n)
  PROVE  U \in TableRecords /\ U.size = T.size /\ U.used = n /\ U.bucket = b
<1>1. b \in Buckets
  BY DEF Buckets, TableRecords
<1> QED BY <1>1 DEF TableRecords, WithChains

\* The step of dictRehash keeps the keys.
LEMMA BucketMoved ==
  ASSUME NEW e, GoodDict(e), IsRehashing(e), NEW i, i \in 0..e.ht[0].size - 1,
         \A j \in 0..i - 1 : e.ht[0].bucket[j] = <<>>,
         NEW f, f = MoveBucket(e, i)
  PROVE  SameKeys(e, f) /\ IsRehashing(f) /\ \A t \in 0..1 : f.ht[t].size = e.ht[t].size
<1> DEFINE T == e.ht[0]
           R == e.ht[1]
           chain == T.bucket[i]
           n == Len(chain)
           a == [T.bucket EXCEPT ![i] = <<>>]
           b == [j \in DOMAIN R.bucket |-> Received(e, j, chain)]
           U == [T EXCEPT !.bucket = a, !.used = @ - n]
           V == [R EXCEPT !.bucket = b, !.used = @ + n]
<1>1. /\ e \in Dicts /\ GoodTable(T) /\ GoodTable(R) /\ Held(T) \cap Held(R) = {}
      /\ T \in TableRecords /\ R \in TableRecords /\ T.size # 0 /\ R.size # 0 /\ T.size \in Nat
      /\ T.used \in Int /\ R.used \in Int
  BY SizeTypes DEF GoodDict, GoodRehash, IsRehashing
<1>2. /\ chain \in Seq(Keys) /\ Distinct(chain) /\ ToSet(chain) \subseteq Held(T) /\ n \in Nat
  <2>1. chain \in Seq(Keys) /\ Distinct(chain) /\ ToSet(chain) \subseteq Held(T)
    BY <1>1, HeldInChain DEF GoodTable, GoodChains, GoodChain
  <2> HIDE DEF chain
  <2> QED BY <2>1, ChainFacts
<1>3. f = [e EXCEPT !.rehashidx = i + 1, !.ht = Both(U, V)]
  BY Zenon DEF MoveBucket, Chain
<1>4. ToSet(chain) \cap Held(R) = {}
  BY <1>1, <1>2
<1>5. a \in [0..T.size - 1 -> Seq(Keys)]
  BY <1>1, EmptySeq DEF GoodTable, GoodChains
<1>6. \A j \in 0..R.size - 1 : b[j] = Received(e, j, chain) /\ Receives(R, chain, j, b[j])
  <2> TAKE j \in 0..R.size - 1
  <2>1. j \in DOMAIN R.bucket /\ GoodChains(R)
    BY <1>1 DEF GoodTable, GoodChains
  <2>2. b[j] = Received(e, j, chain)
    BY <2>1
  <2> HIDE DEF chain
  <2>3. Receives(R, chain, j, Received(e, j, chain))
    BY <2>1, <1>2, <1>4, ChainReceives
  <2> QED BY <2>2, <2>3
<1>7. DOMAIN b = 0..R.size - 1 /\ b \in [0..R.size - 1 -> Seq(Keys)]
  <2>1. DOMAIN R.bucket = 0..R.size - 1
    BY <1>1 DEF GoodTable, GoodChains
  <2>2. DOMAIN b = 0..R.size - 1
    BY <2>1
  <2>3. \A j \in 0..R.size - 1 : b[j] \in Seq(Keys)
    BY <1>6 DEF Receives
  <2>4. b = [j \in DOMAIN b |-> b[j]]
    OBVIOUS
  <2> HIDE DEF b
  <2> QED BY <2>2, <2>3, <2>4
<1>8. U \in TableRecords /\ U.size = T.size /\ U.used = T.used - n /\ U.bucket = a
  <2>1. T.used - n \in Int
    <3> HIDE DEF T, n
    <3> QED BY <1>1, <1>2
  <2> DEFINE m == T.used - n
  <2>2. U = WithChains(T, a, m) /\ m \in Int /\ T \in TableRecords
    BY <2>1, <1>1 DEF WithChains
  <2> HIDE DEF a, m, T, U
  <2>3. U \in TableRecords /\ U.size = T.size /\ U.used = m /\ U.bucket = a
    BY ONLY <2>2, <1>5, TableChanges
  <2> QED BY <2>3 DEF m
<1>9. V \in TableRecords /\ V.size = R.size /\ V.used = R.used + n /\ V.bucket = b
  <2>1. R.used + n \in Int
    <3> HIDE DEF R, n
    <3> QED BY <1>1, <1>2
  <2> DEFINE m == R.used + n
  <2>2. V = WithChains(R, b, m) /\ m \in Int /\ R \in TableRecords
    BY <2>1, <1>1 DEF WithChains
  <2> HIDE DEF b, m, R, V
  <2>3. V \in TableRecords /\ V.size = R.size /\ V.used = m /\ V.bucket = b
    BY ONLY <2>2, <1>7, TableChanges
  <2> QED BY <2>3 DEF m
<1> HIDE DEF U, V
<1>10. f \in Dicts /\ f.rehashidx = i + 1 /\ f.iterators = e.iterators /\ f.ht[0] = U /\ f.ht[1] = V
  <2> DEFINE m == i + 1
  <2>1. m \in Int /\ f = WithTables(e, m, U, V)
    BY <1>1, <1>3 DEF WithTables
  <2>3. e \in Dicts /\ U \in TableRecords /\ V \in TableRecords
    BY <1>1, <1>8, <1>9
  <2> HIDE DEF m
  <2> DEFINE g == WithTables(e, m, U, V)
  <2>4. m \in Int
    BY <2>1
  <2>5. g \in Dicts /\ g.rehashidx = m /\ g.iterators = e.iterators /\ g.ht[0] = U /\ g.ht[1] = V
    BY ONLY <2>3, <2>4, BothTablesChange
  <2>2. f \in Dicts /\ f.rehashidx = m /\ f.iterators = e.iterators /\ f.ht[0] = U /\ f.ht[1] = V
    BY <2>1, <2>5
  <2> QED BY <2>2 DEF m
<1>11. GoodTable(U) /\ Held(U) = Held(T) \ ToSet(chain)
  <2>1. /\ U.used = T.used - Len(T.bucket[i]) /\ U.bucket = [T.bucket EXCEPT ![i] = <<>>]
        /\ i \in 0..T.size - 1
    BY <1>8
  <2> HIDE DEF T
  <2> QED BY ONLY <2>1, <1>1, <1>8, ClearedTable DEF chain
<1>12. GoodTable(V) /\ Held(V) = Held(R) \cup ToSet(chain)
  <2> HIDE DEF R, chain, b
  <2> QED BY <1>1, <1>2, <1>4, <1>6, <1>7, <1>9, ReceivedTable DEF n
<1>13. Held(U) \cap Held(V) = {} /\ HeldBy(f) = HeldBy(e)
  <2>1. HeldBy(f) = Held(U) \cup Held(V) /\ HeldBy(e) = Held(T) \cup Held(R)
    BY <1>10 DEF HeldBy
  <2> HIDE DEF T, R, chain
  <2> QED BY ONLY <2>1, <1>1, <1>2, <1>11, <1>12
<1>14. GoodRehash(f) /\ IsRehashing(f)
  <2>1. f.rehashidx # -1 /\ f.rehashidx \in 0..T.size
    BY <1>1, <1>10
  <2>2. \A j \in 0..i : a[j] = <<>>
    <3> TAKE j \in 0..i
    <3>1. j \in 0..T.size - 1 /\ (j = i \/ j \in 0..i - 1)
      BY <1>1
    <3>2. DOMAIN T.bucket = 0..T.size - 1
      BY <1>1 DEF GoodTable, GoodChains
    <3> QED BY <3>1, <3>2
  <2>3. \A j \in 0..f.rehashidx - 1 : j \in 0..i
    BY <1>10
  <2> QED BY <1>1, <1>8, <1>9, <1>10, <2>1, <2>2, <2>3 DEF GoodRehash, IsRehashing
<1>15. GoodDict(f)
  BY <1>10, <1>11, <1>12, <1>13, <1>14 DEF GoodDict
<1>16. \A t \in 0..1 : f.ht[t].size = e.ht[t].size
  <2>1. \A t \in 0..1 : t = 0 \/ t = 1
    OBVIOUS
  <2> QED BY <2>1, <1>8, <1>9, <1>10
<1> QED BY <1>10, <1>13, <1>14, <1>15, <1>16 DEF SameKeys

\* So does the end of the rehashing ...
LEMMA FinishedGood ==
  ASSUME NEW e, GoodDict(e), IsRehashing(e), NEW f, f = Finished(e)
  PROVE  SameKeys(e, f) /\ SizesOf(f) \subseteq SizesOf(e) /\ f.ht[0].size # 0
<1>0. e.ht[0].size # 0 /\ e.ht[1].size # 0 /\ e.ht[1] \in TableRecords
  BY SizeTypes DEF GoodDict, GoodRehash, IsRehashing
<1>1. CASE e.ht[0].used # 0
  BY <1>0, <1>1 DEF Finished, SameKeys
<1>2. CASE e.ht[0].used = 0
  <2> DEFINE R == e.ht[1]
             N == NewTable(0)
             m == -1
  <2>1. GoodTable(N) /\ Held(N) = {} /\ N.size = 0 /\ N \in TableRecords
    BY NewTableGood DEF GoodTable, GoodChains
  <2>2. f = WithTables(e, m, R, N) /\ e \in Dicts /\ m \in Int
    <3>1. f = [e EXCEPT !.rehashidx = m, !.ht = Both(R, N)]
      BY <1>2, Zenon DEF Finished
    <3> HIDE DEF R, N, m
    <3>2. m \in Int /\ e \in Dicts
      BY DEF m, GoodDict
    <3> QED BY ONLY <3>1, <3>2 DEF WithTables
  <2> HIDE DEF N, R, m
  <2>3. f \in Dicts /\ f.rehashidx = m /\ f.iterators = e.iterators /\ f.ht[0] = R /\ f.ht[1] = N
    BY ONLY <2>1, <2>2, <1>0, BothTablesChange DEF R
  <2>4. Held(e.ht[0]) = {} /\ GoodTable(R)
    BY <1>2, NothingHeld DEF GoodDict, R
  <2>5. HeldBy(f) = HeldBy(e)
    BY <2>1, <2>3, <2>4 DEF HeldBy, R
  <2>6. GoodDict(f)
    BY <2>1, <2>3, <2>4 DEF GoodDict, GoodRehash, m
  <2>7. SizesOf(f) \subseteq SizesOf(e)
    BY <2>1, <2>3 DEF SizesOf, R
  <2> QED BY <1>0, <2>3, <2>5, <2>6, <2>7 DEF SameKeys, R
<1> QED BY <1>1, <1>2

\* Over the empty buckets
LEMMA BucketsSkipped ==
  ASSUME NEW e, GoodDict(e), IsRehashing(e), NEW i \in 0..e.ht[0].size,
         \A j \in 0..i - 1 : e.ht[0].bucket[j] = <<>>,
         NEW f, f = [e EXCEPT !.rehashidx = i]
  PROVE  SameKeys(e, f) /\ f.ht = e.ht
<1>1. e \in Dicts /\ i \in Nat
  BY SizeTypes DEF GoodDict
<1>2. f \in Dicts /\ f.rehashidx = i /\ f.ht = e.ht /\ f.iterators = e.iterators
  BY <1>1 DEF Dicts
<1>3. GoodRehash(f)
  BY <1>1, <1>2 DEF GoodRehash, GoodDict, IsRehashing
<1> QED BY <1>2, <1>3 DEF GoodDict, SameKeys, HeldBy

\* ... and all of dictRehash.
LEMMA RehashGood ==
  ASSUME NEW e, GoodDict(e)
  PROVE  /\ SameKeys(e, Rehash(e)) /\ SizesOf(Rehash(e)) \subseteq SizesOf(e)
         /\ e.ht[0].size # 0 => Rehash(e).ht[0].size # 0
<1>1. CASE ~ IsRehashing(e)
  <2>1. Rehash(e) = e
    BY <1>1 DEF Rehash
  <2> QED BY <2>1 DEF SameKeys
<1>2. CASE IsRehashing(e) /\ e.ht[0].used = 0
  BY <1>2, FinishedGood DEF Rehash
<1>3. CASE IsRehashing(e) /\ e.ht[0].used # 0
  <2> DEFINE left == {i \in 0..e.ht[0].size - 1 : e.rehashidx <= i /\ Chain(e, 0, i) # <<>>}
             m == Min(left)
  <2>1. /\ e.ht[0].size \in Nat \ {0} /\ e.rehashidx \in Nat
        /\ \A i \in 0..e.rehashidx - 1 : Chain(e, 0, i) = <<>>
    BY <1>3, SizeTypes DEF GoodDict, GoodRehash, IsRehashing, Chain
  <2>2. left # {}
    <3>1. PICK i \in 0..e.ht[0].size - 1 : e.ht[0].bucket[i] # <<>>
      BY <1>3, NothingHeld DEF GoodDict
    <3>2. e.rehashidx <= i
      BY <2>1, <3>1 DEF Chain
    <3> QED BY <3>1, <3>2 DEF Chain
  <2>3. m \in left /\ \A i \in left : m <= i
    <3>1. left \in SUBSET Nat
      BY <2>1
    <3> HIDE DEF left
    <3> QED BY <3>1, <2>2, MinIsLeast
  <2>4. Rehash(e) = IF m - e.rehashidx >= EmptyVisits THEN [e EXCEPT !.rehashidx = @ + EmptyVisits]
                    ELSE Finished(MoveBucket(e, m))
    BY <1>3 DEF Rehash
  <2>5. m \in 0..e.ht[0].size - 1 /\ e.rehashidx <= m
    BY <2>3
  <2>6. \A j \in 0..m - 1 : e.ht[0].bucket[j] = <<>>
    <3> TAKE j \in 0..m - 1
    <3>1. j \in 0..e.ht[0].size - 1 /\ ~ (m <= j) /\ (e.rehashidx <= j \/ j \in 0..e.rehashidx - 1)
      BY <2>1, <2>5
    <3>2. j \notin left
      BY <2>3, <3>1
    <3> QED BY <2>1, <3>1, <3>2 DEF Chain
  <2> HIDE DEF left, m
  <2>7. CASE m - e.rehashidx >= EmptyVisits
    <3> DEFINE i == e.rehashidx + EmptyVisits
    <3>1. i \in 0..e.ht[0].size /\ \A j \in 0..i - 1 : j \in 0..m - 1
      BY <2>1, <2>5, <2>7, DictAssumption
    <3>2. Rehash(e) = [e EXCEPT !.rehashidx = i]
      BY <2>4, <2>7
    <3>3. \A j \in 0..i - 1 : e.ht[0].bucket[j] = <<>>
      BY <3>1, <2>6
    <3> HIDE DEF i
    <3>4. SameKeys(e, Rehash(e)) /\ Rehash(e).ht = e.ht
      BY <1>3, <3>1, <3>2, <3>3, BucketsSkipped
    <3> QED BY <3>4, <2>1 DEF SizesOf
  <2>8. CASE ~ (m - e.rehashidx >= EmptyVisits)
    <3> DEFINE f == MoveBucket(e, m)
    <3>1. Rehash(e) = Finished(f)
      BY <2>4, <2>8
    <3>2. SameKeys(e, f) /\ IsRehashing(f) /\ \A t \in 0..1 : f.ht[t].size = e.ht[t].size
      BY <1>3, <2>5, <2>6, BucketMoved
    <3> HIDE DEF f
    <3>3. SameKeys(f, Rehash(e)) /\ SizesOf(Rehash(e)) \subseteq SizesOf(f) /\ Rehash(e).ht[0].size # 0
      BY <3>1, <3>2, FinishedGood DEF SameKeys
    <3>4. SizesOf(f) = SizesOf(e)
      BY <3>2 DEF SizesOf
    <3> QED BY <3>2, <3>3, <3>4 DEF SameKeys
  <2> QED BY <2>7, <2>8
<1> QED BY <1>1, <1>2, <1>3


-----------------------------------------------------------------------------
(* Expanding                                                               *)

\* Some table is large enough for n entries.
Fits(n) == n \in Nat /\ \E s \in Sizes : n <= s

\* _dictNextPower finds a size that is large enough.
LEMMA NextPowerFits ==
  ASSUME NEW n, Fits(n)
  PROVE  NextPower(n) \in Sizes /\ n <= NextPower(n) /\ NextPower(n) # 0
<1> DEFINE S == {s \in Sizes : s >= n}
<1>1. S \in SUBSET Nat /\ S # {}
  BY SizeFacts DEF Fits
<1>2. Min(S) \in S
  <2> HIDE DEF S
  <2> QED BY <1>1, MinIsLeast
<1> QED BY <1>2, SizeFacts DEF NextPower, Fits

\* What a walk sees of an expansion: the first table stays, the second one may have come.
Grown(e, f) ==
  /\ f.ht[0] = e.ht[0]
  /\ f = e \/ (~ IsRehashing(e) /\ \A i \in 0..f.ht[1].size - 1 : f.ht[1].bucket[i] = <<>>)

\* dictExpand keeps the keys, whatever size is asked for.
LEMMA ExpandGood ==
  ASSUME NEW e, GoodDict(e), NEW n, Fits(n), NEW f, f = Expand(e, n)
  PROVE  /\ SameKeys(e, f) /\ f.ht[0].size # 0
         /\ SizesOf(f) \subseteq SizesOf(e) \cup {NextPower(n)}
         /\ e.ht[0].size # 0 => Grown(e, f)
<1> DEFINE N == NewTable(NextPower(n))
<1>1. /\ GoodTable(N) /\ Held(N) = {} /\ N.size = NextPower(n) /\ N.size # 0 /\ N \in TableRecords
      /\ \A i \in 0..N.size - 1 : N.bucket[i] = <<>>
  <2>1. NextPower(n) \in Sizes /\ NextPower(n) # 0
    BY NextPowerFits
  <2> DEFINE s == NextPower(n)
  <2> HIDE DEF s
  <2>2. /\ GoodTable(NewTable(s)) /\ Held(NewTable(s)) = {} /\ NewTable(s).size = s
        /\ \A i \in 0..s - 1 : NewTable(s).bucket[i] = <<>>
    BY <2>1, NewTableGood DEF s
  <2> QED BY <2>1, <2>2 DEF GoodTable, GoodChains, s
<1>2. /\ e \in Dicts /\ e.ht[0] \in TableRecords /\ e.ht[1] \in TableRecords
      /\ GoodTable(e.ht[0]) /\ GoodTable(e.ht[1])
      /\ Held(e.ht[0]) \cap Held(e.ht[1]) = {} /\ GoodRehash(e) /\ e.ht[0].size \in Nat
  BY SizeTypes DEF GoodDict
<1>3. CASE IsRehashing(e) \/ e.ht[0].used > n \/ NextPower(n) = e.ht[0].size
  <2>1. f = e
    BY <1>3 DEF Expand
  <2>2. e.ht[0].size # 0
    <3>1. CASE IsRehashing(e)
      BY <1>2, <3>1 DEF IsRehashing, GoodRehash
    <3>2. CASE e.ht[0].used > n
      <4>1. e.ht[0].used # 0
        BY <3>2 DEF Fits
      <4>2. PICK i \in 0..e.ht[0].size - 1 : TRUE
        BY <4>1, <1>2, NothingHeld
      <4> QED BY <1>2, <4>2
    <3>3. CASE NextPower(n) = e.ht[0].size
      BY <3>3, <1>1
    <3> QED BY <1>3, <3>1, <3>2, <3>3
  <2> QED BY <2>1, <2>2 DEF SameKeys, Grown
<1>4. CASE ~ (IsRehashing(e) \/ e.ht[0].used > n \/ NextPower(n) = e.ht[0].size) /\ e.ht[0].size = 0
  <2> DEFINE R == e.ht[1]
  <2>1. f = [e EXCEPT !.ht = Both(N, R)]
    BY <1>4, Zenon DEF Expand
  <2>2. e.rehashidx = -1 /\ e.ht[1].size = 0
    BY <1>2, <1>4 DEF IsRehashing, GoodRehash
  <2> HIDE DEF N, R
  <2>3. Both(N, R) \in [0..1 -> TableRecords] /\ Both(N, R)[0] = N /\ Both(N, R)[1] = R
    BY <1>1, <1>2 DEF Both, R
  <2>4. f \in Dicts /\ f.rehashidx = -1 /\ f.iterators = e.iterators /\ f.ht[0] = N /\ f.ht[1] = R
    BY <2>1, <2>2, <2>3, <1>2 DEF Dicts
  <2>5. Held(e.ht[0]) = {} /\ HeldBy(f) = HeldBy(e)
    BY <1>1, <1>4, <2>4 DEF Held, HeldBy, R
  <2>6. GoodDict(f)
    BY <1>1, <1>2, <2>2, <2>4 DEF GoodDict, GoodRehash, R
  <2>7. SizesOf(f) \subseteq SizesOf(e) \cup {NextPower(n)}
    BY <1>1, <2>2, <2>4 DEF SizesOf, R
  <2> QED BY <1>1, <1>4, <2>4, <2>5, <2>6, <2>7 DEF SameKeys
<1>5. CASE ~ (IsRehashing(e) \/ e.ht[0].used > n \/ NextPower(n) = e.ht[0].size) /\ e.ht[0].size # 0
  <2> DEFINE T == e.ht[0]
             m == 0
  <2>1. f = WithTables(e, m, T, N)
    BY <1>5, Zenon DEF Expand, WithTables
  <2>2. e.rehashidx = -1 /\ e.ht[1].size = 0
    BY <1>2, <1>5 DEF IsRehashing, GoodRehash
  <2>3. m \in Int /\ e \in Dicts /\ T \in TableRecords /\ N \in TableRecords
    BY <1>1, <1>2
  <2> HIDE DEF N, T, m
  <2>4. f \in Dicts /\ f.rehashidx = m /\ f.iterators = e.iterators /\ f.ht[0] = T /\ f.ht[1] = N
    BY ONLY <2>1, <2>3, BothTablesChange
  <2>5. HeldBy(f) = HeldBy(e) /\ Held(e.ht[1]) = {}
    BY <1>1, <2>2, <2>4 DEF Held, HeldBy, T
  <2>6. GoodRehash(f)
    BY <1>1, <1>2, <1>5, <2>4 DEF GoodRehash, T, m
  <2>7. GoodDict(f)
    BY <1>1, <1>2, <2>4, <2>6 DEF GoodDict, T
  <2>8. SizesOf(f) \subseteq SizesOf(e) \cup {NextPower(n)}
    BY <1>1, <2>4 DEF SizesOf, T
  <2>9. Grown(e, f)
    BY <1>1, <1>5, <2>4 DEF Grown, T
  <2> QED BY <1>5, <2>4, <2>5, <2>7, <2>8, <2>9 DEF SameKeys, T
<1> QED BY <1>3, <1>4, <1>5

\* The sizes the dict itself asks for are there.
LEMMA InitialFits == Fits(InitialSize) /\ \A m \in Nat : m <= 2 * Cardinality(Keys) => Fits(m)
<1>1. PICK s \in Sizes : 2 * Cardinality(Keys) <= s
  BY DictAssumption
<1>2. s \in Nat /\ Cardinality(Keys) \in Nat
  BY SizeFacts, FS_CardinalityType, DictAssumption
<1>3. Fits(InitialSize)
  BY SizeFacts, DictAssumption DEF Fits
<1>4. ASSUME NEW m \in Nat, m <= 2 * Cardinality(Keys)
      PROVE  Fits(m)
  <2>1. m <= s
    BY <1>1, <1>2, <1>4
  <2> QED BY <2>1 DEF Fits
<1> QED BY <1>3, <1>4

LEMMA UsedFits ==
  ASSUME NEW T, GoodTable(T)
  PROVE  T.used \in Nat /\ Fits(T.used) /\ Fits(2 * T.used)
<1>1. IsFiniteSet(Keys) /\ Held(T) \in SUBSET Keys /\ T.used = Cardinality(Held(T))
  BY DictAssumption, HeldFinite DEF GoodTable
<1>2. T.used \in Nat /\ Cardinality(Keys) \in Nat /\ T.used <= Cardinality(Keys)
  BY <1>1, HeldFinite, FS_Subset, FS_CardinalityType
<1> DEFINE m == 2 * T.used
<1>3. m \in Nat /\ T.used <= 2 * Cardinality(Keys) /\ m <= 2 * Cardinality(Keys)
  BY <1>2
<1>4. Fits(T.used)
  BY <1>2, <1>3, InitialFits
<1> HIDE DEF m
<1>5. Fits(m)
  BY <1>3, InitialFits
<1> QED BY <1>2, <1>4, <1>5 DEF m

\* The table grows, if it changes.
LEMMA ExpandedGood ==
  ASSUME NEW e, GoodDict(e), NEW f, f = Expanded(e)
  PROVE  /\ SameKeys(e, f) /\ f.ht[0].size # 0
         /\ e.ht[0].size # 0 => Grown(e, f) /\ \A s \in SizesOf(f) : \E r \in SizesOf(e) : r <= s
<1>1. e.ht[0].size \in Nat /\ e.ht[1].size \in Nat /\ GoodTable(e.ht[0])
  BY SizeTypes DEF GoodDict
<1>2. CASE e.ht[0].size = 0
  <2>1. f = Expand(e, InitialSize)
    BY <1>2 DEF Expanded
  <2> QED BY <1>2, <2>1, InitialFits, ExpandGood
<1>3. CASE e.ht[0].size # 0 /\ e.ht[0].used >= e.ht[0].size
  <2> DEFINE n == 2 * e.ht[0].used
  <2>1. f = Expand(e, n)
    BY <1>3 DEF Expanded
  <2>2. Fits(n) /\ e.ht[0].size <= n
    <3>1. Fits(2 * e.ht[0].used) /\ e.ht[0].used \in Nat
      BY <1>1, UsedFits
    <3> QED BY <3>1, <1>1, <1>3
  <2> HIDE DEF n
  <2>3. n <= NextPower(n) /\ n \in Nat /\ NextPower(n) \in Nat
    BY <2>2, NextPowerFits, SizeFacts DEF Fits
  <2>4. /\ SameKeys(e, f) /\ f.ht[0].size # 0
        /\ SizesOf(f) \subseteq SizesOf(e) \cup {NextPower(n)} /\ Grown(e, f)
    BY <1>3, <2>1, <2>2, ExpandGood
  <2>5. ASSUME NEW s \in SizesOf(f) PROVE \E r \in SizesOf(e) : r <= s
    <3>1. CASE s \in SizesOf(e)
      <4>1. s \in Nat
        BY <3>1, <1>1 DEF SizesOf
      <4> QED BY <3>1, <4>1
    <3>2. CASE s = NextPower(n)
      <4>1. e.ht[0].size \in SizesOf(e) /\ e.ht[0].size <= s
        BY <3>2, <1>1, <1>3, <2>2, <2>3 DEF SizesOf
      <4> QED BY <4>1
    <3> QED BY <2>4, <3>1, <3>2
  <2> QED BY <2>4, <2>5
<1>4. CASE e.ht[0].size # 0 /\ ~ (e.ht[0].used >= e.ht[0].size)
  <2>1. f = e
    BY <1>4 DEF Expanded
  <2>2. \A s \in SizesOf(e) : s \in Nat
    BY <1>1 DEF SizesOf
  <2> QED BY <1>4, <2>1, <2>2 DEF SameKeys, Grown
<1> QED BY <1>2, <1>3, <1>4


-----------------------------------------------------------------------------
(* Entries added and deleted                                               *)

\* From e to f chain i of table t has changed, and nothing else a walk looks at.
OneChainChanged(e, f, t, i) ==
  /\ t \in 0..1 /\ i \in 0..e.ht[t].size - 1
  /\ f.rehashidx = e.rehashidx /\ f.iterators = e.iterators
  /\ \A u \in 0..1 : f.ht[u].size = e.ht[u].size
  /\ \A u \in 0..1 : \A j \in 0..e.ht[u].size - 1 :
       ~ (u = t /\ j = i) => f.ht[u].bucket[j] = e.ht[u].bucket[j]

\* One of the tables is replaced.
WithTable(e, t, U) == [e EXCEPT !.ht[t] = U]

\* Table t of e, o being the other one, may become U with c as its chain i.
MayBecome(e, t, o, U, i, c) ==
  /\ t \in 0..1 /\ o = 1 - t
  /\ GoodTable(U) /\ U.size = e.ht[t].size /\ i \in 0..U.size - 1
  /\ U.bucket = ChainSet(e.ht[t].bucket, i, c)
  /\ Held(U) \cap Held(e.ht[o]) = {}
  /\ t = 0 /\ IsRehashing(e) => e.rehashidx <= i

\* A table that differs in one chain takes the place of the old one.
LEMMA ChainReplaced ==
  ASSUME NEW e, GoodDict(e), NEW t, NEW o, NEW U, NEW i, NEW c, MayBecome(e, t, o, U, i, c),
         NEW f, f = WithTable(e, t, U)
  PROVE  /\ GoodDict(f) /\ HeldBy(f) = Held(U) \cup Held(e.ht[o])
         /\ OneChainChanged(e, f, t, i) /\ f.ht[t].bucket[i] = c
         /\ \A u \in 0..1 : f.ht[u].size = e.ht[u].size
<1>0. /\ t \in 0..1 /\ o = 1 - t
      /\ GoodTable(U) /\ U.size = e.ht[t].size /\ i \in 0..U.size - 1
      /\ U.bucket = ChainSet(e.ht[t].bucket, i, c)
      /\ Held(U) \cap Held(e.ht[o]) = {}
      /\ t = 0 /\ IsRehashing(e) => e.rehashidx <= i
  BY DEF MayBecome
<1>1. /\ e \in Dicts /\ U \in TableRecords /\ U.size \in Nat
      /\ \A u \in 0..1 : /\ e.ht[u] \in TableRecords /\ GoodTable(e.ht[u]) /\ e.ht[u].size \in Nat
                         /\ DOMAIN e.ht[u].bucket = 0..e.ht[u].size - 1
  BY <1>0, SizeTypes DEF GoodDict, GoodTable, GoodChains
<1>2. /\ f \in Dicts /\ f.rehashidx = e.rehashidx /\ f.iterators = e.iterators
      /\ f.ht[t] = U /\ f.ht[o] = e.ht[o]
  <2>1. f.ht = [e.ht EXCEPT ![t] = U] /\ f.rehashidx = e.rehashidx /\ f.iterators = e.iterators
    BY <1>0, <1>1 DEF Dicts, WithTable
  <2>2. f \in Dicts
    BY <1>0, <1>1 DEF Dicts, WithTable
  <2>3. e.ht \in [0..1 -> TableRecords] /\ o \in 0..1 /\ o # t
    BY <1>0, <1>1 DEF Dicts
  <2> QED BY <1>0, <2>1, <2>2, <2>3
<1>3. \A u \in 0..1 : u = t \/ u = o
  BY <1>0
<1>4. \A u \in 0..1 : f.ht[u].size = e.ht[u].size
  BY <1>0, <1>2, <1>3
<1>5. \A j \in 0..U.size - 1 : U.bucket[j] = IF j = i THEN c ELSE e.ht[t].bucket[j]
  BY <1>0, <1>1 DEF ChainSet
<1>6. OneChainChanged(e, f, t, i)
  <2>1. \A u \in 0..1 : \A j \in 0..e.ht[u].size - 1 :
          ~ (u = t /\ j = i) => f.ht[u].bucket[j] = e.ht[u].bucket[j]
    BY <1>0, <1>2, <1>3, <1>5
  <2>2. i \in 0..e.ht[t].size - 1
    BY <1>0
  <2> QED BY <1>0, <1>2, <1>4, <2>1, <2>2 DEF OneChainChanged
<1>7. (t = 0 /\ o = 1) \/ (t = 1 /\ o = 0)
  BY <1>0
<1>8. HeldBy(f) = Held(U) \cup Held(e.ht[o]) /\ Held(f.ht[0]) \cap Held(f.ht[1]) = {}
  BY <1>0, <1>2, <1>7 DEF HeldBy
<1>9. GoodTable(f.ht[0]) /\ GoodTable(f.ht[1])
  BY <1>0, <1>1, <1>2, <1>7
<1>10. GoodRehash(f)
  <2>1. GoodRehash(e)
    BY DEF GoodDict
  <2>2. CASE e.rehashidx = -1
    BY <1>2, <1>4, <2>1, <2>2 DEF GoodRehash
  <2>3. CASE e.rehashidx # -1
    <3>1. /\ e.ht[0].size # 0 /\ e.ht[1].size # 0 /\ e.rehashidx \in 0..e.ht[0].size
          /\ \A j \in 0..e.rehashidx - 1 : e.ht[0].bucket[j] = <<>>
      BY <2>1, <2>3 DEF GoodRehash
    <3>2. \A j \in 0..e.rehashidx - 1 : j \in 0..e.ht[0].size - 1 /\ ~ (0 = t /\ j = i)
      BY <3>1, <2>3, <1>0, <1>1 DEF IsRehashing
    <3>3. \A j \in 0..e.rehashidx - 1 : f.ht[0].bucket[j] = <<>>
      BY <3>1, <3>2, <1>6 DEF OneChainChanged
    <3> QED BY <3>1, <3>3, <1>2, <1>4, <2>3 DEF GoodRehash
  <2> QED BY <2>2, <2>3
<1> QED BY <1>0, <1>2, <1>4, <1>5, <1>6, <1>8, <1>9, <1>10 DEF GoodDict

\* dictAddRaw, once the table is there
LEMMA InsertGood ==
  ASSUME NEW e, GoodDict(e), e.ht[0].size # 0, NEW k \in Keys, k \notin HeldBy(e),
         NEW f, f = Insert(e, k)
  PROVE  /\ GoodDict(f) /\ HeldBy(f) = HeldBy(e) \cup {k} /\ SizesOf(f) = SizesOf(e)
         /\ \E t, i : OneChainChanged(e, f, t, i) /\ f.ht[t].bucket[i] = <<k>> \o e.ht[t].bucket[i]
<1> DEFINE t == IF IsRehashing(e) THEN 1 ELSE 0
           o == 1 - t
           T == e.ht[t]
           i == Slot(e, t, k)
           u == PutHead(k, T.bucket[i])
           n == T.used + 1
           b == ChainSet(T.bucket, i, u)
           U == WithChains(T, b, n)
<1>1. t \in 0..1 /\ T.size # 0 /\ (t = 0 /\ IsRehashing(e) => FALSE)
  BY DEF GoodDict, GoodRehash, IsRehashing
<1>2. f = WithTable(e, t, U)
  BY Zenon DEF Insert, WithTable, WithChains, ChainSet, PutHead
<1> HIDE DEF t
<1>3. T \in TableRecords /\ GoodTable(T) /\ n \in Int /\ Held(e.ht[o]) \cap Held(T) = {}
  <2>1. T \in TableRecords /\ GoodTable(T) /\ T.used \in Int
    BY <1>1, SizeTypes
  <2>2. (t = 0 /\ o = 1) \/ (t = 1 /\ o = 0)
    BY <1>1
  <2> QED BY <2>1, <2>2 DEF GoodDict
<1>4. i = Hash[k] % T.size /\ i \in 0..T.size - 1
  BY <1>1, <1>3, PlaceInTable DEF Slot, GoodTable
<1>5. k \notin Held(T) /\ k \notin Held(e.ht[o]) /\ Held(e.ht[o]) \cup Held(T) = HeldBy(e)
  <2>1. (t = 0 /\ o = 1) \/ (t = 1 /\ o = 0)
    BY <1>1
  <2> QED BY <2>1 DEF HeldBy
<1> DEFINE c == T.bucket[i]
<1>6. c \in Seq(Keys) /\ u \in Seq(Keys)
  <2>1. c \in Seq(Keys)
    BY <1>3, <1>4 DEF GoodTable, GoodChains, GoodChain
  <2> HIDE DEF c
  <2> QED BY <2>1, PutFirst DEF c, PutHead
<1>7. b \in [0..T.size - 1 -> Seq(Keys)]
  <2> HIDE DEF u
  <2> QED BY <1>3, <1>6 DEF GoodTable, GoodChains, ChainSet
<1>8. b = ChainSet(T.bucket, i, u) /\ u = PutHead(k, T.bucket[i])
  OBVIOUS
<1>9. n = T.used + 1 /\ k \in Keys
  OBVIOUS
<1> HIDE DEF T, b, n, i, u
<1>10. U = WithChains(T, b, n)
  BY Zenon
<1> HIDE DEF U
<1>0. t \in 0..1 /\ o = 1 - t
  BY <1>1
<1> HIDE DEF o
<1>11. U \in TableRecords /\ U.size = T.size /\ U.used = n /\ U.bucket = b
  BY ONLY <1>3, <1>7, <1>10, TableChanges
<1>12. GoodTable(U) /\ Held(U) = Held(T) \cup {k}
  BY ONLY <1>1, <1>3, <1>4, <1>5, <1>8, <1>9, <1>11, InsertedTable
<1>13. b = ChainSet(e.ht[t].bucket, i, u)
  BY <1>8 DEF T
<1>14. e.ht[t] = T /\ GoodDict(e)
  BY DEF T
<1> HIDE DEF u
<1>15. Held(U) \cap Held(e.ht[o]) = {}
  BY ONLY <1>3, <1>5, <1>12
<1>16. t = 0 /\ IsRehashing(e) => e.rehashidx <= i
  BY ONLY <1>1
<1>17. /\ GoodDict(f) /\ HeldBy(f) = Held(U) \cup Held(e.ht[o])
       /\ OneChainChanged(e, f, t, i) /\ f.ht[t].bucket[i] = u
       /\ \A j \in 0..1 : f.ht[j].size = e.ht[j].size
  <2>1. MayBecome(e, t, o, U, i, u)
    BY <1>0, <1>4, <1>11, <1>12, <1>13, <1>14, <1>15, <1>16 DEF MayBecome
  <2> QED BY ONLY <2>1, <1>2, <1>14, ChainReplaced
<1>18. HeldBy(f) = HeldBy(e) \cup {k}
  BY ONLY <1>5, <1>12, <1>17
<1>19. SizesOf(f) = SizesOf(e)
  BY <1>17 DEF SizesOf
<1> QED BY <1>17, <1>18, <1>19 DEF u, T, c, PutHead

\* dictGenericDelete, once the key is found
LEMMA UnlinkGood ==
  ASSUME NEW e, GoodDict(e), NEW k \in Keys, k \in HeldBy(e), NEW f, f = Unlink(e, k)
  PROVE  /\ GoodDict(f) /\ HeldBy(f) = HeldBy(e) \ {k} /\ SizesOf(f) = SizesOf(e)
         /\ \E t, i : /\ OneChainChanged(e, f, t, i)
                      /\ \E p \in 1..Len(e.ht[t].bucket[i]) :
                           /\ e.ht[t].bucket[i][p] = k
                           /\ Without(e.ht[t].bucket[i], p, f.ht[t].bucket[i])
<1> DEFINE S == {u \in Tables(e) : HasKey(e, u, k)}
           t == Min(S)
           o == 1 - t
           T == e.ht[t]
           i == Slot(e, t, k)
           w == RemoveFirst(T.bucket[i], k)
           n == T.used - 1
           b == ChainSet(T.bucket, i, w)
           U == WithChains(T, b, n)
<1>1. t \in S
  <2>1. S \in SUBSET Nat
    BY DEF Tables
  <2>2. S # {}
    BY LookupHeld DEF Lookup
  <2> HIDE DEF S
  <2> QED BY <2>1, <2>2, MinIsLeast
<1>2. t \in 0..1 /\ HasKey(e, t, k)
  BY <1>1 DEF Tables
<1>3. f = WithTable(e, t, U)
  BY Zenon DEF Unlink, WithTable, WithChains, ChainSet
<1> HIDE DEF S, t
<1>4. (t = 0 /\ o = 1) \/ (t = 1 /\ o = 0)
  BY <1>2
<1>5. T \in TableRecords /\ GoodTable(T) /\ n \in Int /\ Held(e.ht[o]) \cap Held(T) = {}
  <2>1. T \in TableRecords /\ GoodTable(T) /\ T.used \in Int
    BY <1>2, SizeTypes
  <2> QED BY <2>1, <1>4 DEF GoodDict
<1>6. k \in Held(T)
  BY <1>2, HasKeyHeld
<1>7. T.size # 0 /\ k \in ToSet(T.bucket[i])
  BY <1>2 DEF HasKey, Chain
<1>8. i = Hash[k] % T.size /\ i \in 0..T.size - 1
  BY <1>5, <1>7, PlaceInTable DEF Slot, GoodTable
<1>9. Held(e.ht[o]) \cup Held(T) = HeldBy(e)
  BY <1>4 DEF HeldBy
<1> DEFINE c == T.bucket[i]
<1>10. c \in Seq(Keys) /\ w \in Seq(Keys)
  <2>1. c \in Seq(Keys) /\ Distinct(c) /\ k \in ToSet(c)
    BY <1>5, <1>7, <1>8 DEF GoodTable, GoodChains, GoodChain
  <2>2. w = RemoveFirst(c, k)
    OBVIOUS
  <2> HIDE DEF c, w
  <2>3. PICK p \in 1..Len(c) : c[p] = k
    BY <2>1, ChainFacts
  <2> QED BY <2>1, <2>2, <2>3, TakenOut DEF Without
<1>11. b \in [0..T.size - 1 -> Seq(Keys)]
  <2> HIDE DEF w
  <2> QED BY <1>5, <1>10 DEF GoodTable, GoodChains, ChainSet
<1>12. b = ChainSet(T.bucket, i, w) /\ w = RemoveFirst(T.bucket[i], k)
  OBVIOUS
<1>13. n = T.used - 1 /\ k \in Keys
  OBVIOUS
<1> HIDE DEF T, b, n, i, w
<1>14. U = WithChains(T, b, n)
  BY Zenon
<1> HIDE DEF U
<1>0. t \in 0..1 /\ o = 1 - t
  BY <1>2
<1> HIDE DEF o
<1>15. U \in TableRecords /\ U.size = T.size /\ U.used = n /\ U.bucket = b
  BY ONLY <1>5, <1>11, <1>14, TableChanges
<1>16. /\ GoodTable(U) /\ Held(U) = Held(T) \ {k}
       /\ \E p \in 1..Len(T.bucket[i]) : T.bucket[i][p] = k /\ Without(T.bucket[i], p, U.bucket[i])
  <2>1. GoodTable(T) /\ i = Hash[k] % T.size
    BY <1>5, <1>8
  <2>2. /\ U \in TableRecords /\ U.size = T.size /\ U.used = n /\ U.bucket = ChainSet(T.bucket, i, w)
        /\ w = RemoveFirst(T.bucket[i], k) /\ n = T.used - 1
    BY ONLY <1>12, <1>13, <1>15
  <2> QED BY ONLY <2>1, <2>2, <1>6, UnlinkedTable
<1>17. e.ht[t] = T /\ GoodDict(e)
  BY DEF T
<1> HIDE DEF w
<1>18. Held(U) \cap Held(e.ht[o]) = {}
  BY ONLY <1>5, <1>16
<1>19. t = 0 /\ IsRehashing(e) => e.rehashidx <= i
  <2>1. T.bucket[i] # <<>>
    BY <1>16 DEF Without
  <2>2. ASSUME t = 0, IsRehashing(e), ~ (e.rehashidx <= i) PROVE FALSE
    <3>1. e.rehashidx \in Nat /\ \A j \in 0..e.rehashidx - 1 : T.bucket[j] = <<>>
      BY <2>2, <1>17, SizeTypes DEF GoodDict, GoodRehash, IsRehashing
    <3>2. i \in 0..e.rehashidx - 1
      BY <3>1, <2>2, <1>8, <1>17, SizeTypes, <1>2
    <3> QED BY <2>1, <3>1, <3>2
  <2> QED BY <2>2
<1>20. /\ GoodDict(f) /\ HeldBy(f) = Held(U) \cup Held(e.ht[o])
       /\ OneChainChanged(e, f, t, i)
       /\ \A j \in 0..1 : f.ht[j].size = e.ht[j].size
  <2>1. MayBecome(e, t, o, U, i, w)
    BY <1>0, <1>8, <1>12, <1>15, <1>16, <1>17, <1>18, <1>19 DEF MayBecome
  <2> QED BY ONLY <2>1, <1>3, <1>17, ChainReplaced
<1>21. f.ht[t].bucket = U.bucket
  <2>1. e \in Dicts
    BY DEF GoodDict
  <2>2. f.ht[t] = U
    BY <2>1, <1>2, <1>3 DEF WithTable, Dicts
  <2> QED BY <2>2
<1>22. k \notin Held(e.ht[o])
  BY ONLY <1>5, <1>6
<1>23. HeldBy(f) = HeldBy(e) \ {k}
  BY ONLY <1>9, <1>16, <1>20, <1>22
<1>24. SizesOf(f) = SizesOf(e)
  BY <1>20 DEF SizesOf
<1> QED BY <1>16, <1>17, <1>20, <1>21, <1>23, <1>24


-----------------------------------------------------------------------------
(* The walk of a safe iterator                                             *)

\* y is in chain c and not before x.
Follows(c, x, y) == \E a, b \in 1..Len(c) : a <= b /\ c[a] = x /\ c[b] = y

\* Chain c has become v and only key k came or went.
OrderKept(c, v, k) == \A x, y : x # k /\ y # k => (Follows(c, x, y) <=> Follows(v, x, y))

\* An entry is met from its own place on.
LEMMA FollowsItself ==
  ASSUME NEW c \in Seq(Keys), NEW x
  PROVE  Follows(c, x, x) <=> x \in ToSet(c)
<1>1. Len(c) \in Nat
  BY ChainFacts
<1>2. ASSUME x \in ToSet(c) PROVE Follows(c, x, x)
  <2>1. PICK a \in 1..Len(c) : c[a] = x
    BY <1>2, ChainFacts
  <2> QED BY <2>1, <1>1 DEF Follows
<1>3. ASSUME Follows(c, x, x) PROVE x \in ToSet(c)
  BY <1>3, ChainFacts DEF Follows
<1> QED BY <1>2, <1>3

\* A new head and a removal leave the order of the others.
LEMMA PutKeepsOrder ==
  ASSUME NEW c \in Seq(Keys), NEW k \in Keys
  PROVE  OrderKept(c, PutHead(k, c), k)
<1> DEFINE v == PutHead(k, c)
<1>1. Len(c) \in Nat /\ Len(v) = Len(c) + 1 /\ v[1] = k /\ \A i \in 1..Len(c) : v[i + 1] = c[i]
  BY ChainFacts, PutFirst DEF PutHead
<1> HIDE DEF v
<1>2. ASSUME NEW x, NEW y, x # k, y # k, Follows(c, x, y)
      PROVE  Follows(v, x, y)
  <2>1. PICK a \in 1..Len(c), b \in 1..Len(c) : a <= b /\ c[a] = x /\ c[b] = y
    BY <1>2 DEF Follows
  <2>2. a + 1 \in 1..Len(v) /\ b + 1 \in 1..Len(v) /\ a + 1 <= b + 1
    BY <1>1, <2>1
  <2>3. v[a + 1] = x /\ v[b + 1] = y
    BY <1>1, <2>1
  <2> QED BY <2>2, <2>3 DEF Follows
<1>3. ASSUME NEW x, NEW y, x # k, y # k, Follows(v, x, y)
      PROVE  Follows(c, x, y)
  <2>1. PICK a \in 1..Len(v), b \in 1..Len(v) : a <= b /\ v[a] = x /\ v[b] = y
    BY <1>3 DEF Follows
  <2>2. a # 1 /\ b # 1
    BY <1>1, <1>3, <2>1
  <2>3. a - 1 \in 1..Len(c) /\ b - 1 \in 1..Len(c) /\ a - 1 <= b - 1 /\ (a - 1) + 1 = a /\ (b - 1) + 1 = b
    BY <1>1, <2>1, <2>2
  <2>4. c[a - 1] = x /\ c[b - 1] = y
    BY <1>1, <2>1, <2>3
  <2> QED BY <2>3, <2>4 DEF Follows
<1> QED BY <1>2, <1>3 DEF OrderKept, v

LEMMA WithoutKeepsOrder ==
  ASSUME NEW c \in Seq(Keys), NEW p \in 1..Len(c), NEW v, Without(c, p, v)
  PROVE  OrderKept(c, v, c[p])
<1>1. Len(c) \in Nat /\ Len(v) = Len(c) - 1 /\ \A i \in 1..Len(v) : v[i] = IF i < p THEN c[i] ELSE c[i + 1]
  BY ChainFacts DEF Without
<1>2. \A a \in 1..Len(c) : c[a] # c[p] =>
        \E i \in 1..Len(v) : v[i] = c[a] /\ ((a < p /\ i = a) \/ (a > p /\ i = a - 1))
  <2> SUFFICES ASSUME NEW a \in 1..Len(c), c[a] # c[p]
               PROVE  \E i \in 1..Len(v) : v[i] = c[a] /\ ((a < p /\ i = a) \/ (a > p /\ i = a - 1))
    OBVIOUS
  <2>1. a # p
    OBVIOUS
  <2>2. CASE a < p
    <3>1. a \in 1..Len(v) /\ v[a] = c[a]
      BY <1>1, <2>2
    <3> QED BY <2>2, <3>1
  <2>3. CASE a > p
    <3>1. a - 1 \in 1..Len(v) /\ ~ (a - 1 < p) /\ (a - 1) + 1 = a
      BY <1>1, <2>3
    <3>2. v[a - 1] = c[a]
      BY <1>1, <3>1
    <3> QED BY <2>3, <3>1, <3>2
  <2> QED BY <2>1, <2>2, <2>3
<1>3. \A i \in 1..Len(v) :
        \E a \in 1..Len(c) : v[i] = c[a] /\ ((i < p /\ a = i) \/ (i >= p /\ a = i + 1))
  <2> TAKE i \in 1..Len(v)
  <2>1. CASE i < p
    <3>1. i \in 1..Len(c) /\ v[i] = c[i]
      BY <1>1, <2>1
    <3> QED BY <2>1, <3>1
  <2>2. CASE i >= p
    <3>1. i + 1 \in 1..Len(c) /\ v[i] = c[i + 1]
      BY <1>1, <2>2
    <3> QED BY <2>2, <3>1
  <2> QED BY <2>1, <2>2, <1>1
<1>4. ASSUME NEW x, NEW y, x # c[p], y # c[p], Follows(c, x, y)
      PROVE  Follows(v, x, y)
  <2>1. PICK a \in 1..Len(c), b \in 1..Len(c) : a <= b /\ c[a] = x /\ c[b] = y
    BY <1>4 DEF Follows
  <2>2. PICK i \in 1..Len(v) : v[i] = x /\ ((a < p /\ i = a) \/ (a > p /\ i = a - 1))
    BY <1>2, <1>4, <2>1
  <2>3. PICK j \in 1..Len(v) : v[j] = y /\ ((b < p /\ j = b) \/ (b > p /\ j = b - 1))
    BY <1>2, <1>4, <2>1
  <2>4. i <= j
    BY <2>1, <2>2, <2>3, <1>1
  <2> QED BY <2>2, <2>3, <2>4 DEF Follows
<1>5. ASSUME NEW x, NEW y, x # c[p], y # c[p], Follows(v, x, y)
      PROVE  Follows(c, x, y)
  <2>1. PICK i \in 1..Len(v), j \in 1..Len(v) : i <= j /\ v[i] = x /\ v[j] = y
    BY <1>5 DEF Follows
  <2>2. PICK a \in 1..Len(c) : v[i] = c[a] /\ ((i < p /\ a = i) \/ (i >= p /\ a = i + 1))
    BY <1>3
  <2>3. PICK b \in 1..Len(c) : v[j] = c[b] /\ ((j < p /\ b = j) \/ (j >= p /\ b = j + 1))
    BY <1>3
  <2>4. a <= b
    BY <2>1, <2>2, <2>3, <1>1
  <2> QED BY <2>1, <2>2, <2>3, <2>4 DEF Follows
<1> QED BY <1>4, <1>5 DEF OrderKept

\* The keys that an iterator at bucket i of table t with n next still has to return.
AheadAt(e, t, i) ==
  {<<t, j>> : j \in i + 1..e.ht[t].size - 1}
    \cup {<<1, j>> : j \in IF IsRehashing(e) /\ t = 0 THEN 0..e.ht[1].size - 1 ELSE {}}

\* The key is in one of these buckets.
InBuckets(e, A, k) == \E a \in A : Follows(Chain(e, a[1], a[2]), k, k)

\* The key is met from the next entry n on, or in a bucket that is ahead.
Due(e, t, i, n, k) ==
  \/ InBuckets(e, AheadAt(e, t, i), k)
  \/ n # NoKey /\ Follows(Chain(e, t, i), n, k)

\* The iterator is at a bucket.
AtBucket(e, t, i) == t \in 0..1 /\ i \in 0..e.ht[t].size - 1 /\ (t = 1 => IsRehashing(e))

\* The chains of a good dict
LEMMA ChainGood ==
  ASSUME NEW e, GoodDict(e), NEW t \in 0..1, NEW i \in 0..e.ht[t].size - 1
  PROVE  /\ Chain(e, t, i) \in Seq(Keys) /\ Distinct(Chain(e, t, i))
         /\ \A k \in ToSet(Chain(e, t, i)) : k \in Keys /\ Slot(e, t, k) = i /\ k \in Held(e.ht[t])
<1>1. GoodTable(e.ht[t])
  BY SizeTypes
<1> DEFINE c == e.ht[t].bucket[i]
<1>2. c \in Seq(Keys) /\ Distinct(c) /\ \A k \in ToSet(c) : Hash[k] % e.ht[t].size = i
  BY <1>1 DEF GoodTable, GoodChains, GoodChain
<1>3. \A k \in ToSet(c) : k \in Held(e.ht[t])
  BY <1>1, HeldInChain DEF GoodTable
<1>4. \A k \in ToSet(c) : k \in Keys
  BY <1>3 DEF Held
<1> QED BY <1>2, <1>3, <1>4 DEF Chain, Slot

\* The buckets that are ahead are buckets.
LEMMA AheadBuckets ==
  ASSUME NEW e, GoodDict(e), NEW t \in 0..1, NEW i \in Int, i >= -1
  PROVE  \A a \in AheadAt(e, t, i) :
           /\ a = <<a[1], a[2]>> /\ a[1] \in 0..1 /\ a[2] \in 0..e.ht[a[1]].size - 1
           /\ (a[1] = t /\ i < a[2]) \/ (a[1] = 1 /\ t = 0 /\ IsRehashing(e))
           /\ Chain(e, a[1], a[2]) \in Seq(Keys)
<1> TAKE a \in AheadAt(e, t, i)
<1>1. \A u \in 0..1 : e.ht[u].size \in Nat
  BY SizeTypes
<1>2. /\ a = <<a[1], a[2]>> /\ a[1] \in 0..1 /\ a[2] \in 0..e.ht[a[1]].size - 1
      /\ (a[1] = t /\ i < a[2]) \/ (a[1] = 1 /\ t = 0 /\ IsRehashing(e))
  <2>1. CASE \E j \in i + 1..e.ht[t].size - 1 : a = <<t, j>>
    BY <2>1, <1>1
  <2>2. CASE IsRehashing(e) /\ t = 0 /\ \E j \in 0..e.ht[1].size - 1 : a = <<1, j>>
    BY <2>2, <1>1
  <2> QED BY <2>1, <2>2 DEF AheadAt
<1> QED BY <1>2, ChainGood

\* No key is in two places.
LEMMA OnePlace ==
  ASSUME NEW e, GoodDict(e),
         NEW t \in 0..1, NEW i \in 0..e.ht[t].size - 1, NEW u \in 0..1, NEW j \in 0..e.ht[u].size - 1,
         NEW k, k \in ToSet(Chain(e, t, i)), k \in ToSet(Chain(e, u, j))
  PROVE  t = u /\ i = j
<1>1. Slot(e, t, k) = i /\ k \in Held(e.ht[t]) /\ Slot(e, u, k) = j /\ k \in Held(e.ht[u])
  BY ChainGood
<1>2. t = u
  <2>1. (t = 0 \/ t = 1) /\ (u = 0 \/ u = 1) /\ Held(e.ht[0]) \cap Held(e.ht[1]) = {}
    BY DEF GoodDict
  <2> QED BY <1>1, <2>1
<1> QED BY <1>1, <1>2

\* What is due is in the dict.
LEMMA DueIsHeld ==
  ASSUME NEW e, GoodDict(e), NEW t \in 0..1, NEW i \in Int, i >= -1, NEW n, NEW k, Due(e, t, i, n, k),
         n # NoKey => AtBucket(e, t, i)
  PROVE  k \in HeldBy(e)
<1>1. \A u \in 0..1 : \A j \in 0..e.ht[u].size - 1 : k \in ToSet(Chain(e, u, j)) => k \in HeldBy(e)
  <2> TAKE u \in 0..1
  <2> TAKE j \in 0..e.ht[u].size - 1
  <2>1. k \in ToSet(Chain(e, u, j)) => k \in Held(e.ht[u])
    BY ChainGood
  <2>2. u = 0 \/ u = 1
    OBVIOUS
  <2> QED BY <2>1, <2>2 DEF HeldBy
<1>2. CASE InBuckets(e, AheadAt(e, t, i), k)
  <2>1. PICK a \in AheadAt(e, t, i) : Follows(Chain(e, a[1], a[2]), k, k)
    BY <1>2 DEF InBuckets
  <2>2. a[1] \in 0..1 /\ a[2] \in 0..e.ht[a[1]].size - 1 /\ Chain(e, a[1], a[2]) \in Seq(Keys)
    BY AheadBuckets
  <2>3. k \in ToSet(Chain(e, a[1], a[2]))
    BY <2>1, <2>2, FollowsItself
  <2> QED BY <1>1, <2>2, <2>3
<1>3. CASE n # NoKey /\ Follows(Chain(e, t, i), n, k)
  <2>1. i \in 0..e.ht[t].size - 1
    BY <1>3 DEF AtBucket
  <2>2. Chain(e, t, i) \in Seq(Keys)
    BY <2>1, ChainGood
  <2>3. k \in ToSet(Chain(e, t, i))
    BY <2>2, <1>3, ChainFacts DEF Follows
  <2> QED BY <1>1, <2>1, <2>3
<1> QED BY <1>2, <1>3 DEF Due


\* Nothing is met in an empty chain.
LEMMA NothingFollows ==
  ASSUME NEW x, NEW y
  PROVE  ~ Follows(<<>>, x, y)
<1>1. Len(<<>>) = 0
  BY EmptySeq
<1> QED BY <1>1 DEF Follows

\* An expansion changes nothing of what is due.
LEMMA GrownDue ==
  ASSUME NEW e, GoodDict(e), NEW f, GoodDict(f), Grown(e, f), NEW t, NEW i, AtBucket(e, t, i)
  PROVE  /\ AtBucket(f, t, i) /\ Chain(f, t, i) = Chain(e, t, i)
         /\ \A n, k : Due(f, t, i, n, k) <=> Due(e, t, i, n, k)
<1>1. CASE f = e
  BY <1>1
<1>2. CASE f # e
  <2>1. /\ t = 0 /\ f.ht[0] = e.ht[0] /\ ~ IsRehashing(e)
        /\ \A j \in 0..f.ht[1].size - 1 : f.ht[1].bucket[j] = <<>>
    BY <1>2 DEF Grown, AtBucket
  <2>2. AtBucket(f, t, i)
    BY <2>1 DEF AtBucket
  <2>3. \A j : Chain(f, 0, j) = Chain(e, 0, j)
    BY <2>1 DEF Chain
  <2>4. ASSUME NEW k, InBuckets(f, AheadAt(f, t, i), k)
        PROVE  InBuckets(e, AheadAt(e, t, i), k)
    <3>1. PICK a \in AheadAt(f, t, i) : Follows(Chain(f, a[1], a[2]), k, k)
      BY <2>4 DEF InBuckets
    <3>2. CASE \E j \in i + 1..f.ht[0].size - 1 : a = <<0, j>>
      <4>1. a \in AheadAt(e, t, i)
        BY <3>2, <2>1 DEF AheadAt
      <4>2. a[1] = 0
        BY <3>2
      <4> QED BY <4>1, <4>2, <3>1, <2>3 DEF InBuckets
    <3>3. CASE \E j \in 0..f.ht[1].size - 1 : a = <<1, j>>
      <4>1. Chain(f, a[1], a[2]) = <<>>
        BY <3>3, <2>1 DEF Chain
      <4> QED BY <4>1, <3>1, NothingFollows
    <3> QED BY <3>2, <3>3, <2>1 DEF AheadAt
  <2>5. ASSUME NEW k, InBuckets(e, AheadAt(e, t, i), k)
        PROVE  InBuckets(f, AheadAt(f, t, i), k)
    <3>1. PICK a \in AheadAt(e, t, i) : Follows(Chain(e, a[1], a[2]), k, k)
      BY <2>5 DEF InBuckets
    <3>2. PICK j \in i + 1..e.ht[0].size - 1 : a = <<0, j>>
      BY <2>1 DEF AheadAt
    <3>3. a \in AheadAt(f, t, i) /\ a[1] = 0
      BY <3>2, <2>1 DEF AheadAt
    <3> QED BY <3>1, <3>3, <2>3 DEF InBuckets
  <2> QED BY <2>1, <2>2, <2>3, <2>4, <2>5 DEF Due
<1> QED BY <1>1, <1>2

\* A change of one chain at k changes nothing of what else is due.
LEMMA ChangedDue ==
  ASSUME NEW e, GoodDict(e), NEW f, NEW u, NEW j, OneChainChanged(e, f, u, j), NEW k,
         OrderKept(Chain(e, u, j), Chain(f, u, j), k),
         NEW t, NEW i, AtBucket(e, t, i), NEW n, n # k
  PROVE  /\ AtBucket(f, t, i)
         /\ \A x : x # k => (Due(f, t, i, n, x) <=> Due(e, t, i, n, x))
         /\ Follows(Chain(f, t, i), n, n) <=> Follows(Chain(e, t, i), n, n)
<1>1. /\ u \in 0..1 /\ j \in 0..e.ht[u].size - 1 /\ (IsRehashing(f) <=> IsRehashing(e))
      /\ \A v \in 0..1 : f.ht[v].size = e.ht[v].size
      /\ \A v \in 0..1 : \A m \in 0..e.ht[v].size - 1 :
           ~ (v = u /\ m = j) => Chain(f, v, m) = Chain(e, v, m)
  BY DEF OneChainChanged, IsRehashing, Chain
<1>2. t \in 0..1 /\ i \in 0..e.ht[t].size - 1 /\ (t = 1 => IsRehashing(e)) /\ AtBucket(f, t, i)
  BY <1>1 DEF AtBucket
<1>3. AheadAt(f, t, i) = AheadAt(e, t, i)
  <2>1. f.ht[t].size = e.ht[t].size /\ f.ht[1].size = e.ht[1].size
    BY <1>1, <1>2
  <2>2. (IF IsRehashing(f) /\ t = 0 THEN 0..f.ht[1].size - 1 ELSE {})
          = (IF IsRehashing(e) /\ t = 0 THEN 0..e.ht[1].size - 1 ELSE {})
    <3>1. IsRehashing(f) <=> IsRehashing(e)
      BY <1>1
    <3> QED BY ONLY <2>1, <3>1, Zenon
  <2> QED BY <2>1, <2>2, Zenon DEF AheadAt
<1>4. ASSUME NEW v \in 0..1, NEW m \in 0..e.ht[v].size - 1, NEW x, x # k, NEW y, y # k
      PROVE  Follows(Chain(f, v, m), y, x) <=> Follows(Chain(e, v, m), y, x)
  <2>1. CASE v = u /\ m = j
    BY <1>4, <2>1 DEF OrderKept
  <2>2. CASE ~ (v = u /\ m = j)
    BY <1>1, <2>2
  <2> QED BY <2>1, <2>2
<1>5. i \in Int /\ i >= -1
  BY <1>2, SizeTypes
<1>6. \A a \in AheadAt(e, t, i) : a[1] \in 0..1 /\ a[2] \in 0..e.ht[a[1]].size - 1
  BY <1>2, <1>5, AheadBuckets
<1>7. ASSUME NEW x, x # k
      PROVE  Due(f, t, i, n, x) <=> Due(e, t, i, n, x)
  <2>1. InBuckets(f, AheadAt(f, t, i), x) <=> InBuckets(e, AheadAt(e, t, i), x)
    BY <1>3, <1>4, <1>6, <1>7 DEF InBuckets
  <2>2. Follows(Chain(f, t, i), n, x) <=> Follows(Chain(e, t, i), n, x)
    BY <1>2, <1>4, <1>7
  <2> QED BY <2>1, <2>2 DEF Due
<1>8. Follows(Chain(f, t, i), n, n) <=> Follows(Chain(e, t, i), n, n)
  BY <1>2, <1>4
<1> QED BY <1>2, <1>7, <1>8

\* The entry at a is returned and the next of its chain saved.
NextAfter(c, a) == IF a < Len(c) THEN c[a + 1] ELSE NoKey

\* The entry that is returned was due and is no longer; nothing else changes.
LEMMA Returned ==
  ASSUME NEW e, GoodDict(e), NEW t, NEW i, AtBucket(e, t, i), NEW c, c = Chain(e, t, i),
         NEW a \in 1..Len(c), NEW k, k = c[a], NEW n, n = NextAfter(c, a)
  PROVE  /\ k \in Keys /\ k \in HeldBy(e) /\ n # k
         /\ n # NoKey => n \in ToSet(c)
         /\ Due(e, t, i, k, k) /\ ~ Due(e, t, i, n, k)
         /\ \A x : x # k => (Due(e, t, i, n, x) <=> Due(e, t, i, k, x))
<1>1. t \in 0..1 /\ i \in 0..e.ht[t].size - 1
  BY DEF AtBucket
<1>2. c \in Seq(Keys) /\ Distinct(c) /\ i \in Int /\ i >= -1
  BY <1>1, ChainGood, SizeTypes
<1>3. Len(c) \in Nat /\ k \in ToSet(c) /\ k \in Keys /\ k # NoKey
  BY <1>2, ChainFacts, DictAssumption
<1>4. n # k /\ (n # NoKey => n \in ToSet(c) /\ a + 1 \in 1..Len(c) /\ n = c[a + 1])
  <2>1. CASE a < Len(c)
    <3>1. a + 1 \in 1..Len(c) /\ n = c[a + 1]
      BY <2>1, <1>3 DEF NextAfter
    <3>2. n \in ToSet(c)
      BY <3>1, <1>2, ChainFacts
    <3>3. n # k
      BY <3>1, <1>2 DEF Distinct
    <3> QED BY <3>1, <3>2, <3>3
  <2>2. CASE ~ (a < Len(c))
    BY <2>2, <1>3 DEF NextAfter
  <2> QED BY <2>1, <2>2
<1>5. Due(e, t, i, k, k)
  <2>1. Follows(c, k, k)
    BY <1>2, <1>3, FollowsItself
  <2> QED BY <1>3, <2>1 DEF Due
<1>6. ~ InBuckets(e, AheadAt(e, t, i), k)
  <2>1. SUFFICES ASSUME NEW b \in AheadAt(e, t, i), Follows(Chain(e, b[1], b[2]), k, k)
                 PROVE  FALSE
    BY DEF InBuckets
  <2>2. /\ b[1] \in 0..1 /\ b[2] \in 0..e.ht[b[1]].size - 1 /\ Chain(e, b[1], b[2]) \in Seq(Keys)
        /\ (b[1] = t /\ i < b[2]) \/ (b[1] = 1 /\ t = 0 /\ IsRehashing(e))
    BY <1>1, <1>2, AheadBuckets
  <2>3. k \in ToSet(Chain(e, b[1], b[2]))
    BY <2>1, <2>2, FollowsItself
  <2>4. b[1] = t /\ b[2] = i
    BY <1>1, <1>3, <2>2, <2>3, OnePlace
  <2> QED BY <2>2, <2>4, <1>2
<1>7. n # NoKey => ~ Follows(c, n, k)
  <2>1. SUFFICES ASSUME n # NoKey, NEW x \in 1..Len(c), NEW y \in 1..Len(c), x <= y, c[x] = n, c[y] = k
                 PROVE  FALSE
    BY DEF Follows
  <2>2. y = a /\ x = a + 1
    BY <2>1, <1>2, <1>4 DEF Distinct
  <2> QED BY <2>1, <2>2
<1>8. ASSUME NEW x, x # k
      PROVE  (n # NoKey /\ Follows(c, n, x)) <=> Follows(c, k, x)
  <2>1. ASSUME n # NoKey, Follows(c, n, x) PROVE Follows(c, k, x)
    <3>1. PICK y \in 1..Len(c), z \in 1..Len(c) : y <= z /\ c[y] = n /\ c[z] = x
      BY <2>1 DEF Follows
    <3>2. y = a + 1
      BY <3>1, <2>1, <1>2, <1>4 DEF Distinct
    <3>3. a <= z
      BY <3>1, <3>2
    <3> QED BY <3>1, <3>3 DEF Follows
  <2>2. ASSUME Follows(c, k, x) PROVE n # NoKey /\ Follows(c, n, x)
    <3>1. PICK y \in 1..Len(c), z \in 1..Len(c) : y <= z /\ c[y] = k /\ c[z] = x
      BY <2>2 DEF Follows
    <3>2. y = a /\ z # a
      BY <3>1, <1>2, <1>8 DEF Distinct
    <3>3. a < Len(c) /\ a + 1 \in 1..Len(c) /\ a + 1 <= z
      BY <3>1, <3>2, <1>3
    <3>4. n = c[a + 1] /\ n \in Keys
      BY <3>3, <1>2, ChainFacts DEF NextAfter
    <3> QED BY <3>1, <3>3, <3>4, DictAssumption DEF Follows
  <2> QED BY <2>1, <2>2
<1>9. k \in HeldBy(e)
  BY <1>1, <1>2, <1>5, DueIsHeld
<1> QED BY <1>3, <1>4, <1>5, <1>6, <1>7, <1>8, <1>9 DEF Due

\* Going on to the next bucket that is not empty passes over nothing.
LEMMA Entered ==
  ASSUME NEW e, GoodDict(e), NEW t \in 0..1, NEW i \in Int, i >= -1, t = 1 => IsRehashing(e),
         NEW a \in AheadAt(e, t, i), Chain(e, a[1], a[2]) # <<>>,
         \A b \in AheadAt(e, t, i) : Earlier(b, a) => Chain(e, b[1], b[2]) = <<>>
  PROVE  /\ AtBucket(e, a[1], a[2]) /\ Chain(e, a[1], a[2]) \in Seq(Keys)
         /\ 1 \in 1..Len(Chain(e, a[1], a[2]))
         /\ \A x : Due(e, t, i, NoKey, x) <=> Due(e, a[1], a[2], Chain(e, a[1], a[2])[1], x)
<1> DEFINE c == Chain(e, a[1], a[2])
<1>1. \A u \in 0..1 : e.ht[u].size \in Nat
  BY SizeTypes
<1>2. \A b \in AheadAt(e, t, i) :
        /\ b = <<b[1], b[2]>> /\ b[1] \in 0..1 /\ b[2] \in 0..e.ht[b[1]].size - 1
        /\ (b[1] = t /\ i < b[2]) \/ (b[1] = 1 /\ t = 0 /\ IsRehashing(e))
        /\ Chain(e, b[1], b[2]) \in Seq(Keys)
  BY AheadBuckets
<1>3. AtBucket(e, a[1], a[2])
  BY <1>2 DEF AtBucket
<1>4. c \in Seq(Keys) /\ Len(c) \in Nat /\ 1 \in 1..Len(c)
  <2>1. c \in Seq(Keys) /\ c # <<>>
    BY <1>2
  <2> HIDE DEF c
  <2>2. Len(c) \in Nat /\ Len(c) # 0
    BY <2>1, ChainFacts
  <2> QED BY <2>1, <2>2
<1>5. c[1] \in Keys /\ c[1] # NoKey
  <2> HIDE DEF c
  <2> QED BY <1>4, ChainFacts, DictAssumption
<1>6. \A x : Follows(c, c[1], x) <=> Follows(c, x, x)
  <2> HIDE DEF c
  <2>1. ASSUME NEW x, Follows(c, c[1], x) PROVE Follows(c, x, x)
    BY <2>1, <1>4 DEF Follows
  <2>2. ASSUME NEW x, Follows(c, x, x) PROVE Follows(c, c[1], x)
    BY <2>2, <1>4 DEF Follows
  <2> QED BY <2>1, <2>2
<1>7. AheadAt(e, a[1], a[2]) \subseteq AheadAt(e, t, i)
  <2> SUFFICES ASSUME NEW b \in AheadAt(e, a[1], a[2]) PROVE b \in AheadAt(e, t, i)
    OBVIOUS
  <2>1. /\ b = <<b[1], b[2]>> /\ b[1] \in 0..1 /\ b[2] \in 0..e.ht[b[1]].size - 1
        /\ (b[1] = a[1] /\ a[2] < b[2]) \/ (b[1] = 1 /\ a[1] = 0 /\ IsRehashing(e))
    <3>1. a[1] \in 0..1 /\ a[2] \in Int /\ a[2] >= -1
      BY <1>1, <1>2
    <3> QED BY <3>1, AheadBuckets
  <2>2. CASE b[1] = t
    <3>1. i < b[2]
      BY <1>1, <1>2, <2>1, <2>2
    <3>2. b[2] \in i + 1..e.ht[t].size - 1
      BY <3>1, <2>1, <2>2, <1>1
    <3> QED BY <3>2, <2>1, <2>2 DEF AheadAt
  <2>3. CASE b[1] # t
    <3>1. b[1] = 1 /\ t = 0 /\ IsRehashing(e)
      BY <1>2, <2>1, <2>3
    <3> QED BY <3>1, <2>1 DEF AheadAt
  <2> QED BY <2>2, <2>3
<1>8. \A b \in AheadAt(e, t, i) : Earlier(b, a) \/ b = a \/ b \in AheadAt(e, a[1], a[2])
  <2> SUFFICES ASSUME NEW b \in AheadAt(e, t, i), ~ Earlier(b, a), b # a
               PROVE  b \in AheadAt(e, a[1], a[2])
    OBVIOUS
  <2>1. CASE b[1] = a[1]
    <3>1. b[2] \in Int /\ a[2] \in Int /\ ~ (b[2] < a[2]) /\ b[2] # a[2]
      BY <1>1, <1>2, <2>1 DEF Earlier
    <3>2. b[2] \in a[2] + 1..e.ht[a[1]].size - 1
      BY <3>1, <1>1, <1>2, <2>1
    <3> QED BY <3>2, <1>2, <2>1 DEF AheadAt
  <2>2. CASE b[1] # a[1]
    <3>1. ~ (b[1] < a[1]) /\ b[1] \in 0..1 /\ a[1] \in 0..1
      BY <1>2 DEF Earlier
    <3>2. b[1] = 1 /\ a[1] = 0
      BY <3>1, <2>2
    <3>3. IsRehashing(e)
      BY <3>2, <1>2
    <3> QED BY <3>2, <3>3, <1>2 DEF AheadAt
  <2> QED BY <2>1, <2>2
<1>9. ASSUME NEW x
      PROVE  InBuckets(e, AheadAt(e, t, i), x)
               <=> InBuckets(e, AheadAt(e, a[1], a[2]), x) \/ Follows(c, x, x)
  <2>1. ASSUME InBuckets(e, AheadAt(e, t, i), x)
        PROVE  InBuckets(e, AheadAt(e, a[1], a[2]), x) \/ Follows(c, x, x)
    <3>1. PICK b \in AheadAt(e, t, i) : Follows(Chain(e, b[1], b[2]), x, x)
      BY <2>1 DEF InBuckets
    <3>2. ~ Earlier(b, a)
      BY <3>1, NothingFollows
    <3> QED BY <3>1, <3>2, <1>8 DEF InBuckets
  <2>2. ASSUME InBuckets(e, AheadAt(e, a[1], a[2]), x) \/ Follows(c, x, x)
        PROVE  InBuckets(e, AheadAt(e, t, i), x)
    BY <2>2, <1>7 DEF InBuckets
  <2> QED BY <2>1, <2>2
<1> QED BY <1>3, <1>4, <1>5, <1>6, <1>9 DEF Due

\* What dictNext saves
LEMMA AfterIsNext ==
  ASSUME GoodDict(d), NEW t, NEW i, AtBucket(d, t, i), NEW c, c = Chain(d, t, i),
         NEW a \in 1..Len(c), NEW k, k = c[a]
  PROVE  After(k, t) = NextAfter(c, a)
<1>1. c \in Seq(Keys) /\ Distinct(c) /\ \A x \in ToSet(c) : Slot(d, t, x) = i
  BY ChainGood DEF AtBucket
<1>2. Slot(d, t, k) = i
  BY <1>1, ChainFacts
<1>3. Chain(d, t, Slot(d, t, k)) = c
  BY <1>2
<1>4. SelectInSeq(c, LAMBDA x : x = c[a]) = a
  BY <1>1, PlaceOf
<1> QED BY <1>3, <1>4 DEF After, NextAfter


-----------------------------------------------------------------------------
(* DictInv, the inductive invariant: e is the dict, S what is stored, w    *)
(* the walk.                                                               *)

\* What a walk can be
Walks ==
  [kind : {"none", "iterator", "iterated", "wild", "scan", "scanned"}, v : Nat, table : 0..1,
   index : Int, entry : Keys \cup {NoKey}, next : Keys \cup {NoKey}, seen : SUBSET Keys, twice : BOOLEAN,
   since : SUBSET Keys]

\* dictNext has not been called.
Unstarted(w) == w.index = -1 /\ w.table = 0
Counted(w)   == w.kind = "iterator" /\ ~ Unstarted(w)

\* An iterator that dictNext was called for is counted; one that has gone wild may be.
CountRight(e, w) ==
  /\ e.iterators \in 0..1
  /\ w.kind # "wild" => e.iterators = IF Counted(w) THEN 1 ELSE 0

DueTo(e, w, k) == Due(e, w.table, w.index, w.next, k)

\* An iterator stands on a bucket; what it has seen is not due again, and what it
\* has not seen is still due.
GoodIterator(e, S, w) ==
  IF Unstarted(w) THEN w.seen = {} /\ w.next = NoKey /\ w.entry = NoKey
  ELSE /\ AtBucket(e, w.table, w.index)
       /\ w.seen \subseteq S
       /\ w.next # NoKey => /\ w.next # w.entry
                            /\ Follows(Chain(e, w.table, w.index), w.next, w.next)
       /\ \A k \in w.seen : ~ DueTo(e, w, k)
       /\ \A k \in w.since : k \in w.seen \/ DueTo(e, w, k)

\* The tables hold what is stored, the dict is rehashed under no iterator, the iterator
\* is good, and only a caller that does not heed lets it go wild.
GoodState(e, S, w) ==
  /\ GoodDict(e) /\ S = HeldBy(e) /\ w \in Walks /\ w.since \subseteq S /\ ~ w.twice
  /\ CountRight(e, w)
  /\ w.kind = "iterator" => GoodIterator(e, S, w)
  /\ w.kind = "wild" => ~ IteratorHeeded
  /\ w.kind = "iterated" => w.since \subseteq w.seen

DictInv == GoodState(d, stored, walk)

\* What is held are keys.
LEMMA HeldAreKeys ==
  ASSUME NEW e
  PROVE  HeldBy(e) \subseteq Keys
BY DEF HeldBy, Held

\* At the start everything is due.
LEMMA AllDue ==
  ASSUME NEW e, GoodDict(e), NEW k \in HeldBy(e)
  PROVE  Due(e, 0, -1, NoKey, k)
<1>1. PICK t \in 0..1 : k \in Held(e.ht[t])
  <2>1. 0 \in 0..1 /\ 1 \in 0..1 /\ (k \in Held(e.ht[0]) \/ k \in Held(e.ht[1]))
    BY DEF HeldBy
  <2> QED BY <2>1
<1>2. GoodTable(e.ht[t]) /\ e.ht[t].size \in Nat
  BY SizeTypes
<1>3. PICK i \in 0..e.ht[t].size - 1 : k \in ToSet(e.ht[t].bucket[i])
  BY <1>1, <1>2, HeldInChain DEF GoodTable
<1>4. Follows(Chain(e, t, i), k, k)
  <2>1. Chain(e, t, i) \in Seq(Keys) /\ k \in ToSet(Chain(e, t, i))
    BY <1>3, ChainGood DEF Chain
  <2> QED BY <2>1, FollowsItself
<1>5. <<t, i>> \in AheadAt(e, 0, -1)
  <2>1. CASE t = 0
    <3>1. i \in -1 + 1..e.ht[0].size - 1
      BY <1>2, <2>1
    <3> QED BY <2>1, <3>1 DEF AheadAt
  <2>2. CASE t = 1
    <3>1. IsRehashing(e)
      <4>1. e.ht[1].size # 0
        BY <1>2, <2>2
      <4> QED BY <4>1 DEF GoodDict, GoodRehash, IsRehashing
    <3> QED BY <2>2, <3>1 DEF AheadAt
  <2> QED BY <2>1, <2>2
<1>6. InBuckets(e, AheadAt(e, 0, -1), k)
  <2> DEFINE a == <<t, i>>
  <2>1. a[1] = t /\ a[2] = i /\ a \in AheadAt(e, 0, -1)
    BY <1>5
  <2> HIDE DEF a
  <2> QED BY <2>1, <1>4 DEF InBuckets
<1> QED BY <1>6 DEF Due

\* What an iterator knows, started or not
LEMMA IteratorDue ==
  ASSUME NEW e, NEW S, NEW w, GoodState(e, S, w), w.kind = "iterator"
  PROVE  /\ w.table \in 0..1 /\ w.index \in Int /\ w.index >= -1 /\ (w.table = 1 => IsRehashing(e))
         /\ \A k \in w.seen : ~ DueTo(e, w, k)
         /\ \A k \in w.since : k \in w.seen \/ DueTo(e, w, k)
         /\ w.seen \subseteq S
         /\ w.next # NoKey => /\ AtBucket(e, w.table, w.index) /\ w.next # w.entry
                              /\ Follows(Chain(e, w.table, w.index), w.next, w.next)
<1>1. GoodDict(e) /\ S = HeldBy(e) /\ w \in Walks /\ w.since \subseteq S /\ GoodIterator(e, S, w)
  BY DEF GoodState
<1>2. CASE Unstarted(w)
  <2>1. w.index = -1 /\ w.table = 0 /\ w.seen = {} /\ w.next = NoKey
    BY <1>1, <1>2 DEF GoodIterator, Unstarted
  <2>2. \A k \in w.since : DueTo(e, w, k)
    BY <1>1, <2>1, AllDue DEF DueTo
  <2> QED BY <2>1, <2>2
<1>3. CASE ~ Unstarted(w)
  <2>1. /\ AtBucket(e, w.table, w.index)
        /\ w.seen \subseteq S
        /\ w.next # NoKey => /\ w.next # w.entry
                             /\ Follows(Chain(e, w.table, w.index), w.next, w.next)
        /\ \A k \in w.seen : ~ DueTo(e, w, k)
        /\ \A k \in w.since : k \in w.seen \/ DueTo(e, w, k)
    BY <1>1, <1>3 DEF GoodIterator
  <2>2. w.table \in 0..1 /\ w.index \in Int /\ w.index >= -1 /\ (w.table = 1 => IsRehashing(e))
    BY <2>1, <1>1, SizeTypes DEF AtBucket
  <2> QED BY <2>1, <2>2
<1> QED BY <1>2, <1>3

\* The dict is rehashed or expanded.
LEMMA StaysGood ==
  ASSUME NEW e, NEW S, NEW w, GoodState(e, S, w), NEW f, SameKeys(e, f), Counted(w) => Grown(e, f)
  PROVE  GoodState(f, S, w)
<1>1. GoodDict(e) /\ GoodDict(f) /\ HeldBy(f) = HeldBy(e) /\ f.iterators = e.iterators
  BY DEF GoodState, SameKeys
<1>2. ASSUME w.kind = "iterator" PROVE GoodIterator(f, S, w)
  <2>1. GoodIterator(e, S, w)
    BY <1>2 DEF GoodState
  <2>2. CASE Unstarted(w)
    BY <2>1, <2>2 DEF GoodIterator
  <2>3. CASE ~ Unstarted(w)
    <3>1. AtBucket(e, w.table, w.index) /\ Grown(e, f)
      BY <1>2, <2>1, <2>3 DEF GoodIterator, Counted
    <3>2. /\ AtBucket(f, w.table, w.index) /\ Chain(f, w.table, w.index) = Chain(e, w.table, w.index)
          /\ \A k : DueTo(f, w, k) <=> DueTo(e, w, k)
      BY <1>1, <3>1, GrownDue DEF DueTo
    <3> QED BY <2>1, <2>3, <3>2 DEF GoodIterator
  <2> QED BY <2>2, <2>3
<1> QED BY <1>1, <1>2 DEF GoodState, CountRight

\* One chain has changed by k, which is neither the next entry nor among the seen ones.
LEMMA IteratorStays ==
  ASSUME NEW e, NEW S, NEW w, GoodState(e, S, w), w.kind = "iterator", ~ Unstarted(w),
         NEW k \in Keys, w.next # k,
         NEW f, NEW t, NEW i, OneChainChanged(e, f, t, i), OrderKept(Chain(e, t, i), Chain(f, t, i), k),
         NEW Z, S \ {k} \subseteq Z,
         NEW x, x.table = w.table, x.index = w.index, x.next = w.next, x.entry = w.entry,
         x.seen = w.seen \ {k}, x.since = w.since \ {k}
  PROVE  GoodIterator(f, Z, x)
<1>1. /\ GoodDict(e) /\ AtBucket(e, w.table, w.index) /\ w.seen \subseteq S
      /\ w.next # NoKey => /\ w.next # w.entry
                           /\ Follows(Chain(e, w.table, w.index), w.next, w.next)
      /\ \A y \in w.seen : ~ DueTo(e, w, y)
      /\ \A y \in w.since : y \in w.seen \/ DueTo(e, w, y)
  BY DEF GoodState, GoodIterator
<1>2. /\ AtBucket(f, w.table, w.index)
      /\ \A y : y # k => (Due(f, w.table, w.index, w.next, y) <=> Due(e, w.table, w.index, w.next, y))
      /\ Follows(Chain(f, w.table, w.index), w.next, w.next)
           <=> Follows(Chain(e, w.table, w.index), w.next, w.next)
  <2> DEFINE a == w.table  b == w.index  n == w.next
  <2>1. GoodDict(e) /\ AtBucket(e, a, b) /\ n # k
    BY <1>1
  <2>2. OneChainChanged(e, f, t, i) /\ OrderKept(Chain(e, t, i), Chain(f, t, i), k)
    OBVIOUS
  <2> HIDE DEF a, b, n
  <2>3. /\ AtBucket(f, a, b) /\ \A y : y # k => (Due(f, a, b, n, y) <=> Due(e, a, b, n, y))
        /\ Follows(Chain(f, a, b), n, n) <=> Follows(Chain(e, a, b), n, n)
    BY ONLY <2>1, <2>2, ChangedDue
  <2> QED BY <2>3 DEF a, b, n
<1>3. \A y : y # k => (DueTo(f, x, y) <=> DueTo(e, w, y))
  BY <1>2 DEF DueTo
<1>4. ~ Unstarted(x)
  BY DEF Unstarted
<1>5. \A y \in x.seen : y \in w.seen /\ y # k
  OBVIOUS
<1>6. \A y \in x.since : y \in w.since /\ y # k
  OBVIOUS
<1>7. x.seen \subseteq Z
  BY <1>1
<1>8. \A y \in x.seen : ~ DueTo(f, x, y)
  BY <1>1, <1>3, <1>5
<1>9. \A y \in x.since : y \in x.seen \/ DueTo(f, x, y)
  BY <1>1, <1>3, <1>6
<1> QED BY <1>1, <1>2, <1>4, <1>7, <1>8, <1>9 DEF GoodIterator

\* dictAddRaw after the table was expanded
LEMMA AddGood ==
  ASSUME NEW e, NEW S, NEW w, GoodState(e, S, w), e.ht[0].size # 0, NEW k \in Keys,
         NEW f, f = IF Lookup(e, k) THEN e ELSE Insert(e, k)
  PROVE  GoodState(f, S \cup {k}, w) /\ SizesOf(f) = SizesOf(e)
<1>1. GoodDict(e) /\ S = HeldBy(e) /\ w \in Walks /\ w.since \subseteq S
  BY DEF GoodState
<1>2. CASE Lookup(e, k)
  <2>1. k \in S
    BY <1>1, <1>2, LookupHeld
  <2>2. f = e /\ S \cup {k} = S
    BY <1>2, <2>1
  <2> QED BY <2>2
<1>3. CASE ~ Lookup(e, k)
  <2>1. k \notin S /\ f = Insert(e, k)
    BY <1>1, <1>3, LookupHeld
  <2>2. /\ GoodDict(f) /\ HeldBy(f) = HeldBy(e) \cup {k} /\ SizesOf(f) = SizesOf(e)
        /\ \E t, i : OneChainChanged(e, f, t, i) /\ f.ht[t].bucket[i] = <<k>> \o e.ht[t].bucket[i]
    <3> DEFINE g == Insert(e, k)
    <3>1. GoodDict(e) /\ e.ht[0].size # 0 /\ k \in Keys /\ k \notin HeldBy(e)
      BY <1>1, <2>1
    <3>2. g = Insert(e, k)
      OBVIOUS
    <3> HIDE DEF g
    <3>3. GoodDict(g) /\ HeldBy(g) = HeldBy(e) \cup {k} /\ SizesOf(g) = SizesOf(e)
      BY ONLY <3>1, <3>2, InsertGood
    <3>4. \E t, i : OneChainChanged(e, g, t, i) /\ g.ht[t].bucket[i] = <<k>> \o e.ht[t].bucket[i]
      BY ONLY <3>1, <3>2, InsertGood, SMTT(30)
    <3> QED BY <2>1, <3>2, <3>3, <3>4
  <2>3. PICK t, i : OneChainChanged(e, f, t, i) /\ f.ht[t].bucket[i] = <<k>> \o e.ht[t].bucket[i]
    BY <2>2
  <2>4. t \in 0..1 /\ i \in 0..e.ht[t].size - 1 /\ f.iterators = e.iterators
    BY <2>3 DEF OneChainChanged
  <2>5. OrderKept(Chain(e, t, i), Chain(f, t, i), k)
    <3>1. Chain(e, t, i) \in Seq(Keys)
      BY <1>1, <2>4, ChainGood
    <3>2. Chain(f, t, i) = PutHead(k, Chain(e, t, i))
      BY <2>3 DEF Chain, PutHead
    <3> QED BY <3>1, <3>2, PutKeepsOrder
  <2>6. ASSUME w.kind = "iterator" PROVE GoodIterator(f, S \cup {k}, w)
    <3>1. GoodIterator(e, S, w)
      BY <2>6 DEF GoodState
    <3>2. CASE Unstarted(w)
      BY <3>1, <3>2 DEF GoodIterator
    <3>3. CASE ~ Unstarted(w)
      <4>1. w.seen \subseteq S /\ AtBucket(e, w.table, w.index)
        BY <3>1, <3>3 DEF GoodIterator
      <4>2. w.seen = w.seen \ {k} /\ w.since = w.since \ {k}
        BY <1>1, <2>1, <4>1
      <4>3. w.next # k
        <5>1. CASE w.next = NoKey
          BY <5>1, DictAssumption
        <5>2. CASE w.next # NoKey
          <6>1. Follows(Chain(e, w.table, w.index), w.next, w.next)
            BY <3>1, <3>3, <5>2 DEF GoodIterator
          <6>2. Due(e, w.table, w.index, w.next, w.next)
            BY <5>2, <6>1 DEF Due
          <6>3. w.table \in 0..1 /\ w.index \in Int /\ w.index >= -1
            BY <2>6, IteratorDue
          <6>4. w.next \in HeldBy(e)
            BY <1>1, <4>1, <6>2, <6>3, DueIsHeld
          <6> QED BY <1>1, <2>1, <6>4
        <5> QED BY <5>1, <5>2
      <4>4. S \ {k} \subseteq S \cup {k}
        OBVIOUS
      <4> QED BY <2>3, <2>5, <2>6, <3>3, <4>2, <4>3, <4>4, IteratorStays
    <3> QED BY <3>2, <3>3
  <2>7. /\ GoodDict(f) /\ S \cup {k} = HeldBy(f) /\ w \in Walks /\ w.since \subseteq S \cup {k} /\ ~ w.twice
        /\ CountRight(f, w)
        /\ w.kind = "iterated" => w.since \subseteq w.seen
        /\ w.kind = "wild" => ~ IteratorHeeded
    BY <1>1, <2>2, <2>4 DEF GoodState, CountRight
  <2> QED BY <2>2, <2>6, <2>7 DEF GoodState
<1> QED BY <1>2, <1>3

\* What a deletion does to a walk
Deletes(w, k) ==
  [w EXCEPT !.since = @ \ {k}, !.seen = @ \ {k}, !.kind = IF k = w.next THEN "wild" ELSE @]

\* dictGenericDelete
LEMMA DeleteGood ==
  ASSUME NEW e, NEW S, NEW w, GoodState(e, S, w), NEW k \in Keys,
         IteratorHeeded => k # w.next,
         NEW f, f = IF Lookup(e, k) THEN Unlink(e, k) ELSE e,
         NEW x, x = Deletes(w, k)
  PROVE  GoodState(f, S \ {k}, x) /\ SizesOf(f) = SizesOf(e)
<1>1. GoodDict(e) /\ S = HeldBy(e) /\ w \in Walks /\ w.since \subseteq S
  BY DEF GoodState
<1>2. /\ x.table = w.table /\ x.index = w.index /\ x.next = w.next /\ x.entry = w.entry
      /\ x.seen = w.seen \ {k} /\ x.since = w.since \ {k}
      /\ x.kind = IF k = w.next THEN "wild" ELSE w.kind
  BY <1>1 DEF Walks, Deletes
<1>3. x \in Walks /\ ~ x.twice
  <2>1. x \in Walks
    BY <1>1 DEF Walks, Deletes
  <2>2. x.twice = w.twice
    BY <1>1 DEF Walks, Deletes
  <2> QED BY <2>1, <2>2 DEF GoodState
<1>4. /\ x.since \subseteq S \ {k}
      /\ x.kind = "iterated" => x.since \subseteq x.seen
      /\ x.kind = "wild" => ~ IteratorHeeded
      /\ x.kind = "iterator" => w.kind = "iterator" /\ k # w.next
      /\ Unstarted(x) <=> Unstarted(w)
  BY <1>1, <1>2 DEF GoodState, Unstarted
<1>5. CountRight(e, x)
  BY <1>2, <1>4 DEF GoodState, CountRight, Counted
<1>6. CASE ~ Lookup(e, k)
  <2>1. k \notin S /\ f = e /\ S \ {k} = S
    BY <1>1, <1>6, LookupHeld
  <2>2. ASSUME x.kind = "iterator" PROVE GoodIterator(e, S, x)
    <3>1. GoodIterator(e, S, w)
      BY <1>4, <2>2 DEF GoodState
    <3>2. CASE Unstarted(w)
      BY <1>2, <1>4, <3>1, <3>2 DEF GoodIterator
    <3>3. CASE ~ Unstarted(w)
      <4>1. /\ AtBucket(e, w.table, w.index) /\ w.seen \subseteq S
            /\ w.next # NoKey => /\ w.next # w.entry
                                 /\ Follows(Chain(e, w.table, w.index), w.next, w.next)
            /\ \A y \in w.seen : ~ DueTo(e, w, y)
            /\ \A y \in w.since : y \in w.seen \/ DueTo(e, w, y)
        BY <3>1, <3>3 DEF GoodIterator
      <4>2. x.seen = w.seen /\ x.since = w.since
        BY <1>1, <1>2, <2>1, <4>1
      <4>3. \A y : DueTo(e, x, y) <=> DueTo(e, w, y)
        BY <1>2 DEF DueTo
      <4> QED BY <1>2, <1>4, <3>3, <4>1, <4>2, <4>3 DEF GoodIterator
    <3> QED BY <3>2, <3>3
  <2> QED BY <1>1, <1>2, <1>3, <1>4, <1>5, <2>1, <2>2 DEF GoodState
<1>7. CASE Lookup(e, k)
  <2>1. k \in S /\ f = Unlink(e, k)
    BY <1>1, <1>7, LookupHeld
  <2>2. /\ GoodDict(f) /\ HeldBy(f) = HeldBy(e) \ {k} /\ SizesOf(f) = SizesOf(e)
        /\ \E t, i : /\ OneChainChanged(e, f, t, i)
                     /\ \E p \in 1..Len(e.ht[t].bucket[i]) :
                          /\ e.ht[t].bucket[i][p] = k
                          /\ Without(e.ht[t].bucket[i], p, f.ht[t].bucket[i])
    BY <1>1, <2>1, UnlinkGood
  <2>3. PICK t, i : /\ OneChainChanged(e, f, t, i)
                    /\ \E p \in 1..Len(e.ht[t].bucket[i]) :
                         /\ e.ht[t].bucket[i][p] = k
                         /\ Without(e.ht[t].bucket[i], p, f.ht[t].bucket[i])
    BY <2>2
  <2>4. t \in 0..1 /\ i \in 0..e.ht[t].size - 1 /\ f.iterators = e.iterators
    BY <2>3 DEF OneChainChanged
  <2>5. OrderKept(Chain(e, t, i), Chain(f, t, i), k)
    <3> DEFINE c == Chain(e, t, i)
               v == Chain(f, t, i)
    <3>1. c \in Seq(Keys)
      BY <1>1, <2>4, ChainGood
    <3>2. PICK p \in 1..Len(c) : c[p] = k /\ Without(c, p, v)
      BY <2>3 DEF Chain
    <3> HIDE DEF c, v
    <3>3. OrderKept(c, v, c[p])
      BY ONLY <3>1, <3>2, WithoutKeepsOrder
    <3> QED BY <3>2, <3>3 DEF c, v
  <2>6. ASSUME x.kind = "iterator" PROVE GoodIterator(f, S \ {k}, x)
    <3>1. GoodIterator(e, S, w) /\ w.kind = "iterator" /\ w.next # k
      BY <1>4, <2>6 DEF GoodState
    <3>2. CASE Unstarted(w)
      BY <1>2, <1>4, <3>1, <3>2 DEF GoodIterator
    <3>3. CASE ~ Unstarted(w)
      <4> DEFINE Z == S \ {k}
      <4>2. S \ {k} \subseteq Z /\ k \in Keys /\ GoodState(e, S, w) /\ OneChainChanged(e, f, t, i)
        BY <2>3
      <4> HIDE DEF Z
      <4>3. GoodIterator(f, Z, x)
        BY ONLY <1>2, <2>5, <3>1, <3>3, <4>2, IteratorStays
      <4> QED BY <4>3 DEF Z
    <3> QED BY <3>2, <3>3
  <2>7. CountRight(f, x)
    BY <1>5, <2>4 DEF CountRight
  <2> QED BY <1>1, <1>2, <1>3, <1>4, <2>2, <2>6, <2>7 DEF GoodState
<1> QED BY <1>6, <1>7


\* _dictRehashStep keeps all that, for it does nothing under an iterator.
LEMMA RehashStepGood ==
  ASSUME NEW e, NEW S, NEW w, GoodState(e, S, w), NEW f, f = RehashStep(e)
  PROVE  /\ GoodState(f, S, w) /\ SizesOf(f) \subseteq SizesOf(e)
         /\ e.ht[0].size # 0 => f.ht[0].size # 0
         /\ Counted(w) => f = e
<1>1. GoodDict(e) /\ CountRight(e, w)
  BY DEF GoodState
<1>2. CASE e.iterators # 0
  <2>1. f = e
    BY <1>2 DEF RehashStep
  <2> QED BY <2>1
<1>3. CASE e.iterators = 0
  <2>1. f = Rehash(e) /\ ~ Counted(w)
    BY <1>1, <1>3 DEF RehashStep, CountRight, Counted
  <2>2. /\ SameKeys(e, f) /\ SizesOf(f) \subseteq SizesOf(e)
        /\ e.ht[0].size # 0 => f.ht[0].size # 0
    BY <1>1, <2>1, RehashGood
  <2>3. GoodState(f, S, w)
    BY <2>1, <2>2, StaysGood
  <2> QED BY <2>1, <2>2, <2>3
<1> QED BY <1>2, <1>3

\* A dict with entries has a table.
LEMMA TableThere ==
  ASSUME NEW e, GoodDict(e), HeldBy(e) # {}
  PROVE  e.ht[0].size # 0 /\ e.ht[0].size \in SizesOf(e)
<1>1. ASSUME e.ht[0].size = 0 PROVE FALSE
  <2>1. e.ht[1].size = 0
    BY <1>1 DEF GoodDict, GoodRehash
  <2> QED BY <1>1, <2>1 DEF HeldBy, Held
<1> QED BY <1>1 DEF SizesOf

\* The steps of the dict; what becomes of the sizes matters to dictScan.
LEMMA AddStep ==
  ASSUME DictInv, NEW k \in Keys, Add(k)
  PROVE  /\ DictInv'
         /\ stored # {} => \A s \in SizesOf(d') : \E r \in SizesOf(d) : r <= s
<1> DEFINE g == RehashStep(d)
           e == Expanded(g)
<1>1. /\ d' = IF Lookup(e, k) THEN e ELSE Insert(e, k)
      /\ stored' = stored \cup {k} /\ walk' = walk
  BY DEF Add
<1>2. /\ GoodState(g, stored, walk) /\ SizesOf(g) \subseteq SizesOf(d)
      /\ d.ht[0].size # 0 => g.ht[0].size # 0
      /\ Counted(walk) => g = d
  BY RehashStepGood DEF DictInv
<1>3. e = Expanded(g)
  OBVIOUS
<1> HIDE DEF e, g
<1>4. GoodDict(g)
  BY <1>2 DEF GoodState
<1>5. /\ SameKeys(g, e) /\ e.ht[0].size # 0
      /\ g.ht[0].size # 0 => Grown(g, e) /\ \A s \in SizesOf(e) : \E r \in SizesOf(g) : r <= s
  BY <1>3, <1>4, ExpandedGood
<1>6. Counted(walk) => g.ht[0].size # 0
  <2> SUFFICES ASSUME Counted(walk) PROVE g.ht[0].size # 0
    OBVIOUS
  <2>1. AtBucket(g, walk.table, walk.index)
    BY <1>2 DEF GoodState, GoodIterator, Counted
  <2>2. CASE walk.table = 0
    BY <2>1, <2>2, <1>4, SizeTypes DEF AtBucket
  <2>3. CASE walk.table = 1
    BY <2>1, <2>3, <1>4 DEF AtBucket, GoodDict, GoodRehash, IsRehashing
  <2> QED BY <2>1, <2>2, <2>3 DEF AtBucket
<1>7. GoodState(e, stored, walk)
  BY <1>2, <1>5, <1>6, StaysGood
<1>8. GoodState(d', stored \cup {k}, walk) /\ SizesOf(d') = SizesOf(e)
  BY <1>1, <1>5, <1>7, AddGood
<1>9. ASSUME stored # {}, NEW s \in SizesOf(d') PROVE \E r \in SizesOf(d) : r <= s
  <2>1. d.ht[0].size # 0
    BY <1>9, TableThere DEF DictInv, GoodState
  <2>2. PICK r \in SizesOf(g) : r <= s
    BY <1>2, <1>5, <1>8, <1>9, <2>1
  <2> QED BY <1>2, <2>2
<1> QED BY <1>1, <1>8, <1>9 DEF DictInv

LEMMA DeletionStep ==
  ASSUME DictInv, NEW k \in Keys, Delete(k)
  PROVE  DictInv' /\ SizesOf(d') \subseteq SizesOf(d)
<1> DEFINE e == RehashStep(d)
<1>1. /\ d' = IF Lookup(e, k) THEN Unlink(e, k) ELSE e
      /\ IteratorHeeded => k # walk.next
      /\ stored' = stored \ {k}
      /\ walk' = Deletes(walk, k)
  BY DEF Delete, Deletes
<1>2. GoodState(e, stored, walk) /\ SizesOf(e) \subseteq SizesOf(d)
  BY RehashStepGood DEF DictInv
<1> HIDE DEF e
<1> DEFINE f == d'
           x == walk'
<1>3. /\ k \in Keys /\ GoodState(e, stored, walk) /\ (IteratorHeeded => k # walk.next)
      /\ f = IF Lookup(e, k) THEN Unlink(e, k) ELSE e
      /\ x = Deletes(walk, k)
  BY <1>1, <1>2
<1> HIDE DEF f, x
<1>4. GoodState(f, stored \ {k}, x) /\ SizesOf(f) = SizesOf(e)
  BY ONLY <1>3, DeleteGood
<1> QED BY <1>1, <1>2, <1>4 DEF DictInv, f, x

LEMMA ExpandStep ==
  ASSUME DictInv, NEW n, Fits(n), d' = Expand(d, n), UNCHANGED <<stored, walk>>
  PROVE  DictInv' /\ SizesOf(d') \subseteq SizesOf(d) \cup {NextPower(n)}
<1>1. GoodDict(d)
  BY DEF DictInv, GoodState
<1>2. /\ SameKeys(d, d') /\ SizesOf(d') \subseteq SizesOf(d) \cup {NextPower(n)}
      /\ d.ht[0].size # 0 => Grown(d, d')
  BY <1>1, ExpandGood
<1>3. Counted(walk) => d.ht[0].size # 0
  <2> SUFFICES ASSUME Counted(walk) PROVE d.ht[0].size # 0
    OBVIOUS
  <2>1. AtBucket(d, walk.table, walk.index)
    BY DEF DictInv, GoodState, GoodIterator, Counted
  <2>2. CASE walk.table = 0
    BY <2>1, <2>2, <1>1, SizeTypes DEF AtBucket
  <2>3. CASE walk.table = 1
    BY <2>1, <2>3, <1>1 DEF AtBucket, GoodDict, GoodRehash, IsRehashing
  <2> QED BY <2>1, <2>2, <2>3 DEF AtBucket
<1>4. GoodState(d', stored, walk)
  BY <1>2, <1>3, StaysGood DEF DictInv
<1> QED BY <1>2, <1>4 DEF DictInv

LEMMA ResizeStep ==
  ASSUME DictInv, Resize
  PROVE  \E n : Fits(n) /\ Asks(n) /\ UNCHANGED <<stored, walk>>
<1> DEFINE u == d.ht[0].used
           S == {u, InitialSize}
<1>1. u \in Nat /\ Fits(u) /\ Fits(InitialSize) /\ InitialSize \in Nat
  BY UsedFits, InitialFits DEF DictInv, GoodState, GoodDict, Fits
<1>2. Max(S) \in S
  <2> DEFINE b == u + InitialSize
  <2>1. b \in Nat /\ \A y \in S : y <= b
    BY <1>1
  <2>2. S \in SUBSET Nat /\ S # {}
    BY <1>1
  <2> HIDE DEF S, b
  <2> QED BY ONLY <2>1, <2>2, MaxIsGreatest
<1>3. Fits(Max(S))
  BY <1>1, <1>2
<1>4. Asks(Max(S)) /\ UNCHANGED <<stored, walk>>
  BY DEF Resize
<1> HIDE DEF S
<1> QED BY <1>3, <1>4

LEMMA AskedFits ==
  ASSUME NEW n \in Asked
  PROVE  Fits(n)
<1>1. n \in Sizes /\ n \in Nat
  BY SizeFacts, DictAssumption
<1>2. n <= n
  BY <1>1
<1> QED BY <1>1, <1>2 DEF Fits

LEMMA EmptyStep ==
  ASSUME DictInv, Empty
  PROVE  DictInv' /\ walk'.since = {} /\ walk'.seen = walk.seen
<1>1. /\ d' = NewDict /\ stored' = {}
      /\ walk' = [walk EXCEPT !.since = {}, !.kind = IF @ = "iterator" THEN "wild" ELSE @]
      /\ IteratorHeeded => walk.kind # "iterator"
  BY DEF Empty
<1>2. walk \in Walks /\ ~ walk.twice /\ (walk.kind = "wild" => ~ IteratorHeeded)
  BY DEF DictInv, GoodState
<1>3. /\ walk' \in Walks /\ walk'.since = {} /\ walk'.seen = walk.seen
      /\ walk'.kind = IF walk.kind = "iterator" THEN "wild" ELSE walk.kind
      /\ walk'.twice = walk.twice
  BY <1>1, <1>2 DEF Walks
<1>4. /\ walk'.kind # "iterator"
      /\ walk'.kind = "wild" => ~ IteratorHeeded
  BY <1>1, <1>2, <1>3
<1>5. CountRight(NewDict, walk')
  BY <1>4, NewDictGood DEF CountRight, Counted
<1> QED BY <1>1, <1>2, <1>3, <1>4, <1>5, NewDictGood DEF DictInv, GoodState

-----------------------------------------------------------------------------
(* The steps of an iterator                                                *)

\* The count of iterators is no part of the table.
LEMMA IteratorsSet ==
  ASSUME NEW e, GoodDict(e), NEW n \in Nat, NEW f, f = [e EXCEPT !.iterators = n]
  PROVE  /\ GoodDict(f) /\ HeldBy(f) = HeldBy(e) /\ f.iterators = n
         /\ f.ht = e.ht /\ f.rehashidx = e.rehashidx
<1>1. f \in Dicts /\ f.iterators = n /\ f.ht = e.ht /\ f.rehashidx = e.rehashidx
  BY DEF GoodDict, Dicts
<1>2. GoodRehash(f) /\ HeldBy(f) = HeldBy(e)
  BY <1>1 DEF GoodDict, GoodRehash, HeldBy
<1> QED BY <1>1, <1>2 DEF GoodDict

LEMMA SameBuckets ==
  ASSUME NEW e, NEW f, f.ht = e.ht, f.rehashidx = e.rehashidx
  PROVE  /\ \A t, i : Chain(f, t, i) = Chain(e, t, i)
         /\ \A t, i : AtBucket(f, t, i) <=> AtBucket(e, t, i)
         /\ \A t, i, n, k : Due(f, t, i, n, k) <=> Due(e, t, i, n, k)
<1>1. \A t, i : Chain(f, t, i) = Chain(e, t, i)
  BY DEF Chain
<1>2. IsRehashing(f) <=> IsRehashing(e)
  BY DEF IsRehashing
<1>3. \A t, i : AtBucket(f, t, i) <=> AtBucket(e, t, i)
  BY <1>2 DEF AtBucket
<1>4. \A t, i : AheadAt(f, t, i) = AheadAt(e, t, i)
  BY <1>2, Zenon DEF AheadAt, IsRehashing
<1>5. \A t, i, k : InBuckets(f, AheadAt(f, t, i), k) <=> InBuckets(e, AheadAt(e, t, i), k)
  BY <1>1, <1>4, Zenon DEF InBuckets
<1> QED BY <1>1, <1>3, <1>5 DEF Due

\* The entry at a of chain i of table t is returned.
ReturnsTo(w, t, i, k, n) ==
  [w EXCEPT !.table = t, !.index = i, !.entry = k, !.next = n,
            !.seen = @ \cup {k}, !.twice = @ \/ (k \in w.seen)]

\* The fields of the walk after an entry was returned
LEMMA ReturnsFields ==
  ASSUME NEW w \in Walks, NEW t \in 0..1, NEW i \in Int, NEW k \in Keys, NEW n \in Keys \cup {NoKey},
         ~ w.twice, k \notin w.seen, NEW x, x = ReturnsTo(w, t, i, k, n)
  PROVE  /\ x \in Walks /\ x.kind = w.kind /\ x.v = w.v /\ x.table = t /\ x.index = i
         /\ x.entry = k /\ x.next = n /\ x.seen = w.seen \cup {k} /\ ~ x.twice /\ x.since = w.since
<1> DEFINE b == w.twice \/ (k \in w.seen)
           s == w.seen \cup {k}
<1>1. b \in BOOLEAN /\ ~ b
  BY Zenon
<1>2. s \in SUBSET Keys
  BY DEF Walks
<1>3. x = [w EXCEPT !.table = t, !.index = i, !.entry = k, !.next = n, !.seen = s, !.twice = b]
  BY Zenon DEF ReturnsTo
<1> HIDE DEF b, s
<1>4. /\ x \in Walks /\ x.kind = w.kind /\ x.v = w.v /\ x.table = t /\ x.index = i
      /\ x.entry = k /\ x.next = n /\ x.seen = s /\ x.since = w.since
  BY <1>1, <1>2, <1>3 DEF Walks
<1>5. x.twice = b
  BY <1>3, Zenon DEF Walks
<1> QED BY <1>1, <1>4, <1>5 DEF s

\* An entry that was due is returned.
LEMMA ReturnedGood ==
  ASSUME NEW e, NEW S, NEW w, GoodState(e, S, w), w.kind = "iterator",
         NEW f, GoodDict(f), f.ht = e.ht, f.rehashidx = e.rehashidx, f.iterators = 1,
         NEW t, NEW i, AtBucket(e, t, i), NEW c, c = Chain(e, t, i),
         NEW a \in 1..Len(c), NEW k, k = c[a], NEW n, n = NextAfter(c, a),
         \A y : DueTo(e, w, y) <=> Due(e, t, i, k, y),
         NEW x, x = ReturnsTo(w, t, i, k, n)
  PROVE  GoodState(f, S, x)
<1>1. GoodDict(e) /\ S = HeldBy(e) /\ w \in Walks /\ w.since \subseteq S /\ ~ w.twice
  BY DEF GoodState
<1>2. /\ k \in Keys /\ k \in HeldBy(e) /\ n # k
      /\ n # NoKey => n \in ToSet(c)
      /\ Due(e, t, i, k, k) /\ ~ Due(e, t, i, n, k)
      /\ \A y : y # k => (Due(e, t, i, n, y) <=> Due(e, t, i, k, y))
  BY <1>1, Returned
<1>3. t \in 0..1 /\ i \in Int /\ i # -1 /\ c \in Seq(Keys)
  <2>1. t \in 0..1 /\ i \in 0..e.ht[t].size - 1
    BY DEF AtBucket
  <2> QED BY <1>1, <2>1, ChainGood, SizeTypes
<1>4. n \in Keys \cup {NoKey}
  BY <1>2, <1>3, ChainFacts
<1>5. /\ \A y \in w.seen : ~ DueTo(e, w, y)
      /\ \A y \in w.since : y \in w.seen \/ DueTo(e, w, y)
      /\ w.seen \subseteq S
  BY IteratorDue
<1>6. k \notin w.seen
  BY <1>2, <1>5
<1>7. /\ x \in Walks /\ x.kind = w.kind /\ x.table = t /\ x.index = i
      /\ x.entry = k /\ x.next = n /\ x.seen = w.seen \cup {k} /\ ~ x.twice /\ x.since = w.since
  <2>1. /\ w \in Walks /\ t \in 0..1 /\ i \in Int /\ k \in Keys /\ n \in Keys \cup {NoKey}
        /\ ~ w.twice /\ k \notin w.seen /\ x = ReturnsTo(w, t, i, k, n)
    BY <1>1, <1>2, <1>3, <1>4, <1>6
  <2> QED BY ONLY <2>1, ReturnsFields
<1>8. ~ Unstarted(x) /\ Counted(x)
  BY <1>3, <1>7 DEF Unstarted, Counted
<1>9. \A y : DueTo(f, x, y) <=> Due(e, t, i, n, y)
  BY <1>7, SameBuckets DEF DueTo
<1>10. GoodIterator(f, S, x)
  <2>1. AtBucket(f, t, i) /\ Chain(f, t, i) = c
    BY SameBuckets
  <2>2. x.seen \subseteq S
    BY <1>1, <1>2, <1>5, <1>7
  <2>3. n # NoKey => n # k /\ Follows(c, n, n)
    BY <1>2, <1>3, FollowsItself
  <2>4. ASSUME NEW y \in x.seen PROVE ~ DueTo(f, x, y)
    <3>1. CASE y = k
      BY <3>1, <1>2, <1>9
    <3>2. CASE y # k
      <4>1. y \in w.seen
        BY <3>2, <1>7
      <4> QED BY <4>1, <3>2, <1>2, <1>5, <1>9
    <3> QED BY <3>1, <3>2
  <2>5. ASSUME NEW y \in x.since PROVE y \in x.seen \/ DueTo(f, x, y)
    <3>1. CASE y = k
      BY <3>1, <1>7
    <3>2. CASE y # k
      <4>1. y \in w.seen \/ DueTo(e, w, y)
        BY <1>5, <1>7
      <4> QED BY <4>1, <3>2, <1>2, <1>7, <1>9
    <3> QED BY <3>1, <3>2
  <2> QED BY <1>7, <1>8, <2>1, <2>2, <2>3, <2>4, <2>5 DEF GoodIterator
<1>11. HeldBy(f) = HeldBy(e)
  BY DEF HeldBy
<1>12. x.kind # "iterated"
  BY <1>7
<1> QED BY <1>1, <1>7, <1>8, <1>10, <1>11, <1>12 DEF GoodState, CountRight


\* dictNext in the chain and on to another bucket
LEMMA NextInChainStep ==
  ASSUME DictInv, NextInChain
  PROVE  DictInv'
<1> DEFINE t == walk.table
           i == walk.index
           k == walk.next
           c == Chain(d, t, i)
           n == After(k, t)
<1>1. /\ walk.kind = "iterator" /\ k # NoKey /\ d' = d /\ stored' = stored
      /\ walk' = ReturnsTo(walk, t, i, k, n)
  BY Zenon DEF NextInChain, ReturnEntry, ReturnsTo
<1>2. GoodDict(d) /\ d.iterators = IF Counted(walk) THEN 1 ELSE 0
  BY <1>1 DEF DictInv, GoodState, CountRight
<1>3. AtBucket(d, t, i) /\ Follows(c, k, k)
  BY <1>1, IteratorDue DEF DictInv
<1>4. PICK a \in 1..Len(c) : k = c[a]
  BY <1>3 DEF Follows
<1>5. d.iterators = 1
  <2>1. t \in 0..1 /\ i \in 0..d.ht[t].size - 1
    BY <1>3 DEF AtBucket
  <2>2. i # -1
    BY <2>1, <1>2, SizeTypes
  <2> QED BY <1>1, <1>2, <2>2 DEF Counted, Unstarted
<1>6. GoodState(d, stored, walk)
  BY DEF DictInv
<1>7. ASSUME NEW y PROVE DueTo(d, walk, y) <=> Due(d, t, i, k, y)
  BY DEF DueTo
<1>8. c = Chain(d, t, i) /\ n = After(k, t)
  OBVIOUS
<1> HIDE DEF t, i, k, c, n
<1>9. n = NextAfter(c, a)
  BY <1>2, <1>3, <1>4, <1>8, AfterIsNext
<1>10. GoodState(d, stored, walk')
  BY ONLY <1>1, <1>2, <1>3, <1>4, <1>5, <1>6, <1>7, <1>8, <1>9, ReturnedGood
<1> QED BY <1>1, <1>10 DEF DictInv

LEMMA NextInTableStep ==
  ASSUME DictInv, NextInTable
  PROVE  DictInv'
<1>1. GoodState(d, stored, walk) /\ GoodDict(d) /\ d.iterators = IF Counted(walk) THEN 1 ELSE 0
  BY DEF DictInv, GoodState, CountRight, NextInTable
<1>2. walk.kind = "iterator" /\ walk.next = NoKey /\ stored' = stored /\ CountIterator
  BY DEF NextInTable
<1>3. Ahead = AheadAt(d, walk.table, walk.index)
  BY DEF Ahead, AheadAt
<1>4. PICK b \in AheadAt(d, walk.table, walk.index) :
        /\ Chain(d, b[1], b[2]) # <<>>
        /\ \A h \in AheadAt(d, walk.table, walk.index) : Earlier(h, b) => Chain(d, h[1], h[2]) = <<>>
        /\ ReturnEntry(Head(Chain(d, b[1], b[2])), b[1], b[2])
  BY <1>3 DEF NextInTable
<1>5. /\ walk.table \in 0..1 /\ walk.index \in Int /\ walk.index >= -1
      /\ walk.table = 1 => IsRehashing(d)
  BY <1>1, <1>2, IteratorDue
<1> DEFINE t == b[1]
           i == b[2]
           c == Chain(d, t, i)
           a == 1
           k == c[a]
           n == After(k, t)
<1>6. /\ AtBucket(d, t, i) /\ c \in Seq(Keys) /\ a \in 1..Len(c)
      /\ \A x : Due(d, walk.table, walk.index, NoKey, x) <=> Due(d, t, i, k, x)
  BY <1>1, <1>4, <1>5, Entered
<1>7. Head(c) = k
  <2>1. c # <<>>
    BY <1>4
  <2> HIDE DEF c
  <2> QED BY <1>6, <2>1, HeadTailProperties
<1>8. walk' = ReturnsTo(walk, t, i, k, n)
  <2>1. ReturnEntry(k, t, i)
    BY <1>4, <1>7
  <2> HIDE DEF t, i, k
  <2> QED BY <2>1, Zenon DEF ReturnEntry, ReturnsTo
<1>9. GoodDict(d') /\ d'.ht = d.ht /\ d'.rehashidx = d.rehashidx /\ d'.iterators = 1
  <2>1. CASE Unstarted(walk)
    <3>1. d.iterators = 0 /\ d' = [d EXCEPT !.iterators = 0 + 1]
      BY <1>1, <1>2, <2>1 DEF CountIterator, Unstarted, Counted
    <3>2. d' = [d EXCEPT !.iterators = 1] /\ 1 \in Nat
      BY <3>1
    <3> QED BY <1>1, <3>2, IteratorsSet
  <2>2. CASE ~ Unstarted(walk)
    <3>1. d' = d /\ d.iterators = 1
      BY <1>1, <1>2, <2>2 DEF CountIterator, Unstarted, Counted
    <3> QED BY <1>1, <3>1
  <2> QED BY <2>1, <2>2
<1>10. ASSUME NEW y PROVE DueTo(d, walk, y) <=> Due(d, t, i, k, y)
  BY <1>2, <1>6 DEF DueTo
<1>11. c = Chain(d, t, i) /\ n = After(k, t) /\ k = c[a]
  OBVIOUS
<1> HIDE DEF t, i, k, c, n, a
<1>12. n = NextAfter(c, a)
  BY <1>1, <1>6, <1>11, AfterIsNext
<1> DEFINE f == d'
           x == walk'
<1>13. /\ GoodDict(f) /\ f.ht = d.ht /\ f.rehashidx = d.rehashidx /\ f.iterators = 1
       /\ x = ReturnsTo(walk, t, i, k, n)
  BY <1>8, <1>9
<1> HIDE DEF f, x
<1>14. GoodState(f, stored, x)
  BY ONLY <1>1, <1>2, <1>6, <1>10, <1>11, <1>12, <1>13, ReturnedGood
<1> QED BY <1>2, <1>14 DEF DictInv, f, x

\* dictReleaseIterator
LEMMA ReleasedGood ==
  ASSUME DictInv, walk.kind = "iterator", NEW f, f = Released
  PROVE  GoodDict(f) /\ HeldBy(f) = HeldBy(d) /\ f.iterators = 0 /\ f.ht = d.ht
<1>1. GoodDict(d) /\ d.iterators = IF Counted(walk) THEN 1 ELSE 0
  BY DEF DictInv, GoodState, CountRight
<1>2. CASE Unstarted(walk)
  BY <1>1, <1>2 DEF Released, Unstarted, Counted
<1>3. CASE ~ Unstarted(walk)
  <2>1. d.iterators = 1 /\ f = [d EXCEPT !.iterators = 1 - 1]
    BY <1>1, <1>3 DEF Released, Unstarted, Counted
  <2>2. f = [d EXCEPT !.iterators = 0] /\ 0 \in Nat
    BY <2>1
  <2> QED BY <1>1, <2>2, IteratorsSet
<1> QED BY <1>2, <1>3

LEMMA NextEndsStep ==
  ASSUME DictInv, NextEnds
  PROVE  DictInv'
<1>1. /\ walk.kind = "iterator" /\ walk.next = NoKey /\ stored' = stored
      /\ walk' = [walk EXCEPT !.kind = "iterated", !.entry = NoKey] /\ d' = Released
      /\ \A a \in AheadAt(d, walk.table, walk.index) : Chain(d, a[1], a[2]) = <<>>
  BY DEF NextEnds, Ahead, AheadAt
<1>2. walk \in Walks /\ ~ walk.twice /\ stored = HeldBy(d) /\ walk.since \subseteq stored
  BY DEF DictInv, GoodState
<1>3. GoodDict(d') /\ HeldBy(d') = HeldBy(d) /\ d'.iterators = 0
  BY <1>1, ReleasedGood
<1>4. /\ walk' \in Walks /\ walk'.kind = "iterated" /\ walk'.seen = walk.seen
      /\ walk'.since = walk.since /\ walk'.twice = walk.twice
  BY <1>1, <1>2 DEF Walks
<1>5. \A k \in walk.since : k \in walk.seen
  <2> TAKE k \in walk.since
  <2>1. k \in walk.seen \/ DueTo(d, walk, k)
    BY <1>1, IteratorDue DEF DictInv
  <2>2. ~ DueTo(d, walk, k)
    BY <1>1, NothingFollows DEF DueTo, Due, InBuckets
  <2> QED BY <2>1, <2>2
<1>6. ~ Counted(walk')
  BY <1>4 DEF Counted
<1> QED BY <1>1, <1>2, <1>3, <1>4, <1>5, <1>6 DEF DictInv, GoodState, CountRight

\* The walk that is none
LEMMA NoWalkGood ==
  /\ NoWalk \in Walks /\ NoWalk.kind = "none" /\ NoWalk.since = {} /\ ~ NoWalk.twice
  /\ ~ Counted(NoWalk) /\ Unstarted(NoWalk)
  /\ NoWalk.seen = {} /\ NoWalk.next = NoKey /\ NoWalk.entry = NoKey /\ NoWalk.v = 0
BY DEF NoWalk, Walks, Counted, Unstarted

LEMMA BreakOffStep ==
  ASSUME DictInv, BreakOff
  PROVE  DictInv' /\ walk' = NoWalk
<1>1. walk.kind = "iterator" /\ walk' = NoWalk /\ d' = Released /\ stored' = stored
  BY DEF BreakOff
<1>2. GoodDict(d') /\ HeldBy(d') = HeldBy(d) /\ d'.iterators = 0
  BY <1>1, ReleasedGood
<1> QED BY <1>1, <1>2, NoWalkGood DEF DictInv, GoodState, CountRight

LEMMA ForgetStep ==
  ASSUME DictInv, Forget
  PROVE  DictInv' /\ walk' = NoWalk
<1>1. /\ walk.kind \in {"iterated", "scanned"} /\ walk' = NoWalk /\ d' = d /\ stored' = stored
  BY DEF Forget
<1>2. d.iterators = 0
  BY <1>1 DEF DictInv, GoodState, CountRight, Counted
<1> QED BY <1>1, <1>2, NoWalkGood DEF DictInv, GoodState, CountRight

\* A walk begins with nothing seen.
LEMMA WalkBegins ==
  ASSUME DictInv, walk.kind = "none", UNCHANGED <<d, stored>>,
         NEW m \in {"iterator", "scan"}, walk' = [NoWalk EXCEPT !.kind = m, !.since = stored]
  PROVE  DictInv' /\ walk'.since = stored /\ walk'.v = 0 /\ walk'.kind = m
<1>1. GoodDict(d) /\ stored = HeldBy(d) /\ d.iterators = 0 /\ stored \subseteq Keys
  BY HeldAreKeys DEF DictInv, GoodState, CountRight, Counted
<1>2. /\ walk' \in Walks /\ walk'.kind = m /\ walk'.since = stored /\ walk'.v = 0
      /\ walk'.index = -1 /\ walk'.table = 0 /\ walk'.seen = {} /\ walk'.next = NoKey
      /\ walk'.entry = NoKey /\ walk'.twice = FALSE
  <2>1. walk' = [kind |-> m, v |-> 0, table |-> 0, index |-> -1, entry |-> NoKey,
                 next |-> NoKey, seen |-> {}, twice |-> FALSE, since |-> stored]
    BY DEF NoWalk
  <2>2. m \in {"none", "iterator", "iterated", "wild", "scan", "scanned"}
    OBVIOUS
  <2> QED BY ONLY <1>1, <2>1, <2>2 DEF Walks
<1>3. ~ Counted(walk') /\ Unstarted(walk')
  BY <1>2 DEF Counted, Unstarted
<1>4. GoodIterator(d', stored', walk')
  BY <1>2, <1>3 DEF GoodIterator
<1>5. m # "iterated"
  OBVIOUS
<1>6. d' = d /\ stored' = stored
  OBVIOUS
<1> QED BY <1>1, <1>2, <1>3, <1>4, <1>5, <1>6 DEF DictInv, GoodState, CountRight

\* The cursor
LEMMA CursorIsNat ==
  ASSUME NEW v \in Nat, NEW n \in Nat \ {0}
  PROVE  RevIncrement(v % n, n) \in Nat
<1> DEFINE u == v % n
           zeros == {p \in 1..n - 1 : n % p = 0 /\ (u \div p) % 2 = 0}
<1>1. CASE zeros = {}
  BY <1>1 DEF RevIncrement
<1>2. CASE zeros # {}
  <2>1. zeros \in SUBSET Nat /\ \A y \in zeros : y <= n
    OBVIOUS
  <2>2. \A p \in zeros : p \in Nat \ {0}
    OBVIOUS
  <2>3. RevIncrement(u, n) = (u % Max(zeros)) + Max(zeros)
    BY <1>2 DEF RevIncrement
  <2>4. u \in Nat
    OBVIOUS
  <2> HIDE DEF zeros, u
  <2>5. Max(zeros) \in Nat \ {0}
    BY <1>2, <2>1, <2>2, MaxIsGreatest
  <2> DEFINE q == Max(zeros)
  <2> HIDE DEF q
  <2>6. (u % q) + q \in Nat
    BY <2>4, <2>5 DEF q
  <2> QED BY <2>3, <2>6 DEF u, q
<1> QED BY <1>1, <1>2

\* The size the cursor is incremented for
LEMMA ScanSizeFacts ==
  ASSUME GoodDict(d), DictSize(d) # 0
  PROVE  ScanSize \in SizesOf(d) /\ ScanSize \in Sizes /\ ScanSize \in Nat \ {0}
<1>1. \A t \in 0..1 : d.ht[t].size \in {0} \cup Sizes
  BY SizeTypes
<1>2. d.ht[0].size # 0
  BY SizeIsHeld, TableThere
<1>3. ScanSize = d.ht[0].size \/ (ScanSize = d.ht[1].size /\ d.ht[1].size # 0)
  <2>1. CASE IsRehashing(d)
    <3>1. d.ht[1].size # 0
      BY <2>1 DEF GoodDict, GoodRehash, IsRehashing
    <3> QED BY <2>1, <3>1 DEF ScanSize, Smaller
  <2>2. CASE ~ IsRehashing(d)
    BY <2>2 DEF ScanSize
  <2> QED BY <2>1, <2>2
<1>4. d.ht[0].size \in Sizes /\ (d.ht[1].size # 0 => d.ht[1].size \in Sizes)
  BY <1>1, <1>2
<1>5. ScanSize \in Sizes /\ ScanSize # 0
  BY <1>2, <1>3, <1>4
<1>6. ScanSize \in SizesOf(d)
  BY <1>2, <1>3 DEF SizesOf
<1> QED BY <1>5, <1>6, SizeFacts

\* dictScan gives out keys.
LEMMA EmitsAreKeys ==
  ASSUME GoodDict(d), DictSize(d) # 0, walk.v \in Nat
  PROVE  ScanEmits \subseteq Keys
<1>1. d.ht[0].size \in Nat \ {0} /\ d.ht[1].size \in Nat
  BY SizeTypes, SizeIsHeld, TableThere
<1>2. \A t \in 0..1 : \A i \in 0..d.ht[t].size - 1 : ToSet(Chain(d, t, i)) \subseteq Keys
  BY ChainGood
<1>3. CASE ~ IsRehashing(d)
  <2>1. ScanEmits = ToSet(Chain(d, 0, walk.v % d.ht[0].size))
    BY <1>3 DEF ScanEmits
  <2>2. walk.v % d.ht[0].size \in 0..d.ht[0].size - 1 /\ 0 \in 0..1
    BY <1>1
  <2> QED BY <1>2, <2>1, <2>2
<1>4. CASE IsRehashing(d)
  <2> DEFINE s == Smaller
             small == d.ht[s].size
             large == d.ht[1 - s].size
  <2>1. s \in 0..1 /\ 1 - s \in 0..1
    BY DEF Smaller
  <2>2. ScanEmits = ToSet(Chain(d, s, walk.v % small))
                      \cup UNION {ToSet(Chain(d, 1 - s, i)) : i \in Expansions(walk.v, small, large)}
    BY <1>4 DEF ScanEmits
  <2>3. small \in Nat \ {0}
    <3>1. d.ht[1].size # 0
      BY <1>4 DEF GoodDict, GoodRehash, IsRehashing
    <3> QED BY <1>1, <3>1 DEF Smaller
  <2>4. walk.v % small \in 0..small - 1
    <3> HIDE DEF small
    <3> QED BY <2>3
  <2>5. Expansions(walk.v, small, large) \subseteq 0..large - 1
    BY DEF Expansions
  <2> HIDE DEF s
  <2> QED BY <1>2, <2>1, <2>2, <2>4, <2>5
<1> QED BY <1>3, <1>4

\* A call of dictScan leaves the dict alone.
LEMMA ScanNextStep ==
  ASSUME DictInv, ScanNext
  PROVE  DictInv'
<1> DEFINE v == RevIncrement(walk.v % ScanSize, ScanSize)
           m == IF v = 0 THEN "scanned" ELSE "scan"
           s == walk.seen \cup ScanEmits
<1>1. /\ walk.kind = "scan" /\ DictSize(d) # 0 /\ d' = d /\ stored' = stored
      /\ walk' = [walk EXCEPT !.kind = m, !.v = v, !.seen = s]
  BY Zenon DEF ScanNext
<1>2. /\ walk \in Walks /\ ~ walk.twice /\ GoodDict(d) /\ stored = HeldBy(d) /\ walk.since \subseteq stored
      /\ d.iterators = 0
  BY <1>1 DEF DictInv, GoodState, CountRight, Counted
<1>3. v \in Nat
  BY <1>1, <1>2, ScanSizeFacts, CursorIsNat DEF Walks
<1>4. s \in SUBSET Keys
  <2>1. ScanEmits \subseteq Keys
    BY <1>1, <1>2, EmitsAreKeys DEF Walks
  <2> QED BY <1>2, <2>1 DEF Walks
<1>5. m \in {"scan", "scanned"}
  OBVIOUS
<1> HIDE DEF v, m, s
<1>6. /\ walk' \in Walks /\ walk'.kind = m /\ walk'.since = walk.since
      /\ walk'.twice = walk.twice
  BY <1>1, <1>2, <1>3, <1>4, <1>5 DEF Walks
<1>7. m # "iterator" /\ m # "iterated"
  BY <1>5
<1>8. ~ Counted(walk')
  BY <1>6, <1>7 DEF Counted
<1> QED BY <1>1, <1>2, <1>5, <1>6, <1>7, <1>8 DEF DictInv, GoodState, CountRight

LEMMA ScanOfNothingStep ==
  ASSUME DictInv, ScanOfNothing
  PROVE  DictInv' /\ stored = {}
<1>1. /\ walk.kind = "scan" /\ DictSize(d) = 0 /\ d' = d /\ stored' = stored
      /\ walk' = [walk EXCEPT !.kind = "scanned"]
  BY DEF ScanOfNothing
<1>2. /\ walk \in Walks /\ ~ walk.twice /\ GoodDict(d) /\ stored = HeldBy(d) /\ walk.since \subseteq stored
      /\ d.iterators = 0
  BY <1>1 DEF DictInv, GoodState, CountRight, Counted
<1>3. /\ walk' \in Walks /\ walk'.kind = "scanned" /\ walk'.since = walk.since
      /\ walk'.twice = walk.twice
  BY <1>1, <1>2 DEF Walks
<1>4. ~ Counted(walk')
  BY <1>3 DEF Counted
<1>5. stored = {}
  BY <1>1, <1>2, SizeIsHeld
<1> QED BY <1>1, <1>2, <1>3, <1>4, <1>5 DEF DictInv, GoodState, CountRight

\* DictInv is inductive.
LEMMA DictInvInit == DictInit => DictInv
<1> SUFFICES ASSUME DictInit PROVE DictInv
  OBVIOUS
<1>1. d = NewDict /\ stored = {} /\ walk = NoWalk
  BY DEF DictInit
<1>2. GoodDict(d) /\ HeldBy(d) = {} /\ d.iterators = 0
  BY <1>1, NewDictGood
<1> QED BY <1>1, <1>2, NoWalkGood DEF DictInv, GoodState, CountRight

LEMMA DictInvNext == DictInv /\ [DictNext]_dictVars => DictInv'
<1> SUFFICES ASSUME DictInv, [DictNext]_dictVars PROVE DictInv'
  OBVIOUS
<1>1. CASE UNCHANGED dictVars
  BY <1>1 DEF DictInv, dictVars
<1>2. ASSUME NEW k \in Keys, Add(k) PROVE DictInv'
  BY <1>2, AddStep
<1>3. ASSUME NEW k \in Keys, Delete(k) PROVE DictInv'
  BY <1>3, DeletionStep
<1>4. CASE Find
  <2>1. d' = RehashStep(d) /\ stored' = stored /\ walk' = walk
    BY <1>4 DEF Find
  <2> QED BY <2>1, RehashStepGood DEF DictInv
<1>5. CASE Resize
  <2>1. PICK n : Fits(n) /\ Asks(n) /\ UNCHANGED <<stored, walk>>
    BY <1>5, ResizeStep
  <2> QED BY <2>1, ExpandStep DEF Asks
<1>6. ASSUME NEW n \in Asked, ExpandTo(n) PROVE DictInv'
  BY <1>6, AskedFits, ExpandStep DEF ExpandTo, Asks
<1>7. CASE Empty
  BY <1>7, EmptyStep
<1>8. CASE GetSafeIterator
  BY <1>8, WalkBegins DEF GetSafeIterator
<1>9. CASE NextInChain
  BY <1>9, NextInChainStep
<1>10. CASE NextInTable
  BY <1>10, NextInTableStep
<1>11. CASE NextEnds
  BY <1>11, NextEndsStep
<1>12. CASE BreakOff
  BY <1>12, BreakOffStep
<1>13. CASE ScanBegins
  BY <1>13, WalkBegins DEF ScanBegins
<1>14. CASE ScanNext
  BY <1>14, ScanNextStep
<1>15. CASE ScanOfNothing
  BY <1>15, ScanOfNothingStep
<1>16. CASE Forget
  BY <1>16, ForgetStep
<1> QED BY <1>1, <1>2, <1>3, <1>4, <1>5, <1>6, <1>7, <1>8, <1>9, <1>10, <1>11, <1>12, <1>13,
           <1>14, <1>15, <1>16 DEF DictNext

LEMMA DictInvAlways == DictSpec => []DictInv
BY DictInvInit, DictInvNext, PTL DEF DictSpec

\* Whatever was rehashed, expanded and shrunk in between, a lookup finds exactly
\* the keys added and not deleted, and the dict counts them.
THEOREM LookupIsStoredCorrect == DictSpec => []LookupIsStored
<1>1. DictInv => LookupIsStored
  <2> SUFFICES ASSUME DictInv PROVE LookupIsStored
    OBVIOUS
  <2>1. GoodDict(d) /\ stored = HeldBy(d)
    BY DEF DictInv, GoodState
  <2> QED BY <2>1, LookupHeld, SizeIsHeld DEF LookupIsStored
<1> QED BY <1>1, DictInvAlways, PTL

\* The buckets below rehashidx are empty, and rehashidx is within the table while
\* there is something to move.
THEOREM RehashedEmptyCorrect == DictSpec => []RehashedEmpty
<1>1. DictInv => RehashedEmpty
  <2> SUFFICES ASSUME DictInv, IsRehashing(d)
               PROVE  /\ \A i \in 0..d.rehashidx - 1 : Chain(d, 0, i) = <<>>
                      /\ d.ht[0].used # 0 => d.rehashidx < d.ht[0].size
    BY DEF RehashedEmpty
  <2>1. /\ GoodTable(d.ht[0]) /\ d.ht[0].size \in Nat
        /\ d.rehashidx \in 0..d.ht[0].size
        /\ \A i \in 0..d.rehashidx - 1 : d.ht[0].bucket[i] = <<>>
    BY SizeTypes DEF DictInv, GoodState, GoodDict, GoodRehash, IsRehashing
  <2>2. ASSUME d.ht[0].used # 0 PROVE d.rehashidx < d.ht[0].size
    <3>1. PICK i \in 0..d.ht[0].size - 1 : d.ht[0].bucket[i] # <<>>
      BY <2>1, <2>2, NothingHeld
    <3>2. i \notin 0..d.rehashidx - 1
      BY <2>1, <3>1
    <3> QED BY <2>1, <3>1, <3>2
  <2> QED BY <2>1, <2>2 DEF Chain
<1> QED BY <1>1, DictInvAlways, PTL

\* While the caller adds and looks up what it likes, and deletes, under an iterator,
\* anything but the one entry whose address the iterator has saved, a safe iterator
\* returns every key that stays in the dict, none twice, and none that was freed.
THEOREM SafeIterationCorrect ==
  ASSUME IteratorHeeded
  PROVE  DictSpec => []SafeIteration
<1>1. DictInv => SafeIteration
  BY DEF DictInv, GoodState, SafeIteration
<1> QED BY <1>1, DictInvAlways, PTL


\* used counts the entries.
LEMMA EntriesCounted ==
  ASSUME GoodDict(d), NEW t \in 0..1
  PROVE  d.ht[t].used = Cardinality(Entries(t))
<1> DEFINE H == Held(d.ht[t])
           P == Entries(t)
           KeyAt(p) == Chain(d, t, p[1])[p[2]]
           g == [k \in H |-> CHOOSE p \in P : KeyAt(p) = k]
<1>1. GoodTable(d.ht[t])
  BY SizeTypes
<1>2. \A p \in P : /\ p = <<p[1], p[2]>> /\ p[1] \in 0..d.ht[t].size - 1
                   /\ p[2] \in 1..Len(Chain(d, t, p[1]))
  <2> TAKE p \in P
  <2>1. PICK i \in 0..d.ht[t].size - 1 : \E j \in 1..Len(Chain(d, t, i)) : p = <<i, j>>
    BY DEF Entries
  <2> QED BY <2>1
<1>3. \A i \in 0..d.ht[t].size - 1 : \A j \in 1..Len(Chain(d, t, i)) : <<i, j>> \in P
  BY DEF Entries
<1>4. \A i \in 0..d.ht[t].size - 1 : Chain(d, t, i) \in Seq(Keys) /\ Distinct(Chain(d, t, i))
  BY ChainGood
<1>5. ASSUME NEW k \in H PROVE \E p \in P : KeyAt(p) = k
  <2>1. PICK i \in 0..d.ht[t].size - 1 : k \in ToSet(d.ht[t].bucket[i])
    BY <1>1, HeldInChain DEF GoodTable
  <2>2. Chain(d, t, i) \in Seq(Keys) /\ k \in ToSet(Chain(d, t, i))
    BY <2>1, <1>4 DEF Chain
  <2>3. PICK j \in 1..Len(Chain(d, t, i)) : Chain(d, t, i)[j] = k
    BY <2>2, ChainFacts
  <2> DEFINE p == <<i, j>>
  <2>4. p \in P /\ p[1] = i /\ p[2] = j
    BY <1>3
  <2> HIDE DEF p
  <2> QED BY <2>3, <2>4
<1>6. ASSUME NEW p \in P PROVE KeyAt(p) \in H /\ KeyAt(p) \in ToSet(Chain(d, t, p[1]))
  <2>1. KeyAt(p) \in ToSet(Chain(d, t, p[1]))
    BY <1>2, <1>4, ChainFacts
  <2>2. KeyAt(p) \in H
    BY <2>1, <1>2, ChainGood
  <2> QED BY <2>1, <2>2
<1>7. ASSUME NEW p \in P, NEW q \in P, KeyAt(p) = KeyAt(q) PROVE p = q
  <2>1. p[1] = q[1]
    <3>1. KeyAt(p) \in ToSet(Chain(d, t, p[1])) /\ KeyAt(p) \in ToSet(Chain(d, t, q[1]))
      BY <1>6, <1>7
    <3> DEFINE k == KeyAt(p)
    <3> HIDE DEF k
    <3>2. k \in ToSet(Chain(d, t, p[1])) /\ k \in ToSet(Chain(d, t, q[1]))
      BY <3>1 DEF k
    <3> QED BY <3>2, <1>2, OnePlace
  <2>2. p[2] = q[2]
    BY <2>1, <1>2, <1>4, <1>7 DEF Distinct
  <2> QED BY <2>1, <2>2, <1>2
<1> HIDE DEF P, H, KeyAt
<1>8. \A k \in H : g[k] \in P /\ KeyAt(g[k]) = k
  BY <1>5
<1>9. g \in [H -> P]
  BY <1>5
<1> HIDE DEF g
<1>10. \A k, l \in H : g[k] = g[l] => k = l
  BY <1>8
<1>11. \A p \in P : \E k \in H : g[k] = p
  BY <1>6, <1>7, <1>8
<1>12. ExistsBijection(H, P)
  BY <1>9, <1>10, <1>11 DEF ExistsBijection, Bijection, Injection, Surjection, IsInjective
<1>13. IsFiniteSet(H)
  BY HeldFinite DEF H
<1>14. Cardinality(P) = Cardinality(H)
  BY ONLY <1>12, <1>13, FS_Bijection
<1> QED BY <1>1, <1>14 DEF GoodTable, H, P

\* The variables stay in their ranges, each table counts its entries, and the second
\* table is there exactly while the dict is being rehashed.
THEOREM DictTypeCorrect == DictSpec => []DictTypeOK
<1>1. DictInv => DictTypeOK
  <2> SUFFICES ASSUME DictInv PROVE DictTypeOK
    OBVIOUS
  <2>1. /\ GoodDict(d) /\ stored = HeldBy(d) /\ walk \in Walks /\ walk.since \subseteq stored
        /\ d.iterators \in 0..1
    BY DEF DictInv, GoodState, CountRight
  <2>2. stored \subseteq Keys
    BY <2>1, HeldAreKeys
  <2>3. \A t \in 0..1 : /\ d.ht[t].size \in {0} \cup Sizes
                        /\ d.ht[t].bucket \in [0..d.ht[t].size - 1 -> Seq(Keys)]
                        /\ d.ht[t].used = Cardinality(Entries(t))
    BY <2>1, SizeTypes, EntriesCounted DEF GoodTable, GoodChains
  <2>4. GoodRehash(d) /\ d.ht[0].size \in Nat
    BY <2>1, SizeTypes DEF GoodDict
  <2>5. d.rehashidx \in -1..d.ht[0].size /\ (IsRehashing(d) <=> d.ht[1].size # 0)
    BY <2>4 DEF GoodRehash, IsRehashing
  <2>6. walk.seen \subseteq Keys
    BY <2>1 DEF Walks
  <2> QED BY <2>1, <2>2, <2>3, <2>5, <2>6 DEF DictTypeOK
<1> QED BY <1>1, DictInvAlways, PTL


-----------------------------------------------------------------------------
(* Bits and powers of two                                                  *)

\* Quotient and remainder
LEMMA DivMod ==
  ASSUME NEW h \in Nat, NEW q \in Nat \ {0}
  PROVE  /\ h \div q \in Nat /\ h % q \in Nat /\ h % q < q /\ h % q <= h
         /\ q * (h \div q) \in Nat /\ h = q * (h \div q) + (h % q)
<1>1. h \div q \in Nat /\ h % q \in 0..q - 1 /\ h = q * (h \div q) + (h % q)
  OBVIOUS
<1>2. q * (h \div q) \in Nat
  BY <1>1
<1> DEFINE a == q * (h \div q)  b == h % q
<1>3. a \in Nat /\ b \in 0..q - 1 /\ h = a + b
  BY <1>1, <1>2
<1> HIDE DEF a, b
<1>4. b \in Nat /\ b < q /\ b <= h
  BY <1>3
<1> QED BY <1>1, <1>3, <1>4 DEF a, b

\* A greater factor makes a product greater by the other factor at least.
LEMMA TimesLess ==
  ASSUME NEW q \in Nat, NEW a \in Nat, NEW b \in Nat, a < b
  PROVE  q * a \in Nat /\ q * a + q <= q * b
<1>1. PICK c \in Nat : b = a + 1 + c
  <2>1. b - a - 1 \in Nat /\ b = a + 1 + (b - a - 1)
    OBVIOUS
  <2> QED BY <2>1
<1>2. q * b = q * a + q + q * c
  BY <1>1
<1>3. q * c \in Nat /\ q * a \in Nat
  OBVIOUS
<1> QED BY <1>2, <1>3

\* There is one quotient and one remainder only.
LEMMA DivModUnique ==
  ASSUME NEW h \in Nat, NEW q \in Nat \ {0}, NEW a \in Nat, NEW b \in Nat, b < q, h = q * a + b
  PROVE  h \div q = a /\ h % q = b
<1> DEFINE c == h \div q
           r == h % q
           x == q * a
           y == q * c
<1>1. c \in Nat /\ r \in Nat /\ r < q /\ y \in Nat /\ h = y + r
  BY DivMod
<1>2. x \in Nat /\ h = x + b
  OBVIOUS
<1>3. a < c => x + q <= y
  BY <1>1, TimesLess
<1>4. c < a => y + q <= x
  BY <1>1, TimesLess
<1>5. a = c => x = y
  OBVIOUS
<1> HIDE DEF c, r, x, y
<1>6. a = c
  BY <1>1, <1>2, <1>3, <1>4
<1>7. b = r
  BY <1>1, <1>2, <1>5, <1>6
<1> QED BY <1>6, <1>7 DEF c, r

\* A number is its own remainder when it is the smaller one.
LEMMA SmallMod ==
  ASSUME NEW h \in Nat, NEW q \in Nat \ {0}, h < q
  PROVE  h % q = h /\ h \div q = 0
<1>1. h = q * 0 + h
  OBVIOUS
<1> QED BY <1>1, DivModUnique

\* Remainders of 2q are told apart by the remainder of q and one bit more.
LEMMA TwiceMod ==
  ASSUME NEW h \in Nat, NEW q \in Nat \ {0}
  PROVE  h % (2 * q) = q * ((h \div q) % 2) + (h % q)
<1> DEFINE a == h \div q
           b == h % q
           c == a \div 2
           r == a % 2
<1>1. a \in Nat /\ b \in Nat /\ b < q /\ h = q * a + b
  BY DivMod
<1> HIDE DEF a, b
<1>2. c \in Nat /\ r \in {0, 1} /\ a = 2 * c + r
  BY <1>1
<1> HIDE DEF c, r
<1> DEFINE m == 2 * q
           s == q * r + b
<1>3. s \in Nat /\ s < m
  <2>1. q * r = 0 \/ q * r = q
    BY <1>2
  <2> QED BY <1>1, <2>1
<1>4. h = m * c + s
  <2>1. q * a = q * (2 * c) + q * r
    BY <1>2
  <2>2. q * (2 * c) = m * c
    BY <1>2
  <2> DEFINE x == q * a  y == m * c  z == q * r
  <2>3. x = y + z /\ h = x + b /\ s = z + b /\ y \in Nat /\ z \in Nat /\ b \in Nat
    BY <1>1, <1>2, <2>1, <2>2
  <2> HIDE DEF x, y, z, s
  <2>4. h = y + s
    BY ONLY <2>3
  <2> QED BY <2>4 DEF y
<1>5. m \in Nat \ {0}
  OBVIOUS
<1> HIDE DEF m, s
<1>6. h % m = s
  BY <1>2, <1>3, <1>4, <1>5, DivModUnique
<1> QED BY <1>6 DEF m, s, a, b, r

\* n is a multiple of q.
LEMMA ModOfMod ==
  ASSUME NEW h \in Nat, NEW q \in Nat \ {0}, NEW n \in Nat \ {0}, n % q = 0
  PROVE  (h % n) % q = h % q
<1> DEFINE a == h \div n
           b == h % n
           c == n \div q
           x == b \div q
           y == b % q
<1>1. a \in Nat /\ b \in Nat /\ h = n * a + b
  BY DivMod
<1>2. c \in Nat /\ n = q * c
  <2>1. c \in Nat /\ q * c \in Nat /\ n = q * c + (n % q)
    BY DivMod
  <2> DEFINE z == q * c
  <2>2. z \in Nat /\ n = z + 0
    BY <2>1
  <2> HIDE DEF z, c
  <2>3. n = z
    BY <2>2
  <2> QED BY <2>1, <2>3 DEF z
<1> HIDE DEF b, c
<1>3. x \in Nat /\ y \in Nat /\ y < q /\ b = q * x + y
  BY <1>1, DivMod
<1> HIDE DEF a, x, y
<1> DEFINE z == c * a + x
<1>4. z \in Nat /\ h = q * z + y
  <2>1. z \in Nat
    BY <1>1, <1>2, <1>3
  <2>2. n * a = q * (c * a)
    BY <1>1, <1>2
  <2>3. q * z = q * (c * a) + q * x
    BY <1>1, <1>2, <1>3
  <2>4. q * x \in Nat /\ q * (c * a) \in Nat
    BY <1>1, <1>2, <1>3
  <2> QED BY ONLY <1>1, <1>3, <2>1, <2>2, <2>3, <2>4
<1> HIDE DEF z
<1>5. h % q = y
  BY <1>3, <1>4, DivModUnique
<1> QED BY <1>5 DEF y, b

\* The bit of h that counts q
Bit(h, q) == (h \div q) % 2

\* It extends the remainder.
LEMMA BitFacts ==
  ASSUME NEW h \in Nat, NEW q \in Nat \ {0}
  PROVE  Bit(h, q) \in {0, 1} /\ h % (2 * q) = q * Bit(h, q) + (h % q)
<1>1. h \div q \in Nat
  BY DivMod
<1>2. (h \div q) % 2 \in {0, 1}
  BY <1>1
<1>3. h % (2 * q) = q * ((h \div q) % 2) + (h % q)
  BY TwiceMod
<1> QED BY <1>2, <1>3, Zenon DEF Bit

\* The remainder of 2q has the same bit at q.
LEMMA BitOfMod ==
  ASSUME NEW h \in Nat, NEW u \in Nat, NEW q \in Nat \ {0}, h % (2 * q) = u % (2 * q)
  PROVE  Bit(h, q) = Bit(u, q) /\ h % q = u % q
<1> DEFINE a == Bit(h, q)
           b == Bit(u, q)
           x == h % q
           y == u % q
<1>1. a \in {0, 1} /\ b \in {0, 1} /\ q * a + x = q * b + y
  BY BitFacts
<1>2. x \in Nat /\ x < q /\ y \in Nat /\ y < q
  BY DivMod
<1> HIDE DEF a, b, x, y
<1>3. q * 0 = 0 /\ q * 1 = q
  OBVIOUS
<1>4. a = b /\ x = y
  BY <1>1, <1>2, <1>3
<1> QED BY <1>4 DEF a, b, x, y

-----------------------------------------------------------------------------

\* A power of two but 1 is twice another one.
LEMMA HalfOfPower ==
  ASSUME NEW n \in PowersOfTwo, n # 1
  PROVE  \E m \in PowersOfTwo : n = 2 * m /\ m < n
<1>1. n \in Nat \ {0} /\ \A p \in 1..n : n % p = 0 => p = 1 \/ p % 2 = 0
  BY DEF PowersOfTwo
<1>2. n % n = 0
  <2>1. n = n * 1 + 0
    BY <1>1
  <2> QED BY <1>1, <2>1, DivModUnique
<1>3. n % 2 = 0
  BY <1>1, <1>2
<1>4. PICK m \in Nat \ {0} : n = 2 * m
  BY <1>1, <1>3
<1>5. ASSUME NEW p \in 1..m, m % p = 0 PROVE p = 1 \/ p % 2 = 0
  <2>1. n % p = 0
    <3>1. PICK c \in Nat : m = p * c
      <4>1. m \div p \in Nat /\ m = p * (m \div p) + (m % p)
        BY DivMod
      <4>2. p * (m \div p) \in Nat
        BY <4>1
      <4>3. m = p * (m \div p)
        BY <1>5, <4>1, <4>2
      <4> QED BY <4>1, <4>3
    <3>2. n = p * (2 * c) + 0
      BY <1>4, <3>1
    <3> QED BY <1>1, <3>1, <3>2, DivModUnique
  <2>2. p \in 1..n
    BY <1>4
  <2> QED BY <1>1, <2>1, <2>2
<1>6. m \in PowersOfTwo
  BY <1>5 DEF PowersOfTwo
<1>7. m < n
  BY <1>1, <1>4
<1> QED BY <1>4, <1>6, <1>7


-----------------------------------------------------------------------------
(* The order in which dictScan goes over the buckets                        *)

\* Remainder zero is divisibility.
LEMMA DividesFacts ==
  ASSUME NEW n \in Nat \ {0}, NEW p \in Nat \ {0}
  PROVE  /\ n % p = 0 => \E c \in Nat : n = p * c
         /\ \A c \in Nat : n = p * c => n % p = 0
<1>1. ASSUME n % p = 0 PROVE \E c \in Nat : n = p * c
  <2> DEFINE a == n \div p
             b == p * a
  <2>1. a \in Nat /\ b \in Nat /\ n = b + (n % p)
    BY DivMod
  <2> HIDE DEF b
  <2>2. n = b
    BY <1>1, <2>1
  <2> QED BY <2>1, <2>2 DEF b
<1>2. ASSUME NEW c \in Nat, n = p * c PROVE n % p = 0
  <2>1. n = p * c + 0
    BY <1>2
  <2> QED BY <2>1, DivModUnique
<1> QED BY <1>1, <1>2

\* A power of two is no zero, and its divisors are powers of two.
LEMMA PowerIsNat == ASSUME NEW n \in PowersOfTwo PROVE n \in Nat \ {0}
BY DEF PowersOfTwo

LEMMA DivisorOfPower ==
  ASSUME NEW n \in PowersOfTwo, NEW p \in 1..n, n % p = 0
  PROVE  p \in PowersOfTwo
<1>1. n \in Nat \ {0} /\ \A r \in 1..n : n % r = 0 => r = 1 \/ r % 2 = 0
  BY DEF PowersOfTwo
<1>2. ASSUME NEW r \in 1..p, p % r = 0 PROVE r = 1 \/ r % 2 = 0
  <2>1. r \in Nat \ {0} /\ r \in 1..n /\ p \in Nat \ {0}
    BY <1>1
  <2>2. n % r = 0
    <3>1. (n % p) % r = n % r
      <4> QED BY <1>1, <1>2, <2>1, ModOfMod
    <3>2. 0 % r = 0
      BY <2>1, SmallMod
    <3> QED BY <3>1, <3>2
  <2> QED BY <1>1, <2>1, <2>2
<1> QED BY <1>1, <1>2 DEF PowersOfTwo

\* The powers of two are ordered by division.
LEMMA PowersDivide ==
  ASSUME NEW p \in PowersOfTwo, NEW q \in PowersOfTwo, p <= q
  PROVE  q % p = 0
<1> DEFINE Bad == {n \in PowersOfTwo : \E r \in PowersOfTwo : r <= n /\ n % r # 0}
<1> SUFFICES Bad = {}
  OBVIOUS
<1>1. ASSUME Bad # {} PROVE FALSE
  <2>1. Bad \in SUBSET Nat
    BY PowerIsNat
  <2>2. PICK n \in Bad : \A m \in Bad : n <= m
    BY <1>1, <2>1, LeastElement
  <2>3. PICK r \in PowersOfTwo : r <= n /\ n % r # 0
    BY <2>2
  <2>4. n \in PowersOfTwo /\ n \in Nat \ {0} /\ r \in Nat \ {0}
    BY <2>2, PowerIsNat
  <2>5. r # 1
    BY <2>3, <2>4
  <2>6. n # 1
    BY <2>3, <2>4, <2>5
  <2>7. PICK m \in PowersOfTwo : n = 2 * m /\ m < n
    BY <2>4, <2>6, HalfOfPower
  <2>8. PICK s \in PowersOfTwo : r = 2 * s /\ s < r
    BY <2>5, HalfOfPower
  <2>9. m \in Nat \ {0} /\ s \in Nat \ {0}
    BY PowerIsNat
  <2>10. s <= m /\ m \notin Bad
    BY <2>2, <2>3, <2>4, <2>7, <2>8, <2>9
  <2>11. m % s = 0
    BY <2>10
  <2>12. PICK c \in Nat : m = s * c
    BY <2>9, <2>11, DividesFacts
  <2>13. n = r * c
    BY <2>4, <2>7, <2>8, <2>9, <2>12
  <2> QED BY <2>3, <2>4, <2>13, DividesFacts
<1> QED BY <1>1

\* A greater power is a multiple of the double.
LEMMA TwiceDivides ==
  ASSUME NEW p \in PowersOfTwo, NEW q \in PowersOfTwo, p < q
  PROVE  q % (2 * p) = 0 /\ 2 * p <= q
<1>1. p \in Nat \ {0} /\ q \in Nat \ {0}
  BY PowerIsNat
<1>2. q # 1
  BY <1>1
<1>3. PICK m \in PowersOfTwo : q = 2 * m /\ m < q
  BY <1>2, HalfOfPower
<1>4. m \in Nat \ {0}
  BY PowerIsNat
<1>5. p <= m
  <2> SUFFICES ASSUME m < p PROVE FALSE
    BY <1>1, <1>4
  <2>1. m % m = 0 /\ q % p = 0 /\ p % m = 0
    BY <1>1, <1>4, PowersDivide
  <2>2. PICK c \in Nat : p = m * c
    BY <1>1, <1>4, <2>1, DividesFacts
  <2>3. c # 0 /\ c # 1
    BY <1>1, <1>4, <2>2
  <2>4. m * 1 + m <= m * c
    BY <1>4, <2>3, TimesLess
  <2> QED BY <1>1, <1>3, <1>4, <2>2, <2>4
<1>6. PICK c \in Nat : m = p * c
  BY <1>1, <1>4, <1>5, PowersDivide, DividesFacts
<1>7. q = (2 * p) * c
  BY <1>1, <1>3, <1>4, <1>6
<1>8. 2 * p \in Nat \ {0}
  BY <1>1
<1>9. q % (2 * p) = 0
  <2> DEFINE r == 2 * p
  <2>1. r \in Nat \ {0} /\ q = r * c
    BY <1>7, <1>8
  <2> HIDE DEF r
  <2>2. q % r = 0
    BY <1>1, <2>1, DividesFacts
  <2> QED BY <2>2 DEF r
<1>10. 2 * p <= q
  BY <1>1, <1>3, <1>4, <1>5
<1> QED BY <1>9, <1>10

\* Two numbers have the same remainder, or differ first at some bit.
LEMMA Disagree ==
  ASSUME NEW h \in Nat, NEW u \in Nat, NEW n \in PowersOfTwo, h % n # u % n
  PROVE  \E q \in PowersOfTwo : q < n /\ h % q = u % q /\ Bit(h, q) # Bit(u, q)
<1> DEFINE T == {m \in PowersOfTwo : m <= n /\ h % m # u % m}
<1>1. T \in SUBSET Nat /\ n \in T /\ n \in Nat \ {0}
  BY PowerIsNat
<1>2. PICK t \in T : \A m \in T : t <= m
  BY <1>1, LeastElement
<1>3. t \in PowersOfTwo /\ t <= n /\ h % t # u % t /\ t \in Nat \ {0}
  BY <1>2, PowerIsNat
<1>4. t # 1
  BY <1>3
<1>5. PICK q \in PowersOfTwo : t = 2 * q /\ q < t
  BY <1>3, <1>4, HalfOfPower
<1>6. q \in Nat \ {0}
  BY PowerIsNat
<1>7. q < n /\ q \notin T
  BY <1>1, <1>2, <1>3, <1>5, <1>6
<1>8. h % q = u % q
  BY <1>1, <1>6, <1>7
<1>9. Bit(h, q) # Bit(u, q)
  <2>1. h % t = q * Bit(h, q) + (h % q) /\ u % t = q * Bit(u, q) + (u % q)
    BY <1>5, <1>6, BitFacts
  <2> QED BY <1>3, <1>8, <2>1
<1> QED BY <1>7, <1>8, <1>9


\* A bucket is behind the cursor v when the cursor is past it in the order of the
\* reversed bits: at the first bit where they differ, the cursor has the 1.
Behind(h, v) == \E p \in PowersOfTwo : h % p = v % p /\ Bit(h, p) = 0 /\ Bit(v, p) = 1

\* Bits below n are those of the remainder of n.
LEMMA LowBits ==
  ASSUME NEW v \in Nat, NEW n \in PowersOfTwo, NEW p \in PowersOfTwo, p < n
  PROVE  (v % n) % p = v % p /\ Bit(v % n, p) = Bit(v, p)
<1>1. n \in Nat \ {0} /\ p \in Nat \ {0} /\ v % n \in Nat
  BY PowerIsNat, DivMod
<1> DEFINE q == 2 * p
           u == v % n
<1>2. q \in Nat \ {0} /\ n % q = 0
  BY <1>1, TwiceDivides
<1> HIDE DEF q
<1>3. u % q = v % q
  BY <1>1, <1>2, ModOfMod
<1> HIDE DEF u
<1>4. Bit(u, p) = Bit(v, p) /\ u % p = v % p
  BY <1>1, <1>3, BitOfMod DEF q, u
<1> QED BY <1>4 DEF u

\* The bits above a number are 0.
LEMMA BitIsZero ==
  ASSUME NEW v \in Nat, NEW p \in Nat \ {0}, v < p
  PROVE  Bit(v, p) = 0
<1>1. v \div p = 0
  BY SmallMod
<1> QED BY <1>1 DEF Bit

\* The cursor that comes after v in a table of size n
LEMMA NextCursor ==
  ASSUME NEW n \in PowersOfTwo, NEW v \in Nat, NEW w, w = RevIncrement(v % n, n)
  PROVE  /\ w \in Nat /\ w < n
         /\ \A h \in Nat : (w = 0 \/ Behind(h, w)) => (h % n = v % n \/ Behind(h, v))
<1> DEFINE u == v % n
           zeros == {p \in 1..n - 1 : n % p = 0 /\ (u \div p) % 2 = 0}
           q == Max(zeros)
<1>1. n \in Nat \ {0} /\ u \in Nat /\ u < n
  BY PowerIsNat, DivMod
<1>2. w = IF zeros = {} THEN 0 ELSE (u % q) + q
  BY DEF RevIncrement
<1>3. ASSUME zeros # {}
      PROVE  q \in zeros /\ \A p \in zeros : p <= q
  <2>1. zeros \in SUBSET Nat /\ \A y \in zeros : y <= n
    BY <1>1
  <2> HIDE DEF zeros
  <2> QED BY <1>1, <1>3, <2>1, MaxIsGreatest
<1>4. \A p \in zeros : /\ p \in PowersOfTwo /\ p \in Nat \ {0} /\ p < n /\ 2 * p <= n /\ Bit(u, p) = 0
  <2> TAKE p \in zeros
  <2>1. p \in 1..n /\ p < n /\ n % p = 0 /\ Bit(u, p) = 0
    BY <1>1 DEF Bit
  <2>2. p \in PowersOfTwo
    BY <2>1, DivisorOfPower
  <2> QED BY <2>1, <2>2, PowerIsNat, TwiceDivides
<1>5. \A p \in PowersOfTwo : p < n /\ Bit(u, p) = 0 => p \in zeros
  BY <1>1, PowerIsNat, PowersDivide DEF Bit
<1>6. ASSUME zeros # {}
      PROVE  /\ w \in Nat /\ w < n /\ w < 2 * q /\ w # 0 /\ w % q = u % q
  <2>1. q \in Nat \ {0} /\ 2 * q <= n /\ w = (u % q) + q
    BY <1>2, <1>3, <1>4, <1>6
  <2> HIDE DEF q, zeros
  <2> DEFINE b == u % q
  <2>2. b \in Nat /\ b < q
    BY <1>1, <2>1, DivMod
  <2> HIDE DEF b
  <2>3. w = b + q
    BY <2>1 DEF b
  <2>4. w \in Nat /\ w < n /\ w < 2 * q /\ w # 0 /\ w = q * 1 + b
    BY <1>1, <2>1, <2>2, <2>3
  <2>5. w % q = b
    BY <2>1, <2>2, <2>4, DivModUnique
  <2> QED BY <2>4, <2>5 DEF b
<1>7. w \in Nat /\ w < n
  BY <1>1, <1>2, <1>6
<1> HIDE DEF q, zeros
<1>8. ASSUME NEW h \in Nat, w = 0 \/ Behind(h, w), h % n # u
      PROVE  Behind(h, v)
  <2>1. u % n = u
    BY <1>1, SmallMod
  <2>2. PICK r \in PowersOfTwo : r < n /\ h % r = u % r /\ Bit(h, r) # Bit(u, r)
    BY <1>1, <1>8, <2>1, Disagree
  <2>3. r \in Nat \ {0} /\ Bit(h, r) \in {0, 1} /\ Bit(u, r) \in {0, 1}
    BY <1>1, PowerIsNat, BitFacts
  <2>4. \A p \in PowersOfTwo : p < n => u % p = v % p /\ Bit(u, p) = Bit(v, p)
    BY LowBits
  <2>5. CASE Bit(u, r) = 1
    <3>1. Bit(h, r) = 0
      BY <2>2, <2>3, <2>5
    <3> QED BY <2>2, <2>4, <2>5, <3>1 DEF Behind
  <2>6. CASE Bit(u, r) = 0
    <3>1. r \in zeros /\ Bit(h, r) = 1
      BY <1>5, <2>2, <2>3, <2>6
    <3>2. zeros # {} /\ q \in zeros /\ r <= q
      BY <1>3, <3>1
    <3>3. q \in PowersOfTwo /\ q \in Nat \ {0} /\ q < n
      BY <1>4, <3>2
    <3>4. w \in Nat /\ w < n /\ w < 2 * q /\ w # 0 /\ w % q = u % q
      BY <1>6, <3>2
    <3>5. PICK p \in PowersOfTwo : h % p = w % p /\ Bit(h, p) = 0 /\ Bit(w, p) = 1
      BY <1>8, <3>4 DEF Behind
    <3>6. p \in Nat \ {0}
      BY PowerIsNat
    <3>7. CASE q < p
      <4>1. w < p
        BY <3>3, <3>4, <3>6, <3>7, TwiceDivides
      <4> QED BY <3>4, <3>5, <3>6, <4>1, BitIsZero
    <3>8. CASE p < q
      <4>1. p < n
        BY <1>1, <3>3, <3>6, <3>8
      <4>2. w % p = (w % q) % p /\ Bit(w, p) = Bit(w % q, p)
        BY <3>3, <3>4, <3>8, LowBits
      <4>3. u % p = (u % q) % p /\ Bit(u, p) = Bit(u % q, p)
        BY <1>1, <3>3, <3>8, LowBits
      <4>4. h % p = v % p /\ Bit(v, p) = 1
        BY <2>4, <3>4, <3>5, <4>1, <4>2, <4>3
      <4> QED BY <3>5, <4>4 DEF Behind
    <3>9. CASE p = q
      <4>1. r # q
        BY <3>1, <3>5, <3>9
      <4>2. r < q
        BY <2>3, <3>2, <3>3, <4>1
      <4>3. h % q = u % q
        BY <3>4, <3>5, <3>9
      <4>4. Bit(h, r) = Bit(h % q, r) /\ Bit(u, r) = Bit(u % q, r)
        BY <1>1, <3>3, <4>2, LowBits
      <4> QED BY <2>2, <4>3, <4>4
    <3> QED BY <3>3, <3>6, <3>7, <3>8, <3>9
  <2> QED BY <2>3, <2>5, <2>6
<1> QED BY <1>7, <1>8


\* A bucket of the larger table that Expansions leaves out is behind the cursor.
LEMMA SkippedIsBehind ==
  ASSUME NEW small \in PowersOfTwo, NEW large \in PowersOfTwo, small <= large,
         NEW h \in Nat, NEW v \in Nat, v < 2 * small,
         h % small = v % small, h % large < v % large
  PROVE  Behind(h, v)
<1>1. small \in Nat \ {0} /\ large \in Nat \ {0}
  BY PowerIsNat
<1> DEFINE i == h % large
           u == v % small
           a == i \div small
           b == v \div small
<1>2. i \in Nat /\ i < v
  <2>1. h % large \in Nat /\ v % large \in Nat /\ v % large <= v
    BY <1>1, DivMod
  <2> QED BY <2>1
<1>3. i % small = u
  <2>1. large % small = 0
    BY PowersDivide
  <2>2. (h % large) % small = h % small
    BY <1>1, <2>1, ModOfMod
  <2> QED BY <2>2
<1>4. small < large
  <2> SUFFICES ASSUME small = large PROVE FALSE
    BY <1>1
  <2>1. h % small \in Nat /\ ~ (h % small < h % small)
    BY <1>1, DivMod
  <2> QED BY <2>1
<1> HIDE DEF i
<1>5. /\ a \in Nat /\ u \in Nat /\ u < small /\ small * a \in Nat /\ i = small * a + u
      /\ b \in Nat /\ small * b \in Nat /\ v = small * b + u
  <2>1. i % small \in Nat /\ i % small < small /\ a \in Nat /\ small * a \in Nat /\ i = small * a + (i % small)
    BY <1>1, <1>2, DivMod
  <2>2. b \in Nat /\ small * b \in Nat /\ v = small * b + (v % small)
    BY <1>1, DivMod
  <2> QED BY <1>3, <2>1, <2>2
<1> HIDE DEF a, b, u
<1>6. b < 2
  <2> SUFFICES ASSUME 2 <= b PROVE FALSE
    BY <1>5
  <2>1. small * 1 \in Nat /\ small * 1 + small <= small * b
    BY <1>1, <1>5, TimesLess
  <2> QED BY <1>1, <1>5, <2>1
<1>7. a < b
  <2> SUFFICES ASSUME b <= a PROVE FALSE
    BY <1>5
  <2>1. small * b <= small * a
    <3>1. CASE a = b
      BY <1>5, <3>1
    <3>2. CASE b < a
      <4>1. small * b + small <= small * a
        BY <1>1, <1>5, <3>2, TimesLess
      <4> QED BY <1>1, <1>5, <4>1
    <3> QED BY <1>5, <3>1, <3>2
  <2> QED BY <1>2, <1>5, <2>1
<1>8. a = 0 /\ b = 1
  BY <1>5, <1>6, <1>7
<1>9. Bit(v, small) = 1
  BY <1>8 DEF b, Bit
<1>10. Bit(i, small) = 0
  BY <1>8 DEF a, Bit
<1>11. Bit(h, small) = 0
  BY <1>4, <1>10, LowBits DEF i
<1> QED BY <1>9, <1>11 DEF Behind

\* What one call of dictScan gives out: a key of the buckets of the cursor, unless
\* it was given out before.
LEMMA Emitted ==
  ASSUME GoodDict(d), DictSize(d) # 0, walk.v \in Nat, \A s \in SizesOf(d) : walk.v < 2 * s,
         NEW k \in HeldBy(d), Hash[k] % ScanSize = walk.v % ScanSize
  PROVE  k \in ScanEmits \/ Behind(Hash[k], walk.v)
<1> DEFINE h == Hash[k]
           v == walk.v
<1>1. d.ht[0].size \in Sizes
  BY SizeTypes, SizeIsHeld, TableThere
<1>2. k \in Keys /\ h \in Nat
  BY HeldAreKeys, DictAssumption
<1>3. PICK t \in 0..1 : /\ d.ht[t].size # 0
                        /\ k \in ToSet(Chain(d, t, h % d.ht[t].size))
  <2>1. 0 \in 0..1 /\ 1 \in 0..1 /\ (k \in Held(d.ht[0]) \/ k \in Held(d.ht[1]))
    BY DEF HeldBy
  <2> QED BY <2>1 DEF Held, Chain
<1>4. CASE ~ IsRehashing(d)
  <2>1. d.ht[1].size = 0
    BY <1>4 DEF GoodDict, GoodRehash, IsRehashing
  <2>2. t = 0
    BY <1>3, <2>1
  <2>3. ScanSize = d.ht[0].size
    BY <1>4 DEF ScanSize
  <2>4. ScanEmits = ToSet(Chain(d, 0, v % d.ht[0].size))
    BY <1>4 DEF ScanEmits
  <2>5. h % d.ht[0].size = v % d.ht[0].size
    BY <2>3
  <2>6. k \in ToSet(Chain(d, 0, h % d.ht[0].size))
    BY <1>3, <2>2
  <2> QED BY <2>4, <2>5, <2>6
<1>5. CASE IsRehashing(d)
  <2> DEFINE s == Smaller
             small == d.ht[s].size
             large == d.ht[1 - s].size
  <2>1. d.ht[1].size \in Sizes
    <3>1. d.ht[1].size # 0
      BY <1>5 DEF GoodDict, GoodRehash, IsRehashing
    <3> QED BY <3>1, SizeTypes
  <2>2. \A n \in Sizes : n \in PowersOfTwo /\ n \in Nat \ {0}
    BY DictAssumption, PowerIsNat
  <2>3. s \in 0..1 /\ 1 - s \in 0..1 /\ small \in Sizes /\ large \in Sizes /\ small <= large
    BY <1>1, <2>1, <2>2 DEF Smaller
  <2>4. ScanSize = small /\ h % small = v % small
    BY <1>5 DEF ScanSize
  <2>5. ScanEmits = ToSet(Chain(d, s, v % small))
                      \cup UNION {ToSet(Chain(d, 1 - s, i)) : i \in Expansions(v, small, large)}
    BY <1>5 DEF ScanEmits
  <2>6. v < 2 * small
    <3>1. small \in SizesOf(d)
      BY <2>2, <2>3 DEF SizesOf
    <3> QED BY <3>1
  <2>7. t = s \/ t = 1 - s
    BY <2>3
  <2>8. CASE t = s
    <3>1. k \in ToSet(Chain(d, s, h % small))
      BY <1>3, <2>8
    <3> QED BY <2>4, <2>5, <3>1
  <2>9. CASE t = 1 - s
    <3> DEFINE i == h % large
    <3>1. k \in ToSet(Chain(d, 1 - s, i))
      BY <1>3, <2>9
    <3> HIDE DEF s, h, v, small, large
    <3>2. /\ small \in PowersOfTwo /\ small \in Nat \ {0} /\ large \in PowersOfTwo /\ large \in Nat \ {0}
          /\ small <= large /\ h \in Nat /\ v \in Nat
      BY <1>2, <2>2, <2>3 DEF v
    <3>3. i \in 0..large - 1 /\ v % large \in Nat
      BY <3>2
    <3>4. i % small = v % small
      BY <2>4, <3>2, PowersDivide, ModOfMod
    <3>5. CASE i >= v % large
      <4>1. i \in Expansions(v, small, large)
        BY <3>3, <3>4, <3>5 DEF Expansions
      <4> QED BY <2>5, <3>1, <4>1
    <3>6. CASE i < v % large
      <4>1. Behind(h, v)
        BY ONLY <2>4, <2>6, <3>2, <3>6, SkippedIsBehind
      <4> QED BY <4>1 DEF h, v
    <3> QED BY <3>3, <3>5, <3>6
  <2> QED BY <2>7, <2>8, <2>9
<1> QED BY <1>4, <1>5


-----------------------------------------------------------------------------
(* A scan is complete when its cursor is within twice the smallest table.  *)

\* The cursor is below twice the size of every table.
CursorWithin(e, v) == \A s \in SizesOf(e) : v < 2 * s

\* What is behind the cursor has been given out; when the scan is over, all has.
GoodScan(e, w) ==
  /\ w.kind = "scan" /\ w.since # {} => CursorWithin(e, w.v)
  /\ w.kind = "scan" => \A k \in w.since : Behind(Hash[k], w.v) => k \in w.seen
  /\ w.kind = "scanned" => w.since \subseteq w.seen

ScanInv == GoodScan(d, walk)

\* Tables have sizes that are powers of two.
LEMMA SizesAreSizes ==
  ASSUME NEW e, GoodDict(e)
  PROVE  SizesOf(e) \subseteq Sizes /\ \A s \in SizesOf(e) : s \in PowersOfTwo /\ s \in Nat \ {0}
<1>1. SizesOf(e) \subseteq Sizes
  BY SizeTypes DEF SizesOf
<1> QED BY <1>1, DictAssumption, PowerIsNat

\* The walk is left alone and no table has become smaller than the cursor bears.
LEMMA ScanStays ==
  ASSUME ScanInv, UNCHANGED walk,
         walk.kind = "scan" /\ walk.since # {} /\ CursorWithin(d, walk.v) => CursorWithin(d', walk.v)
  PROVE  ScanInv'
BY DEF ScanInv, GoodScan

\* What the step of the cursor puts behind it was given out.
LEMMA ScanNextKeeps ==
  ASSUME DictInv, ScanInv, ScanNext
  PROVE  ScanInv'
<1> DEFINE n == ScanSize
           v == walk.v
           w == RevIncrement(v % n, n)
<1>1. /\ walk.kind = "scan" /\ DictSize(d) # 0 /\ d' = d
      /\ walk' = [walk EXCEPT !.kind = IF w = 0 THEN "scanned" ELSE "scan",
                              !.v = w, !.seen = @ \cup ScanEmits]
  BY DEF ScanNext
<1>2. /\ GoodDict(d) /\ walk \in Walks /\ v \in Nat /\ walk.since \subseteq HeldBy(d)
  BY DEF DictInv, GoodState, Walks
<1>3. /\ walk'.kind = IF w = 0 THEN "scanned" ELSE "scan"
      /\ walk'.v = w /\ walk'.seen = walk.seen \cup ScanEmits /\ walk'.since = walk.since
  <2> HIDE DEF w
  <2> QED BY <1>1, <1>2 DEF Walks
<1>4. n \in SizesOf(d) /\ n \in PowersOfTwo /\ n \in Nat \ {0}
  BY <1>1, <1>2, ScanSizeFacts, SizesAreSizes
<1>5. /\ w \in Nat /\ w < n
      /\ \A h \in Nat : (w = 0 \/ Behind(h, w)) => (h % n = v % n \/ Behind(h, v))
  <2> HIDE DEF n, v
  <2> QED BY <1>2, <1>4, NextCursor
<1>6. CursorWithin(d, w)
  <2> SUFFICES ASSUME NEW s \in SizesOf(d) PROVE w < 2 * s
    BY DEF CursorWithin
  <2>1. n <= s
    <3>1. ScanSize <= d.ht[0].size /\ (IsRehashing(d) => ScanSize <= d.ht[1].size)
      BY <1>2, SizeTypes DEF ScanSize, Smaller
    <3>2. ~ IsRehashing(d) => d.ht[1].size = 0
      BY <1>2 DEF GoodDict, GoodRehash, IsRehashing
    <3> QED BY <3>1, <3>2 DEF SizesOf
  <2>2. s \in Nat
    BY <1>2, SizesAreSizes
  <2> HIDE DEF n, w
  <2> QED BY <1>4, <1>5, <2>1, <2>2
<1>7. ASSUME NEW k \in walk.since, w = 0 \/ Behind(Hash[k], w)
      PROVE  k \in walk'.seen
  <2>1. k \in HeldBy(d) /\ Hash[k] \in Nat
    BY <1>2, HeldAreKeys, DictAssumption
  <2>2. CursorWithin(d, v)
    BY <1>1 DEF ScanInv, GoodScan
  <2>3. Hash[k] % n = v % n \/ Behind(Hash[k], v)
    <3> HIDE DEF n, v, w
    <3> QED BY <1>5, <1>7, <2>1
  <2>4. CASE Behind(Hash[k], v)
    <3>1. k \in walk.seen
      BY <1>1, <2>4 DEF ScanInv, GoodScan
    <3> QED BY <1>3, <3>1
  <2>5. CASE Hash[k] % n = v % n
    <3>1. k \in ScanEmits \/ Behind(Hash[k], v)
      BY <1>1, <1>2, <2>1, <2>2, <2>5, Emitted DEF CursorWithin
    <3> QED BY <1>3, <2>4, <3>1
  <2> QED BY <2>3, <2>4, <2>5
<1> HIDE DEF n, v, w
<1> QED BY <1>1, <1>3, <1>6, <1>7 DEF ScanInv, GoodScan

\* Nothing is behind a cursor of 0.
LEMMA ScanBeginsRight ==
  ASSUME DictInv, ScanBegins
  PROVE  ScanInv'
<1>1. walk'.since = stored /\ walk'.v = 0 /\ walk'.kind = "scan" /\ d' = d
  BY WalkBegins DEF ScanBegins
<1>2. CursorWithin(d, 0)
  <2>1. \A s \in SizesOf(d) : s \in Nat \ {0}
    BY SizesAreSizes DEF DictInv, GoodState
  <2> QED BY <2>1 DEF CursorWithin
<1>3. ASSUME NEW h PROVE ~ Behind(h, 0)
  <2>1. \A p \in PowersOfTwo : Bit(0, p) = 0
    BY PowerIsNat, BitIsZero
  <2> QED BY <2>1 DEF Behind
<1> QED BY <1>1, <1>2, <1>3 DEF ScanInv, GoodScan

\* No walk by dictScan is under way.
LEMMA NoScan ==
  ASSUME walk'.kind \notin {"scan", "scanned"}
  PROVE  ScanInv'
BY DEF ScanInv, GoodScan

\* No scan is under way in the beginning, and the dict grows or shrinks as the
\* cursor bears it.
LEMMA ScanInvInit == DictInit => ScanInv
BY NoWalkGood DEF DictInit, ScanInv, GoodScan

LEMMA AddKeepsScan ==
  ASSUME DictInv, ScanInv, NEW k \in Keys, Add(k)
  PROVE  ScanInv'
<1>1. walk' = walk
  BY DEF Add
<1>2. ASSUME walk.since # {}, CursorWithin(d, walk.v) PROVE CursorWithin(d', walk.v)
  <2> SUFFICES ASSUME NEW s \in SizesOf(d') PROVE walk.v < 2 * s
    BY DEF CursorWithin
  <2>1. stored # {} /\ walk.v \in Nat /\ GoodDict(d)
    BY <1>2 DEF DictInv, GoodState, Walks
  <2>2. DictInv' /\ \E r \in SizesOf(d) : r <= s
    BY <2>1, AddStep
  <2>3. PICK r \in SizesOf(d) : r <= s
    BY <2>2
  <2>4. s \in Nat
    BY <2>2, SizesAreSizes DEF DictInv, GoodState
  <2>5. r \in Nat /\ walk.v < 2 * r
    BY <1>2, <2>1, SizesAreSizes DEF CursorWithin
  <2> QED BY <2>1, <2>3, <2>4, <2>5
<1> QED BY <1>1, <1>2, ScanStays

LEMMA DeleteKeepsScan ==
  ASSUME DictInv, ScanInv, NEW k \in Keys, Delete(k)
  PROVE  ScanInv'
<1>1. walk' = [walk EXCEPT !.since = @ \ {k}, !.seen = @ \ {k},
                           !.kind = IF k = walk.next THEN "wild" ELSE @]
  BY DEF Delete
<1>2. SizesOf(d') \subseteq SizesOf(d)
  BY DeletionStep
<1>3. walk \in Walks
  BY DEF DictInv, GoodState
<1>4. /\ walk'.kind \in {walk.kind, "wild"} /\ walk'.v = walk.v
      /\ walk'.since = walk.since \ {k} /\ walk'.seen = walk.seen \ {k}
  BY <1>1, <1>3 DEF Walks
<1>5. \A v : CursorWithin(d, v) => CursorWithin(d', v)
  BY <1>2 DEF CursorWithin
<1> QED BY <1>4, <1>5 DEF ScanInv, GoodScan

\* The caller heeds the scan.
LEMMA ExpandKeepsScan ==
  ASSUME DictInv, ScanInv, ScanHeeded, NEW n, Fits(n), Asks(n), UNCHANGED <<stored, walk>>
  PROVE  ScanInv'
<1>1. SizesOf(d') \subseteq SizesOf(d) \cup {NextPower(n)}
  BY ExpandStep DEF Asks
<1>2. walk.kind = "scan" => walk.v < 2 * NextPower(n)
  BY DEF Asks
<1>3. walk.kind = "scan" /\ CursorWithin(d, walk.v) => CursorWithin(d', walk.v)
  BY <1>1, <1>2 DEF CursorWithin
<1> QED BY <1>3, ScanStays

\* With DictInv, ScanInv is inductive.
LEMMA ScanInvNext ==
  ASSUME ScanHeeded
  PROVE  DictInv /\ ScanInv /\ [DictNext]_dictVars => ScanInv'
<1> SUFFICES ASSUME DictInv, ScanInv, [DictNext]_dictVars PROVE ScanInv'
  OBVIOUS
<1>1. CASE UNCHANGED dictVars
  BY <1>1 DEF ScanInv, dictVars
<1>2. ASSUME NEW k \in Keys, Add(k) PROVE ScanInv'
  BY <1>2, AddKeepsScan
<1>3. ASSUME NEW k \in Keys, Delete(k) PROVE ScanInv'
  BY <1>3, DeleteKeepsScan
<1>4. CASE Find
  <2>1. d' = RehashStep(d) /\ walk' = walk
    BY <1>4 DEF Find
  <2>2. SizesOf(d') \subseteq SizesOf(d)
    BY <2>1, RehashStepGood DEF DictInv
  <2> QED BY <2>1, <2>2, ScanStays DEF CursorWithin
<1>5. CASE Resize
  <2>1. PICK n : Fits(n) /\ Asks(n) /\ UNCHANGED <<stored, walk>>
    BY <1>5, ResizeStep
  <2> QED BY <2>1, ExpandKeepsScan
<1>6. ASSUME NEW n \in Asked, ExpandTo(n) PROVE ScanInv'
  BY <1>6, AskedFits, ExpandKeepsScan DEF ExpandTo
<1>7. CASE Empty
  <2>1. walk'.since = {}
    BY <1>7, EmptyStep
  <2> QED BY <2>1 DEF ScanInv, GoodScan
<1>8. CASE GetSafeIterator
  <2>1. walk'.kind = "iterator"
    BY <1>8, WalkBegins DEF GetSafeIterator
  <2> QED BY <2>1, NoScan
<1>9. CASE NextInChain \/ NextInTable \/ NextEnds
  <2>1. walk \in Walks /\ walk.kind = "iterator"
    BY <1>9 DEF DictInv, GoodState, NextInChain, NextInTable, NextEnds
  <2>2. walk'.kind \in {"iterator", "iterated"}
    BY <1>9, <2>1 DEF Walks, NextInChain, NextInTable, NextEnds, ReturnEntry
  <2> QED BY <2>2, NoScan
<1>10. CASE BreakOff \/ Forget
  <2>1. walk' = NoWalk
    BY <1>10 DEF BreakOff, Forget
  <2> QED BY <2>1, NoWalkGood, NoScan
<1>11. CASE ScanBegins
  BY <1>11, ScanBeginsRight
<1>12. CASE ScanNext
  BY <1>12, ScanNextKeeps
<1>13. CASE ScanOfNothing
  <2>1. walk' = [walk EXCEPT !.kind = "scanned"] /\ walk \in Walks /\ walk.since \subseteq stored
    BY <1>13 DEF ScanOfNothing, DictInv, GoodState
  <2>2. walk'.kind = "scanned" /\ walk'.since = walk.since
    BY <2>1 DEF Walks
  <2>3. walk.since = {}
    BY <1>13, <2>1, ScanOfNothingStep
  <2> QED BY <2>2, <2>3 DEF ScanInv, GoodScan
<1> QED BY <1>1, <1>2, <1>3, <1>4, <1>5, <1>6, <1>7, <1>8, <1>9, <1>10, <1>11, <1>12, <1>13
        DEF DictNext

\* Nothing that is in the dict from the start of a scan to its end is missed by it,
\* whatever grows and is rehashed in between.
THEOREM ScanCompleteCorrect ==
  ASSUME ScanHeeded
  PROVE  DictSpec => []ScanComplete
<1>1. DictInv /\ ScanInv /\ [DictNext]_dictVars => ScanInv'
  BY ScanInvNext
<1>2. ScanInv => ScanComplete
  BY DEF ScanInv, GoodScan, ScanComplete
<1> QED BY <1>1, <1>2, DictInvAlways, ScanInvInit, PTL DEF DictSpec
=============================================================================
