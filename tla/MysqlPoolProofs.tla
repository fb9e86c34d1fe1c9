-------------------------- MODULE MysqlPoolProofs ---------------------------
(***************************************************************************)
(* Theorems about MysqlPool: the safety properties the run checks, for any *)
(* finite set of threads, any configured number of connections and any     *)
(* timeout.                                                                *)
(***************************************************************************)
EXTENDS MysqlPool, FiniteSetTheorems, SequenceTheorems, TLAPS

\* Nobody uses the pool before it is set up and after it is taken down.
ClosedInv == ~ g_mysql_conn_enable => \A t \in Threads : pc[t] = "idle"

Unique  == \A t, u \in Holders : block[t] = block[u] => t = u
Ordered == \A j, k \in DOMAIN slq_list : slq_list[j] = slq_list[k] => j = k

IInv == TypeOK /\ ClosedInv /\ OnePlace /\ Bounded

-----------------------------------------------------------------------------
(* The list.                                                               *)

\* Taking the head off a list whose members are different.
LEMMA HeadTaken ==
  ASSUME TypeOK, Ordered, slq_list # <<>>, slq_list' = Tail(slq_list)
  PROVE  /\ Head(slq_list) \in Idle
         /\ Idle' = Idle \ {Head(slq_list)}
         /\ Ordered'
<1> DEFINE s == slq_list
<1>1. /\ s \in Seq(Blocks) /\ Len(s) \in Nat \ {0} /\ DOMAIN s = 1..Len(s)
      /\ Head(s) = s[1]
  BY LenProperties, EmptySeq DEF TypeOK
<1>2. /\ Tail(s) \in Seq(Blocks) /\ Len(Tail(s)) = Len(s) - 1
      /\ \A k \in 1..Len(s) - 1 : Tail(s)[k] = s[k + 1]
  BY <1>1, HeadTailProperties
<1>3. DOMAIN slq_list' = 1..Len(s) - 1
  BY <1>2, LenProperties
<1>4. \A k \in 1..Len(s) - 1 : k + 1 \in 1..Len(s) /\ k + 1 # 1 /\ slq_list'[k] = s[k + 1]
  BY <1>1, <1>2
<1>5. \A k \in 1..Len(s) : k # 1 => k - 1 \in 1..Len(s) - 1 /\ (k - 1) + 1 = k
  BY <1>1
<1>6. 1 \in DOMAIN s
  BY <1>1
<1>7. Idle' = {slq_list'[k] : k \in 1..Len(s) - 1}
  BY <1>3 DEF Idle
<1>8. \A k \in DOMAIN s : s[k] = Head(s) => k = 1
  BY <1>1, <1>6 DEF Ordered
<1>9. Idle' \subseteq Idle \ {Head(s)}
  BY <1>1, <1>4, <1>7, <1>8 DEF Idle
<1>10. ASSUME NEW k \in DOMAIN s, s[k] # Head(s)
       PROVE  s[k] \in Idle'
  <2>1. k # 1 /\ k \in 1..Len(s)
    BY <1>1, <1>10
  <2>2. k - 1 \in 1..Len(s) - 1 /\ slq_list'[k - 1] = s[k]
    BY <1>4, <1>5, <2>1
  <2> QED BY <1>7, <2>2
<1>11. Ordered'
  <2>1. SUFFICES ASSUME NEW j \in 1..Len(s) - 1, NEW k \in 1..Len(s) - 1,
                        slq_list'[j] = slq_list'[k]
                 PROVE  j = k
    BY <1>3 DEF Ordered
  <2>2. j + 1 = k + 1
    BY <1>1, <1>4, <2>1 DEF Ordered
  <2> QED BY <2>2
<1> QED BY <1>1, <1>6, <1>9, <1>10, <1>11 DEF Idle

\* Putting a block at the end that is not in the list.
LEMMA PutLast ==
  ASSUME TypeOK, Ordered, NEW b \in Blocks \ Idle, slq_list' = Append(slq_list, b)
  PROVE  Idle' = Idle \cup {b} /\ Ordered'
<1> DEFINE s == slq_list
<1>1. s \in Seq(Blocks) /\ Len(s) \in Nat /\ DOMAIN s = 1..Len(s)
  BY LenProperties DEF TypeOK
<1>2. /\ \A k \in 1..Len(s) : slq_list'[k] = s[k]
      /\ slq_list'[Len(s) + 1] = b
      /\ DOMAIN slq_list' = 1..Len(s) + 1
  BY <1>1, AppendProperties, LenProperties
<1>3. 1..Len(s) + 1 = (1..Len(s)) \cup {Len(s) + 1} /\ Len(s) + 1 \notin 1..Len(s)
  BY <1>1
<1>4. Idle' = Idle \cup {b}
  BY <1>1, <1>2, <1>3 DEF Idle
<1>5. \A k \in 1..Len(s) : s[k] # b
  BY <1>1 DEF Idle
<1>6. Ordered'
  <2>1. SUFFICES ASSUME NEW j \in 1..Len(s) + 1, NEW k \in 1..Len(s) + 1,
                        slq_list'[j] = slq_list'[k]
                 PROVE  j = k
    BY <1>2 DEF Ordered
  <2>2. CASE j \in 1..Len(s) /\ k \in 1..Len(s)
    BY <1>1, <1>2, <2>1, <2>2 DEF Ordered
  <2>3. CASE j = Len(s) + 1 \/ k = Len(s) + 1
    <3>1. \A l \in 1..Len(s) + 1 : slq_list'[l] = b => l = Len(s) + 1
      BY <1>2, <1>3, <1>5
    <3> QED BY <1>2, <2>1, <2>3, <3>1
  <2> QED BY <1>3, <2>2, <2>3
<1> QED BY <1>4, <1>6

-----------------------------------------------------------------------------
(* The threads' blocks.                                                    *)

\* A thread without a block gets one that no thread has.
LEMMA Gains ==
  ASSUME TypeOK, Unique, NEW t \in Threads, block[t] = NoBlock,
         NEW b \in Blocks \ Lent, block' = [block EXCEPT ![t] = b]
  PROVE  Lent' = Lent \cup {b} /\ Holders' = Holders \cup {t} /\ Unique'
<1>1. /\ t \notin Holders /\ b # NoBlock /\ block'[t] = b
      /\ \A u \in Threads : u # t => block'[u] = block[u]
  BY MysqlPoolAssumption DEF TypeOK, Holders
<1>2. Holders' = Holders \cup {t}
  BY <1>1 DEF Holders
<1>3. Lent' = Lent \cup {b}
  BY <1>1, <1>2 DEF Lent, Holders
<1>4. \A u \in Holders : block'[u] = block[u] /\ block[u] # b
  BY <1>1 DEF Lent, Holders
<1>5. Unique'
  BY <1>1, <1>2, <1>4 DEF Unique
<1> QED BY <1>2, <1>3, <1>5

\* A thread gives its block up.
LEMMA Loses ==
  ASSUME TypeOK, Unique, NEW t \in Threads, block[t] # NoBlock,
         block' = [block EXCEPT ![t] = NoBlock]
  PROVE  /\ block[t] \in Lent \cap Blocks
         /\ Lent' = Lent \ {block[t]} /\ Holders' = Holders \ {t} /\ Unique'
<1>1. /\ t \in Holders /\ block'[t] = NoBlock
      /\ \A u \in Threads : u # t => block'[u] = block[u]
  BY DEF TypeOK, Holders
<1>2. Holders' = Holders \ {t}
  BY <1>1 DEF Holders
<1>3. \A u \in Holders \ {t} : block'[u] = block[u] /\ block[u] # block[t]
  BY <1>1 DEF Unique, Holders
<1>4. Lent' = Lent \ {block[t]}
  BY <1>1, <1>2, <1>3 DEF Lent
<1>5. Unique'
  BY <1>2, <1>3 DEF Unique
<1>6. block[t] \in Lent \cap Blocks
  BY <1>1 DEF Lent, TypeOK
<1> QED BY <1>2, <1>4, <1>5, <1>6

LEMMA OnePlaceParts ==
  OnePlace <=> Ordered /\ Unique /\ Idle \cap Lent = {} /\ heap = Idle \cup Lent
BY DEF OnePlace, Ordered, Unique
\* There are no more blocks in the list than it is long, and no more lent than
\* there are threads that have one.
LEMMA Counts ==
  ASSUME TypeOK
  PROVE  /\ IsFiniteSet(heap) /\ Cardinality(heap) \in Nat
         /\ Cardinality(Idle) <= Len(slq_list)
         /\ Cardinality(Lent) <= Cardinality(Holders)
         /\ IsFiniteSet(Holders) /\ Cardinality(Holders) \in Nat
<1>1. IsFiniteSet(heap) /\ Cardinality(heap) \in Nat
  BY MysqlPoolAssumption, FS_Subset, FS_CardinalityType DEF TypeOK
<1>2. IsFiniteSet(Holders) /\ Cardinality(Holders) \in Nat
  <2>1. Holders \in SUBSET Threads
    BY DEF Holders
  <2> QED BY <2>1, MysqlPoolAssumption, FS_Subset, FS_CardinalityType
<1>3. Cardinality(Idle) <= Len(slq_list)
  <2> DEFINE n == Len(slq_list)
  <2>1. n \in Nat /\ slq_list \in [1..n -> Blocks] /\ DOMAIN slq_list = 1..n
    BY LenProperties DEF TypeOK
  <2>2. slq_list \in Surjection(1..n, Idle)
    BY <2>1 DEF Surjection, Idle
  <2>3. 1 \in Int /\ n \in Int /\ (1 > n => n = 0) /\ n - 1 + 1 = n
    BY <2>1
  <2>4. IsFiniteSet(1..n) /\ Cardinality(1..n) = n
    BY <2>3, FS_Interval
  <2> QED BY <2>2, <2>4, FS_Surjection
<1>4. Cardinality(Lent) <= Cardinality(Holders)
  <2> DEFINE f == [t \in Holders |-> block[t]]
  <2>1. f \in Surjection(Holders, Lent)
    BY DEF Surjection, Lent
  <2> QED BY <1>2, <2>1, FS_Surjection
<1> QED BY <1>1, <1>2, <1>3, <1>4

-----------------------------------------------------------------------------
(* IInv is inductive.                                                      *)

LEMMA IInvInit == Init => IInv
<1> SUFFICES ASSUME Init PROVE IInv
  OBVIOUS
<1>1. TypeOK
  <2>1. 0 \in 0..Timeout + 1
    BY MysqlPoolAssumption
  <2>2. <<>> \in Seq(Blocks)
    BY EmptySeq
  <2> QED BY <2>1, <2>2 DEF Init, TypeOK
<1>2. Idle = {} /\ Holders = {} /\ Lent = {} /\ DOMAIN slq_list = {}
  <2>1. DOMAIN slq_list = {}
    BY DEF Init
  <2>2. Holders = {}
    BY DEF Init, Holders
  <2> QED BY <2>1, <2>2 DEF Idle, Lent
<1>3. OnePlace
  BY <1>2 DEF Init, OnePlace
<1>4. Bounded
  <2>1. Cardinality(heap) = 0
    BY FS_EmptySet DEF Init
  <2> QED BY <2>1, MysqlPoolAssumption DEF Bounded
<1> QED BY <1>1, <1>3, <1>4 DEF IInv, ClosedInv, Init

\* What a step must do to keep OnePlace when it leaves the blocks where they are.
LEMMA Unmoved ==
  OnePlace /\ UNCHANGED <<slq_list, heap, block>> => OnePlace'
BY DEF OnePlace, Idle, Lent, Holders

LEMMA UnmovedBound == Bounded /\ UNCHANGED heap => Bounded'
BY DEF Bounded

\* A step that opens no connection keeps the bound.
LEMMA ShrinkingBound ==
  ASSUME TypeOK, Bounded, heap' \subseteq heap
  PROVE  Bounded'
<1>1. Cardinality(heap') <= Cardinality(heap) /\ Cardinality(heap') \in Nat
  BY Counts, FS_Subset, FS_CardinalityType
<1>2. Cardinality(heap) \in Nat /\ ConnectCount \in Nat /\ Cardinality(Threads) \in Nat
  BY Counts, MysqlPoolAssumption, FS_CardinalityType
<1> QED BY <1>1, <1>2 DEF Bounded

LEMMA TypeNext == TypeOK /\ ClosedInv /\ [Next]_vars => TypeOK' /\ ClosedInv'
<1> SUFFICES ASSUME TypeOK, ClosedInv, [Next]_vars PROVE TypeOK' /\ ClosedInv'
  OBVIOUS
<1>a. Timeout \in Nat /\ NoBlock \notin Blocks
  BY MysqlPoolAssumption
<1>1. CASE Tick
  <2>1. age' \in [Blocks -> 0..Timeout + 1]
    <3>1. \A n \in 0..Timeout + 1 : n <= Timeout => n + 1 \in 0..Timeout + 1
      BY <1>a
    <3> QED BY <1>1, <3>1 DEF Tick, TypeOK
  <2> QED BY <1>1, <2>1 DEF Tick, TypeOK, ClosedInv
<1>2. ASSUME NEW b \in Blocks, InitConnects(b)
      PROVE  TypeOK' /\ ClosedInv'
  <2>1. slq_list' \in Seq(Blocks)
    BY <1>2, AppendProperties DEF InitConnects, TypeOK
  <2> QED BY <1>2, <2>1 DEF InitConnects, TypeOK, ClosedInv
<1>3. CASE InitReturns
  BY <1>3 DEF InitReturns, TypeOK, ClosedInv
<1>4. CASE UnInit
  <2>1. 0 \in 0..Timeout + 1
    BY <1>a
  <2>2. <<>> \in Seq(Blocks)
    BY EmptySeq
  <2>3. age' \in [Blocks -> 0..Timeout + 1] /\ slq_list' \in Seq(Blocks) /\ heap' \subseteq Blocks
    BY <1>4, <2>1, <2>2 DEF UnInit
  <2> QED BY <1>4, <2>3 DEF UnInit, TypeOK, ClosedInv
<1>5. ASSUME NEW t \in Threads, Get(t)
      PROVE  TypeOK' /\ ClosedInv'
  BY <1>5 DEF Get, Goes, TypeOK, ClosedInv
<1>6. ASSUME NEW t \in Threads, Pop(t)
      PROVE  TypeOK' /\ ClosedInv'
  <2>1. Head(slq_list) \in Blocks /\ slq_list' \in Seq(Blocks)
    BY <1>6, HeadTailProperties DEF Pop, TypeOK
  <2> QED BY <1>6, <1>a, <2>1 DEF Pop, Goes, TypeOK, ClosedInv
<1>7. ASSUME NEW t \in Threads, NewBlock(t)
      PROVE  TypeOK' /\ ClosedInv'
  BY <1>7, <1>a DEF NewBlock, Goes, TypeOK, ClosedInv
<1>8. ASSUME NEW t \in Threads, Lend(t) \/ TooOld(t)
      PROVE  TypeOK' /\ ClosedInv'
  BY <1>8 DEF Lend, TooOld, Goes, TypeOK, ClosedInv
<1>9. ASSUME NEW t \in Threads, Connects(t)
      PROVE  TypeOK' /\ ClosedInv'
  BY <1>9, <1>a DEF Connects, TypeOK, ClosedInv
<1>10. ASSUME NEW t \in Threads, ConnectFails(t)
       PROVE  TypeOK' /\ ClosedInv'
  BY <1>10, <1>a DEF ConnectFails, TypeOK, ClosedInv
<1>11. ASSUME NEW t \in Threads, FreeOneConn(t)
       PROVE  TypeOK' /\ ClosedInv'
  <2>1. block[t] \in Blocks
    BY <1>11 DEF FreeOneConn, Goes, TypeOK
  <2>2. slq_list' \in Seq(Blocks)
    BY <1>11, <2>1, AppendProperties DEF FreeOneConn, TypeOK
  <2> QED BY <1>11, <2>2 DEF FreeOneConn, Goes, TypeOK, ClosedInv
<1>12. CASE UNCHANGED vars
  BY <1>12 DEF vars, TypeOK, ClosedInv
<1> QED
  BY <1>1, <1>2, <1>3, <1>4, <1>5, <1>6, <1>7, <1>8, <1>9, <1>10, <1>11, <1>12
  DEF Next, GetStep

LEMMA PlacesNext == IInv /\ [Next]_vars => OnePlace' /\ Bounded'
<1> SUFFICES ASSUME IInv, [Next]_vars PROVE OnePlace' /\ Bounded'
  OBVIOUS
<1>a. TypeOK /\ ClosedInv /\ OnePlace /\ Bounded
  BY DEF IInv
<1>b. Ordered /\ Unique /\ Idle \cap Lent = {} /\ heap = Idle \cup Lent
  BY <1>a, OnePlaceParts
<1>c. ASSUME UNCHANGED <<slq_list, heap, block>>
      PROVE  OnePlace' /\ Bounded'
  BY <1>a, <1>c, Unmoved, UnmovedBound
<1>d. ASSUME UNCHANGED block
      PROVE  Lent' = Lent /\ Unique'
  BY <1>b, <1>d DEF Lent, Unique, Holders
<1>e. ASSUME UNCHANGED slq_list
      PROVE  Idle' = Idle /\ Ordered'
  BY <1>b, <1>e DEF Idle, Ordered
<1>f. ASSUME Ordered', Unique', Idle' \cap Lent' = {}, heap' = Idle' \cup Lent'
      PROVE  OnePlace'
  BY <1>f DEF OnePlace, Ordered, Unique
<1>g. /\ ConnectCount \in Nat /\ Cardinality(Threads) \in Nat /\ Len(slq_list) \in Nat
      /\ IsFiniteSet(heap) /\ Cardinality(heap) \in Nat
  BY <1>a, MysqlPoolAssumption, Counts, FS_CardinalityType, LenProperties DEF TypeOK
<1>1. CASE Tick
  BY <1>1, <1>c DEF Tick
<1>2. ASSUME NEW b \in Blocks, InitConnects(b)
      PROVE  OnePlace' /\ Bounded'
  <2>1. /\ ~ g_mysql_conn_enable /\ Len(slq_list) < ConnectCount /\ b \notin heap
        /\ heap' = heap \cup {b} /\ slq_list' = Append(slq_list, b) /\ block' = block
    BY <1>2 DEF InitConnects
  <2>2. b \in Blocks \ Idle /\ b \notin Lent
    BY <1>b, <2>1
  <2>3. Idle' = Idle \cup {b} /\ Ordered'
    BY <1>a, <1>b, <2>1, <2>2, PutLast
  <2>4. Lent' = Lent /\ Unique'
    BY <1>d, <2>1
  <2>5. OnePlace'
    BY <1>b, <1>f, <2>1, <2>2, <2>3, <2>4
  <2>6. Holders = {}
    BY <1>a, <2>1 DEF Holders, ClosedInv, TypeOK
  <2>7. heap = Idle
    BY <1>b, <2>6 DEF Lent
  <2>8. Cardinality(heap) < ConnectCount
    BY <1>a, <1>g, <2>1, <2>7, Counts
  <2>9. Cardinality(heap') = Cardinality(heap) + 1
    BY <1>g, <2>1, FS_AddElement
  <2> QED BY <1>g, <2>5, <2>8, <2>9 DEF Bounded
<1>3. CASE InitReturns
  BY <1>3, <1>c DEF InitReturns
<1>4. CASE UnInit
  <2>1. slq_list' = <<>> /\ heap' = {} /\ block' = block /\ \A t \in Threads : pc[t] = "idle"
    BY <1>4 DEF UnInit
  <2>2. Holders = {}
    BY <1>a, <2>1 DEF Holders, TypeOK
  <2>3. Lent' = {} /\ Unique'
    BY <1>d, <2>1, <2>2 DEF Lent
  <2>4. Idle' = {} /\ Ordered'
    BY <2>1 DEF Idle, Ordered
  <2> QED BY <1>a, <1>f, <2>1, <2>3, <2>4, ShrinkingBound
<1>5. ASSUME NEW t \in Threads, Get(t)
      PROVE  OnePlace' /\ Bounded'
  BY <1>5, <1>c DEF Get
<1>6. ASSUME NEW t \in Threads, Pop(t)
      PROVE  OnePlace' /\ Bounded'
  <2> DEFINE h == Head(slq_list)
  <2>1. /\ slq_list # <<>> /\ pc[t] = "pop" /\ block' = [block EXCEPT ![t] = h]
        /\ slq_list' = Tail(slq_list) /\ heap' = heap
    BY <1>6 DEF Pop, Goes
  <2>2. h \in Idle /\ Idle' = Idle \ {h} /\ Ordered'
    BY <1>a, <1>b, <2>1, HeadTaken
  <2>3. block[t] = NoBlock /\ h \in Blocks \ Lent
    <3>1. h \in Blocks
      BY <1>a, <2>1, HeadTailProperties DEF TypeOK
    <3> QED BY <1>a, <1>b, <2>1, <2>2, <3>1 DEF TypeOK
  <2>4. Lent' = Lent \cup {h} /\ Unique'
    BY <1>a, <1>b, <2>1, <2>3, Gains
  <2> QED BY <1>a, <1>b, <1>f, <2>1, <2>2, <2>3, <2>4, UnmovedBound
<1>7. ASSUME NEW t \in Threads, NewBlock(t)
      PROVE  OnePlace' /\ Bounded'
  <2>1. PICK b \in Blocks \ heap :
          block' = [block EXCEPT ![t] = b] /\ heap' = heap \cup {b}
    BY <1>7 DEF NewBlock
  <2>2. slq_list = <<>> /\ slq_list' = slq_list /\ pc[t] = "pop"
    BY <1>7 DEF NewBlock, Goes
  <2>3. block[t] = NoBlock
    BY <1>a, <2>2 DEF TypeOK
  <2>4. Lent' = Lent \cup {b} /\ Unique'
    BY <1>a, <1>b, <2>1, <2>3, Gains
  <2>5. Idle' = Idle /\ Ordered'
    BY <1>e, <2>2
  <2>6. OnePlace'
    BY <1>b, <1>f, <2>1, <2>4, <2>5
  <2>7. heap = Lent
    BY <1>b, <2>2 DEF Idle
  <2>8. Holders \subseteq Threads \ {t}
    BY <2>3 DEF Holders
  <2>9. Cardinality(Holders) <= Cardinality(Threads) - 1
    <3>1. IsFiniteSet(Threads \ {t}) /\ Cardinality(Threads \ {t}) = Cardinality(Threads) - 1
      BY MysqlPoolAssumption, FS_RemoveElement
    <3> QED BY <2>8, <3>1, FS_Subset
  <2>10. Cardinality(heap') = Cardinality(heap) + 1
    BY <1>g, <2>1, FS_AddElement
  <2>11. Cardinality(heap') <= Cardinality(Threads)
    BY <1>a, <1>g, <2>7, <2>9, <2>10, Counts
  <2> QED BY <2>6, <2>11 DEF Bounded
<1>8. ASSUME NEW t \in Threads, Lend(t) \/ TooOld(t)
      PROVE  OnePlace' /\ Bounded'
  BY <1>8, <1>c DEF Lend, TooOld
<1>9. ASSUME NEW t \in Threads, Connects(t)
      PROVE  OnePlace' /\ Bounded'
  BY <1>9, <1>c DEF Connects
<1>10. ASSUME NEW t \in Threads, ConnectFails(t)
       PROVE  OnePlace' /\ Bounded'
  <2>1. /\ heap' = heap \ {block[t]} /\ block' = [block EXCEPT ![t] = NoBlock]
        /\ slq_list' = slq_list /\ pc[t] \in {"reconnect", "create"}
    BY <1>10 DEF ConnectFails
  <2>2. block[t] # NoBlock
    BY <1>a, <2>1 DEF TypeOK
  <2>3. block[t] \in Lent /\ Lent' = Lent \ {block[t]} /\ Unique'
    BY <1>a, <1>b, <2>1, <2>2, Loses
  <2>4. Idle' = Idle /\ Ordered'
    BY <1>e, <2>1
  <2> QED BY <1>a, <1>b, <1>f, <2>1, <2>3, <2>4, ShrinkingBound
<1>11. ASSUME NEW t \in Threads, FreeOneConn(t)
       PROVE  OnePlace' /\ Bounded'
  <2>1. /\ slq_list' = Append(slq_list, block[t]) /\ heap' = heap
        /\ block' = [block EXCEPT ![t] = NoBlock] /\ pc[t] = "have"
    BY <1>11 DEF FreeOneConn, Goes
  <2>2. block[t] # NoBlock
    BY <1>a, <2>1 DEF TypeOK
  <2>3. block[t] \in Lent \cap Blocks /\ Lent' = Lent \ {block[t]} /\ Unique'
    BY <1>a, <1>b, <2>1, <2>2, Loses
  <2>4. Idle' = Idle \cup {block[t]} /\ Ordered'
    <3>1. block[t] \in Blocks \ Idle
      BY <1>b, <2>3
    <3> QED BY <1>a, <1>b, <2>1, <3>1, PutLast
  <2> QED BY <1>a, <1>b, <1>f, <2>1, <2>3, <2>4, UnmovedBound
<1>12. CASE UNCHANGED vars
  BY <1>12, <1>c DEF vars
<1> QED
  BY <1>1, <1>2, <1>3, <1>4, <1>5, <1>6, <1>7, <1>8, <1>9, <1>10, <1>11, <1>12
  DEF Next, GetStep

LEMMA IInvNext == IInv /\ [Next]_vars => IInv'
BY TypeNext, PlacesNext DEF IInv

LEMMA Inductive == Spec => []IInv
BY IInvInit, IInvNext, PTL DEF Spec

-----------------------------------------------------------------------------
(* The theorems.                                                           *)

\* mysqlConnectionPool_GetOneConn never returns without a connection, however
\* often connecting fails.
THEOREM TypeCorrect == Spec => []TypeOK
<1>1. IInv => TypeOK
  BY DEF IInv
<1> QED BY Inductive, <1>1, PTL

\* No two threads ever share a connection, none is both idle and in use, and no
\* block is leaked by a connect that fails.
THEOREM ConnectionInOnePlace == Spec => []OnePlace
<1>1. IInv => OnePlace
  BY DEF IInv
<1> QED BY Inductive, <1>1, PTL

\* The pool never opens more connections than it is configured for or than there
\* are threads, although no line of it counts them.
THEOREM ConnectionsBounded == Spec => []Bounded
<1>1. IInv => Bounded
  BY DEF IInv
<1> QED BY Inductive, <1>1, PTL
=============================================================================
