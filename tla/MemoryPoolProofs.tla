-------------------------- MODULE MemoryPoolProofs --------------------------
(***************************************************************************)
(* Theorems about MemoryPool: the safety properties the run checks, for    *)
(* any number of threads, of columns and of blocks in a column.  They are  *)
(* all consequences of the inductive invariant IInv.                       *)
(***************************************************************************)
EXTENDS MemoryPool, FiniteSetTheorems, SequenceTheorems, TLAPS

\* The types, without the bound on the stacks: that one is no step's doing but
\* follows from ColumnInv by counting.
Shape ==
  /\ pool \in {"live", "gone"}
  /\ header \in [Columns -> Seq(PoolBlocks)]
  /\ area \in [Columns -> BOOLEAN]
  /\ heap \subseteq Addresses
  /\ held \in [Addresses -> Nat]
  /\ pc \in [Threads -> 0..NumColumns + 1]

\* Who has an address outside of all columns has it from malloc().
HeapKnown == \A b \in HeapBlocks : held[b] = 0 \/ (held[b] = 1 /\ b \in heap)

\* Of a column: its stack has blocks of it only; while its memory is allocated,
\* each once, and a block that is not on the stack has one caller.
ColumnInv(c) ==
  /\ Stacked(c) \subseteq Blocks(c)
  /\ area[c] =>
       /\ \A j, k \in DOMAIN header[c] : header[c][j] = header[c][k] => j = k
       /\ \A b \in Blocks(c) : held[b] = IF b \in Stacked(c) THEN 0 ELSE 1

IInv == Shape /\ HeapKnown /\ \A c \in Columns : ColumnInv(c)

-----------------------------------------------------------------------------
(* Blocks and stacks.                                                      *)

\* Columns share no block, and a column's blocks are none of the heap's.
LEMMA BlocksApart ==
  /\ \A c \in Columns : Blocks(c) \subseteq PoolBlocks /\ <<c, 0>> \in Blocks(c)
  /\ \A c, d \in Columns : c # d => Blocks(c) \cap Blocks(d) = {}
  /\ HeapBlocks \cap PoolBlocks = {}
  /\ PoolBlocks \subseteq Addresses /\ HeapBlocks \subseteq Addresses
<1>1. \A c \in Columns : Blocks(c) \subseteq PoolBlocks
  BY DEF PoolBlocks
<1>2. \A c \in Columns : <<c, 0>> \in Blocks(c)
  <2>1. SUFFICES ASSUME NEW c \in Columns PROVE 0 \in 0..Count[c] - 1
    BY DEF Blocks
  <2>2. Count[c] \in Nat \ {0}
    BY MemoryPoolAssumption
  <2> QED BY <2>2
<1>3. \A c, d \in Columns : c # d => Blocks(c) \cap Blocks(d) = {}
  BY DEF Blocks
<1> QED BY <1>1, <1>2, <1>3, MemoryPoolAssumption DEF Addresses

\* A column has Count[c] blocks.
LEMMA BlocksCount ==
  ASSUME NEW c \in Columns
  PROVE  IsFiniteSet(Blocks(c)) /\ Cardinality(Blocks(c)) = Count[c]
<1> DEFINE J == 0..Count[c] - 1
           f == [j \in J |-> <<c, j>>]
<1>1. Count[c] \in Nat \ {0}
  BY MemoryPoolAssumption
<1>2. IsFiniteSet(J) /\ Cardinality(J) = Count[c]
  <2>1. 0 \in Int /\ Count[c] - 1 \in Int /\ ~ 0 > Count[c] - 1 /\ Count[c] - 1 - 0 + 1 = Count[c]
    BY <1>1
  <2> QED BY <2>1, FS_Interval
<1>3. f \in Bijection(J, Blocks(c))
  BY DEF Blocks, Bijection, Injection, Surjection, IsInjective
<1>4. ExistsBijection(J, Blocks(c))
  BY <1>3 DEF ExistsBijection
<1> QED BY <1>2, <1>4, FS_Bijection, FS_SameCardinalityBij

\* A stack without its top.
LEMMA Popped ==
  ASSUME NEW S, NEW s \in Seq(S), s # <<>>
  PROVE  /\ Len(s) \in Nat \ {0} /\ DOMAIN s = 1..Len(s)
         /\ SubSeq(s, 1, Len(s) - 1) \in Seq(S)
         /\ DOMAIN SubSeq(s, 1, Len(s) - 1) = 1..Len(s) - 1
         /\ \A k \in 1..Len(s) - 1 : SubSeq(s, 1, Len(s) - 1)[k] = s[k]
<1>1. Len(s) \in Nat \ {0} /\ DOMAIN s = 1..Len(s)
  BY LenProperties, EmptySeq
<1>2. \A k \in 1..Len(s) - 1 : s[k] \in S
  BY <1>1, ElementOfSeq
<1> QED BY <1>1, <1>2, SubSeqProperties

\* A stack with one more block.
LEMMA Pushed ==
  ASSUME NEW S, NEW s \in Seq(S), NEW b \in S
  PROVE  /\ Len(s) \in Nat /\ DOMAIN s = 1..Len(s)
         /\ Append(s, b) \in Seq(S)
         /\ DOMAIN Append(s, b) = 1..Len(s) + 1
         /\ \A k \in 1..Len(s) : Append(s, b)[k] = s[k]
         /\ Append(s, b)[Len(s) + 1] = b
BY AppendProperties, LenProperties

-----------------------------------------------------------------------------
(* IInv is inductive.                                                      *)

LEMMA IInvInit == Init => IInv
<1> SUFFICES ASSUME Init PROVE IInv
  OBVIOUS
<1>1. ASSUME NEW c \in Columns
      PROVE  /\ DOMAIN header[c] = 1..Count[c]
             /\ \A k \in 1..Count[c] : header[c][k] = <<c, k - 1>>
             /\ Count[c] \in Nat \ {0}
  BY <1>1, MemoryPoolAssumption DEF Init
<1>2. ASSUME NEW c \in Columns
      PROVE  /\ Stacked(c) = Blocks(c)
             /\ \A j, k \in DOMAIN header[c] : header[c][j] = header[c][k] => j = k
  <2>1. \A k \in 1..Count[c] : k - 1 \in 0..Count[c] - 1
    BY <1>1
  <2>2. \A j \in 0..Count[c] - 1 : j + 1 \in 1..Count[c] /\ (j + 1) - 1 = j
    BY <1>1
  <2>3. Stacked(c) \subseteq Blocks(c)
    BY <1>1, <2>1 DEF Stacked, Blocks
  <2>4. ASSUME NEW j \in 0..Count[c] - 1
        PROVE  <<c, j>> \in Stacked(c)
    <3>1. header[c][j + 1] = <<c, j>>
      BY <1>1, <2>2
    <3> QED BY <1>1, <2>2, <3>1 DEF Stacked
  <2>5. \A j, k \in 1..Count[c] : <<c, j - 1>> = <<c, k - 1>> => j = k
    BY <1>1
  <2> QED BY <1>1, <2>3, <2>4, <2>5 DEF Blocks
<1>3. Shape
  <2>1. header \in [Columns -> Seq(PoolBlocks)]
    <3>1. SUFFICES ASSUME NEW c \in Columns PROVE header[c] \in Seq(PoolBlocks)
      BY DEF Init
    <3>2. DOMAIN header[c] = 1..Count[c] /\ Count[c] \in Nat
      BY <1>1
    <3>3. Stacked(c) \subseteq PoolBlocks
      <4>1. Stacked(c) = Blocks(c)
        BY <1>2
      <4>2. Blocks(c) \subseteq PoolBlocks
        BY BlocksApart
      <4> QED BY <4>1, <4>2
    <3>4. \A k \in 1..Count[c] : header[c][k] \in PoolBlocks
      BY <3>2, <3>3 DEF Stacked
    <3>5. header[c] = [k \in 1..Count[c] |-> header[c][k]]
      BY DEF Init
    <3>6. [k \in 1..Count[c] |-> header[c][k]] \in Seq(PoolBlocks)
      BY <3>2, <3>4, IsASeq
    <3> QED BY <3>5, <3>6
  <2> QED BY <2>1, MemoryPoolAssumption DEF Shape, Init
<1>4. ASSUME NEW c \in Columns
      PROVE  ColumnInv(c)
  <2>1. \A b \in Blocks(c) : b \in Addresses
    BY BlocksApart
  <2>2. \A b \in Blocks(c) : held[b] = 0
    BY <2>1 DEF Init
  <2> QED BY <1>2, <2>2 DEF ColumnInv
<1>5. HeapKnown
  BY BlocksApart DEF HeapKnown, Init
<1> QED BY <1>3, <1>4, <1>5 DEF IInv

\* A column whose stack and callers a step leaves alone.
LEMMA ColumnKept ==
  ASSUME NEW c \in Columns, ColumnInv(c),
         header'[c] = header[c], area'[c] => area[c],
         area'[c] => \A b \in Blocks(c) : held'[b] = held[b]
  PROVE  ColumnInv(c)'
<1>1. Stacked(c)' = Stacked(c) /\ Blocks(c)' = Blocks(c)
  BY DEF Stacked, Blocks
<1>2. (Stacked(c) \subseteq Blocks(c))'
  BY <1>1 DEF ColumnInv
<1>3. ASSUME area'[c]
      PROVE  /\ \A j, k \in DOMAIN header'[c] : header'[c][j] = header'[c][k] => j = k
             /\ \A b \in Blocks(c) : held'[b] = IF b \in Stacked(c)' THEN 0 ELSE 1
  BY <1>1, <1>3 DEF ColumnInv
<1> QED BY <1>1, <1>2, <1>3 DEF ColumnInv

\* The top of a column's stack goes to a caller.
LEMMA TopTaken ==
  ASSUME NEW c \in Columns, Shape, ColumnInv(c), header[c] # <<>>, NEW b,
         b = header[c][Len(header[c])],
         header'[c] = SubSeq(header[c], 1, Len(header[c]) - 1),
         area' = area, held' = [held EXCEPT ![b] = held[b] + 1]
  PROVE  b \in Blocks(c) /\ b \in Addresses /\ ColumnInv(c)'
<1> DEFINE s == header[c]
<1>1. s \in Seq(PoolBlocks)
  BY DEF Shape
<1>2. /\ Len(s) \in Nat \ {0} /\ DOMAIN s = 1..Len(s)
      /\ DOMAIN SubSeq(s, 1, Len(s) - 1) = 1..Len(s) - 1
      /\ \A k \in 1..Len(s) - 1 : SubSeq(s, 1, Len(s) - 1)[k] = s[k]
  BY <1>1, Popped
<1>3. Len(s) \in DOMAIN s /\ b \in Stacked(c)
  BY <1>2 DEF Stacked
<1>4. b \in Blocks(c) /\ b \in Addresses
  BY <1>3, BlocksApart DEF ColumnInv
<1>5. Stacked(c)' = {s[k] : k \in 1..Len(s) - 1} /\ Blocks(c)' = Blocks(c)
  BY <1>2 DEF Stacked, Blocks
<1>6. Stacked(c)' \subseteq Stacked(c)
  BY <1>2, <1>5 DEF Stacked
<1>7. ASSUME area[c]
      PROVE  /\ \A j, k \in DOMAIN header'[c] : header'[c][j] = header'[c][k] => j = k
             /\ \A d \in Blocks(c) : held'[d] = IF d \in Stacked(c)' THEN 0 ELSE 1
  <2>1. \A j, k \in 1..Len(s) : s[j] = s[k] => j = k
    BY <1>2, <1>7 DEF ColumnInv
  <2>2. \A j, k \in DOMAIN header'[c] : header'[c][j] = header'[c][k] => j = k
    BY <1>2, <2>1
  <2>3. Stacked(c)' = Stacked(c) \ {b}
    <3>1. \A k \in 1..Len(s) - 1 : k \in DOMAIN s /\ k # Len(s)
      BY <1>2
    <3>2. \A k \in DOMAIN s : k # Len(s) => k \in 1..Len(s) - 1
      BY <1>2
    <3>3. \A k \in DOMAIN s : s[k] = b => k = Len(s)
      BY <1>2, <2>1
    <3> QED BY <1>5, <3>1, <3>2, <3>3 DEF Stacked
  <2>4. \A d \in Blocks(c) : held[d] = IF d \in Stacked(c) THEN 0 ELSE 1
    BY <1>7 DEF ColumnInv
  <2>5. held'[b] = 1 /\ \A d \in Blocks(c) : d # b => held'[d] = held[d]
    BY <1>3, <1>4, <2>4 DEF Shape
  <2> QED BY <2>2, <2>3, <2>4, <2>5
<1> QED BY <1>4, <1>5, <1>6, <1>7 DEF ColumnInv

\* A block goes from its caller back to the column's stack.
LEMMA BackOnTop ==
  ASSUME NEW c \in Columns, Shape, ColumnInv(c), NEW b \in Blocks(c), held[b] > 0,
         header'[c] = Append(header[c], b),
         area' = area, held' = [held EXCEPT ![b] = held[b] - 1]
  PROVE  ColumnInv(c)'
<1> DEFINE s == header[c]
<1>1. b \in PoolBlocks /\ b \in Addresses /\ s \in Seq(PoolBlocks)
  BY BlocksApart DEF Shape
<1>2. /\ Len(s) \in Nat /\ DOMAIN s = 1..Len(s)
      /\ DOMAIN Append(s, b) = 1..Len(s) + 1
      /\ \A k \in 1..Len(s) : Append(s, b)[k] = s[k]
      /\ Append(s, b)[Len(s) + 1] = b
  BY <1>1, Pushed
<1>3. Stacked(c)' = Stacked(c) \cup {b} /\ Blocks(c)' = Blocks(c)
  <2>1. 1..Len(s) + 1 = (1..Len(s)) \cup {Len(s) + 1}
    BY <1>2
  <2>2. Stacked(c)' = {Append(s, b)[k] : k \in 1..Len(s) + 1}
    BY <1>2 DEF Stacked
  <2>3. Stacked(c) = {s[k] : k \in 1..Len(s)}
    BY <1>2 DEF Stacked
  <2>4. {Append(s, b)[k] : k \in 1..Len(s)} = {s[k] : k \in 1..Len(s)}
    BY <1>2
  <2>5. {Append(s, b)[k] : k \in 1..Len(s) + 1}
          = {Append(s, b)[k] : k \in 1..Len(s)} \cup {Append(s, b)[Len(s) + 1]}
    BY <2>1
  <2>6. Blocks(c)' = Blocks(c)
    BY DEF Blocks
  <2> HIDE DEF s
  <2> QED BY <1>2, <2>2, <2>3, <2>4, <2>5, <2>6
<1>4. ASSUME area[c]
      PROVE  /\ \A j, k \in DOMAIN header'[c] : header'[c][j] = header'[c][k] => j = k
             /\ \A d \in Blocks(c) : held'[d] = IF d \in Stacked(c)' THEN 0 ELSE 1
  <2>1. \A d \in Blocks(c) : held[d] = IF d \in Stacked(c) THEN 0 ELSE 1
    BY <1>4 DEF ColumnInv
  <2>2. b \notin Stacked(c) /\ held[b] = 1
    BY <2>1
  <2>3. \A k \in 1..Len(s) : s[k] # b
    BY <1>2, <2>2 DEF Stacked
  <2>4. \A j, k \in 1..Len(s) : s[j] = s[k] => j = k
    BY <1>2, <1>4 DEF ColumnInv
  <2>5. \A j, k \in 1..Len(s) + 1 : Append(s, b)[j] = Append(s, b)[k] => j = k
    <3>1. SUFFICES ASSUME NEW j \in 1..Len(s) + 1, NEW k \in 1..Len(s) + 1,
                          Append(s, b)[j] = Append(s, b)[k]
                   PROVE  j = k
      OBVIOUS
    <3>2. CASE j \in 1..Len(s) /\ k \in 1..Len(s)
      BY <1>2, <2>4, <3>1, <3>2
    <3>3. CASE j = Len(s) + 1 \/ k = Len(s) + 1
      <4>1. \A l \in 1..Len(s) + 1 : Append(s, b)[l] = b => l = Len(s) + 1
        BY <1>2, <2>3
      <4> QED BY <1>2, <3>1, <3>3, <4>1
    <3> QED BY <1>2, <3>2, <3>3
  <2>6. held'[b] = 0 /\ \A d \in Blocks(c) : d # b => held'[d] = held[d]
    BY <1>1, <2>2 DEF Shape
  <2>7. \A j, k \in DOMAIN header'[c] : header'[c][j] = header'[c][k] => j = k
    BY <1>2, <2>5
  <2>8. \A d \in Blocks(c) : held'[d] = IF d \in Stacked(c)' THEN 0 ELSE 1
    BY <1>3, <2>1, <2>6
  <2> QED BY <2>7, <2>8
<1>5. Stacked(c)' \subseteq Blocks(c)'
  BY <1>3 DEF ColumnInv
<1> QED BY <1>3, <1>4, <1>5 DEF ColumnInv

\* Each action of MemoryPool preserves IInv.
LEMMA IInvNext == IInv /\ [Next]_vars => IInv'
<1> SUFFICES ASSUME IInv, [Next]_vars PROVE IInv'
  OBVIOUS
<1> USE DEF IInv
<1>1. ASSUME UNCHANGED <<header, held, heap, area, pool>>, pc' \in [Threads -> 0..NumColumns + 1]
      PROVE  IInv'
  <2>1. Shape' /\ HeapKnown'
    BY <1>1 DEF Shape, HeapKnown
  <2>2. \A c \in Columns : ColumnInv(c)'
    BY <1>1, ColumnKept
  <2> QED BY <2>1, <2>2
<1>2. ASSUME NEW t \in Threads, NEW class \in 1..NumColumns + 1, Call(t, class)
      PROVE  IInv'
  <2>1. pc' \in [Threads -> 0..NumColumns + 1]
    BY <1>2, MemoryPoolAssumption DEF Call, Shape
  <2> QED BY <1>1, <1>2, <2>1 DEF Call
<1>3. ASSUME NEW t \in Threads, TakeBlock(t)
      PROVE  IInv'
  <2>0. PICK c \in Columns : c = pc[t]
    BY <1>3 DEF TakeBlock
  <2> DEFINE s == header[c]
  <2>1. s # <<>> /\ s \in Seq(PoolBlocks)
    BY <1>3, <2>0 DEF TakeBlock, Shape
  <2>2. PICK b : b = s[Len(s)]
    OBVIOUS
  <2>3. /\ held' = [held EXCEPT ![b] = held[b] + 1]
        /\ pool' = pool /\ area' = area /\ heap' = heap
        /\ header' = [header EXCEPT ![c] = SubSeq(s, 1, Len(s) - 1)]
        /\ pc' = [pc EXCEPT ![t] = 0]
    BY <1>3, <2>0, <2>2 DEF TakeBlock
  <2>4. /\ header'[c] = SubSeq(s, 1, Len(s) - 1)
        /\ \A d \in Columns : d # c => header'[d] = header[d]
    BY <2>3 DEF Shape
  <2>5. b \in Blocks(c) /\ b \in Addresses /\ ColumnInv(c)'
    BY <2>1, <2>2, <2>3, <2>4, TopTaken
  <2>6. SubSeq(s, 1, Len(s) - 1) \in Seq(PoolBlocks)
    BY <2>1, Popped
  <2>7. Shape'
    <3>1. header' \in [Columns -> Seq(PoolBlocks)]
      BY <2>3, <2>6 DEF Shape
    <3>2. pc' \in [Threads -> 0..NumColumns + 1]
      BY <2>3, MemoryPoolAssumption DEF Shape
    <3>3. held' \in [Addresses -> Nat]
      BY <2>3, <2>5 DEF Shape
    <3> QED BY <2>3, <3>1, <3>2, <3>3 DEF Shape
  <2>8. ASSUME NEW d \in Columns, d # c
        PROVE  ColumnInv(d)'
    <3>1. \A x \in Blocks(d) : held'[x] = held[x]
      BY <2>3, <2>5, <2>8, BlocksApart DEF Shape
    <3> QED BY <2>3, <2>4, <2>8, <3>1, ColumnKept
  <2>9. HeapKnown'
    <3>1. \A x \in HeapBlocks : held'[x] = held[x]
      BY <2>3, <2>5, BlocksApart DEF Shape
    <3> QED BY <2>3, <3>1 DEF HeapKnown
  <2> QED BY <2>5, <2>7, <2>8, <2>9
<1>4. ASSUME NEW t \in Threads, UsedUp(t)
      PROVE  IInv'
  <2>1. pc[t] + 1 \in 0..NumColumns + 1
    BY <1>4, MemoryPoolAssumption DEF UsedUp, Columns
  <2>2. pc' \in [Threads -> 0..NumColumns + 1]
    BY <1>4, <2>1 DEF UsedUp, Shape
  <2> QED BY <1>1, <1>4, <2>2 DEF UsedUp
<1>5. ASSUME NEW t \in Threads, FromHeap(t)
      PROVE  IInv'
  <2>1. PICK b \in Addresses \ Allocated :
          heap' = heap \cup {b} /\ held' = [held EXCEPT ![b] = held[b] + 1]
    BY <1>5 DEF FromHeap
  <2>2. UNCHANGED <<pool, header, area>> /\ pc' = [pc EXCEPT ![t] = 0]
    BY <1>5 DEF FromHeap
  <2>3. Shape'
    BY <2>1, <2>2, MemoryPoolAssumption DEF Shape
  <2>4. b \notin heap /\ \A c \in Columns : area[c] => b \notin Blocks(c)
    BY <2>1 DEF Allocated
  <2>5. ASSUME NEW c \in Columns
        PROVE  ColumnInv(c)'
    <3>1. area[c] => \A x \in Blocks(c) : held'[x] = held[x]
      BY <2>1, <2>4 DEF Shape
    <3> QED BY <2>2, <3>1, ColumnKept
  <2>6. HeapKnown'
    BY <2>1, <2>4 DEF HeapKnown, Shape
  <2> QED BY <2>3, <2>5, <2>6
<1>6. ASSUME NEW b \in Addresses, PutBack(b)
      PROVE  IInv'
  <2>1. PICK c \in Columns :
          Within(b, c) /\ header' = [header EXCEPT ![c] = Append(header[c], b)]
    BY <1>6 DEF PutBack
  <2>2. held[b] > 0 /\ held' = [held EXCEPT ![b] = held[b] - 1]
        /\ UNCHANGED <<pool, area, heap, pc>>
    BY <1>6 DEF PutBack
  <2>3. b \in Blocks(c) /\ b \in PoolBlocks
    BY <2>1, BlocksApart DEF Within
  <2>4. /\ header'[c] = Append(header[c], b)
        /\ \A d \in Columns : d # c => header'[d] = header[d]
    BY <2>1 DEF Shape
  <2>5. ColumnInv(c)'
    BY <2>2, <2>3, <2>4, BackOnTop
  <2>6. Shape'
    <3>1. Append(header[c], b) \in Seq(PoolBlocks)
      BY <2>3, Pushed DEF Shape
    <3>2. header' \in [Columns -> Seq(PoolBlocks)]
      BY <2>1, <3>1 DEF Shape
    <3>3. held[b] - 1 \in Nat
      BY <2>2 DEF Shape
    <3>4. held' \in [Addresses -> Nat]
      BY <2>2, <3>3 DEF Shape
    <3> QED BY <2>2, <3>2, <3>4 DEF Shape
  <2>7. ASSUME NEW d \in Columns, d # c
        PROVE  ColumnInv(d)'
    <3>1. \A x \in Blocks(d) : held'[x] = held[x]
      BY <2>2, <2>3, <2>7, BlocksApart DEF Shape
    <3> QED BY <2>2, <2>4, <2>7, <3>1, ColumnKept
  <2>8. HeapKnown'
    <3>1. \A x \in HeapBlocks : held'[x] = held[x]
      BY <2>2, <2>3, BlocksApart DEF Shape
    <3> QED BY <2>2, <3>1 DEF HeapKnown
  <2> QED BY <2>5, <2>6, <2>7, <2>8
<1>7. ASSUME NEW b \in Addresses, GiveBack(b)
      PROVE  IInv'
  <2>1. /\ UNCHANGED <<pool, header, pc>> /\ held[b] > 0
        /\ held' = [held EXCEPT ![b] = held[b] - 1] /\ heap' = heap \ {b}
        /\ area' = [c \in Columns |-> area[c] /\ b # <<c, 0>>]
    BY <1>7 DEF GiveBack
  <2>2. \A c \in Columns : b \in Blocks(c) => b = <<c, 0>>
    BY <1>7 DEF GiveBack, Within
  <2>3. Shape'
    <3>1. held[b] - 1 \in Nat
      BY <2>1 DEF Shape
    <3>2. held' \in [Addresses -> Nat]
      BY <2>1, <3>1 DEF Shape
    <3>3. area' \in [Columns -> BOOLEAN]
      BY <2>1 DEF Shape
    <3> QED BY <2>1, <3>2, <3>3 DEF Shape
  <2>4. ASSUME NEW c \in Columns
        PROVE  ColumnInv(c)'
    <3>1. area'[c] => area[c] /\ b \notin Blocks(c)
      BY <2>1, <2>2
    <3>2. area'[c] => \A x \in Blocks(c) : held'[x] = held[x]
      BY <2>1, <3>1 DEF Shape
    <3> QED BY <2>1, <3>1, <3>2, ColumnKept
  <2>5. HeapKnown'
    BY <2>1 DEF HeapKnown, Shape
  <2> QED BY <2>3, <2>4, <2>5
<1>8. ASSUME UnInit
      PROVE  IInv'
  <2>1. /\ pool' = "gone" /\ UNCHANGED <<heap, held, pc>>
        /\ header' = [c \in Columns |-> <<>>] /\ area' = [c \in Columns |-> FALSE]
    BY <1>8 DEF UnInit
  <2>2. Shape'
    BY <2>1, EmptySeq DEF Shape
  <2>3. \A c \in Columns : ColumnInv(c)'
    BY <2>1 DEF ColumnInv, Stacked
  <2>4. HeapKnown'
    BY <2>1 DEF HeapKnown
  <2> QED BY <2>2, <2>3, <2>4
<1>9. CASE UNCHANGED vars
  BY <1>1, <1>9 DEF vars, Shape
<1> QED
  BY <1>2, <1>3, <1>4, <1>5, <1>6, <1>7, <1>8, <1>9 DEF Next, Malloc

LEMMA Inductive == Spec => []IInv
BY IInvInit, IInvNext, PTL DEF Spec

-----------------------------------------------------------------------------
(* The theorems.                                                           *)

\* The stack of an allocated column does not outgrow its array: it holds different
\* blocks of the column, and there are only Count[c] of those.
LEMMA StackFits == IInv => TypeOK
<1> SUFFICES ASSUME IInv, NEW c \in Columns, area[c] PROVE Len(header[c]) <= Count[c]
  BY DEF IInv, Shape, TypeOK
<1>1. /\ header[c] \in Seq(PoolBlocks)
      /\ Stacked(c) \subseteq Blocks(c)
      /\ \A j, k \in DOMAIN header[c] : header[c][j] = header[c][k] => j = k
  BY DEF IInv, Shape, ColumnInv
<1> DEFINE D == 1..Len(header[c])
<1>2. Len(header[c]) \in Nat /\ DOMAIN header[c] = D
  BY <1>1, LenProperties
<1>3. IsFiniteSet(D) /\ Cardinality(D) = Len(header[c])
  BY <1>2, FS_Interval
<1>4. header[c] \in [D -> Blocks(c)]
  <2>1. \A k \in D : header[c][k] \in Blocks(c)
    BY <1>1, <1>2 DEF Stacked
  <2>2. header[c] = [k \in D |-> header[c][k]]
    BY <1>1, <1>2, LenProperties
  <2> QED BY <2>1, <2>2
<1>5. Cardinality(D) <= Cardinality(Blocks(c))
  <2>1. header[c] \in Injection(D, Blocks(c))
    BY <1>1, <1>2, <1>4 DEF Injection, IsInjective
  <2>2. IsFiniteSet(Blocks(c))
    BY BlocksCount
  <2> QED BY <2>1, <2>2, FS_Injection
<1> QED BY <1>3, <1>5, BlocksCount

\* FREE never writes past the end of the array of an allocated column, whatever
\* the columns' sizes, however many threads allocate and free, and whatever
\* addresses malloc() returns.
THEOREM TypeCorrect == Spec => []TypeOK
BY Inductive, StackFits, PTL

\* As long as a column's memory is allocated MALLOC hands out none of its blocks
\* twice, even when other columns were freed by their first block and malloc()
\* gives their addresses out again.
THEOREM NoBlockTwice == Spec => []NeverTwice
<1>1. IInv => NeverTwice
  <2> SUFFICES ASSUME IInv PROVE NeverTwice
    OBVIOUS
  <2>1. \A b \in HeapBlocks : held[b] <= 1
    BY DEF IInv, HeapKnown
  <2>2. \A c \in Columns : ColumnInv(c)
    BY DEF IInv
  <2> QED BY <2>1, <2>2 DEF ColumnInv, NeverTwice
<1> QED BY Inductive, <1>1, PTL

\* As long as a column's memory is allocated, a block that left its stack is in a
\* caller's hands or on the stack again.
THEOREM NoBlockLost == Spec => []NoneLost
<1>1. IInv => NoneLost
  BY DEF IInv, ColumnInv, NoneLost
<1> QED BY Inductive, <1>1, PTL
=============================================================================
