----------------------------- MODULE MemoryPool -----------------------------
(***************************************************************************)
(* utils/memory_pool.c: columns of equal blocks, each with a stack of free *)
(* blocks under one spin lock.  MALLOC looks for a block in the columns    *)
(* that are large enough, smallest first, and takes one from the C heap    *)
(* when all are used up; FREE finds the column by the address.             *)
(*                                                                         *)
(* A request is its size class: the first column whose blocks are large    *)
(* enough, or NumColumns + 1 if none is.  The lock is held for one look at *)
(* one column, so that is a step.                                          *)
(*                                                                         *)
(* FREE does not recognise the first block of a column and hands it to     *)
(* free(), and the column's memory with it.  From then on malloc() may     *)
(* return addresses of that column, whoever still has blocks of it and     *)
(* whatever is on its stack: held counts the callers of an address.        *)
(***************************************************************************)
EXTENDS Naturals, Sequences, FiniteSets, Functions

CONSTANTS
  Threads,      \* the threads that allocate and free
  NumColumns,   \* memoryPoolLevel: columns are 1..NumColumns, by block size
  Count,        \* memoryPoolSize: blocks per column
  HeapBlocks,   \* addresses malloc() may return outside of all columns
  MaxHeld       \* bound: blocks that callers have or are asking for

Columns   == 1..NumColumns
Blocks(c) == {<<c, j>> : j \in 0..Count[c] - 1}    \* <<c, 0>> is at addr_start
PoolBlocks == UNION {Blocks(c) : c \in Columns}
Addresses  == PoolBlocks \cup HeapBlocks

ASSUME MemoryPoolAssumption ==
  /\ NumColumns \in Nat \ {0}
  /\ Count \in [Columns -> Nat \ {0}]
  /\ HeapBlocks \cap PoolBlocks = {}
  /\ MaxHeld \in Nat

VARIABLES
  pool,         \* "live" from MALLOC_INIT to memoryPoolUnInit, then "gone"
  header,       \* per column, the free blocks: header[0 .. remain_count - 1]
  area,         \* per column, is the memory from addr_start allocated?
  heap,         \* the addresses malloc() returned and free() did not get yet
  held,         \* per address, how many callers have it
  pc            \* per thread, the column MALLOC looks at next, or 0

vars == <<pool, header, area, heap, held, pc>>

\* MALLOC_INIT
Init ==
  /\ pool = "live"
  /\ header = [c \in Columns |-> [k \in 1..Count[c] |-> <<c, k - 1>>]]
  /\ area = [c \in Columns |-> TRUE]
  /\ heap = {}
  /\ held = [b \in Addresses |-> 0]
  /\ pc = [t \in Threads |-> 0]

-----------------------------------------------------------------------------
(* MALLOC                                                                  *)

\* The blocks callers have or are asking for.
Outstanding == FoldFunction(+, 0, held) + Cardinality({t \in Threads : pc[t] # 0})

Call(t, class) ==
  /\ pool = "live" /\ pc[t] = 0
  /\ Outstanding < MaxHeld
  /\ pc' = [pc EXCEPT ![t] = class]
  /\ UNCHANGED <<pool, header, area, heap, held>>

TakeBlock_NotCounted(t) ==                                          \* MUTANT
  LET c == pc[t] IN
  /\ c \in Columns /\ header[c] # <<>>
  /\ held' = [held EXCEPT ![header[c][Len(header[c])]] = @ + 1]
  /\ pc' = [pc EXCEPT ![t] = 0]
  /\ UNCHANGED <<pool, header, area, heap>>

\* header[--remain_count]
TakeBlock(t) ==
  LET c == pc[t] IN
  /\ c \in Columns /\ header[c] # <<>>
  /\ held' = [held EXCEPT ![header[c][Len(header[c])]] = @ + 1]
  /\ header' = [header EXCEPT ![c] = SubSeq(@, 1, Len(@) - 1)]
  /\ pc' = [pc EXCEPT ![t] = 0]
  /\ UNCHANGED <<pool, area, heap>>

UsedUp_Retry(t) ==                                                  \* MUTANT
  /\ pc[t] \in Columns /\ header[pc[t]] = <<>>
  /\ UNCHANGED vars

UsedUp(t) ==
  /\ pc[t] \in Columns /\ header[pc[t]] = <<>>
  /\ pc' = [pc EXCEPT ![t] = @ + 1]
  /\ UNCHANGED <<pool, header, area, heap, held>>

\* What the C library has given out: to callers, and to the columns.
Allocated == heap \cup UNION {Blocks(c) : c \in {d \in Columns : area[d]}}

\* Label a: all pools are used up, or the request is larger than every block.
FromHeap(t) ==
  /\ pc[t] = NumColumns + 1
  /\ \E b \in Addresses \ Allocated :
       /\ heap' = heap \cup {b}
       /\ held' = [held EXCEPT ![b] = @ + 1]
  /\ pc' = [pc EXCEPT ![t] = 0]
  /\ UNCHANGED <<pool, header, area>>

-----------------------------------------------------------------------------
(* FREE, with a block its caller has                                       *)

Within_NotLast(b, c) == b \in Blocks(c) \ {<<c, 0>>, <<c, Count[c] - 1>>} \* MUTANT
\* "buffer > addr_start && buffer < addr_end": the first block is not within.
Within(b, c) == b \in Blocks(c) \ {<<c, 0>>}

PutBack(b) ==
  /\ pool = "live" /\ held[b] > 0
  /\ \E c \in Columns :
       /\ Within(b, c)
       /\ header' = [header EXCEPT ![c] = Append(@, b)]
  /\ held' = [held EXCEPT ![b] = @ - 1]
  /\ UNCHANGED <<pool, area, heap, pc>>

\* free(): of the first block of a column it gives back all of the column.
GiveBack(b) ==
  /\ pool = "live" /\ held[b] > 0
  /\ \A c \in Columns : ~ Within(b, c)
  /\ area' = [c \in Columns |-> area[c] /\ b # <<c, 0>>]
  /\ heap' = heap \ {b}
  /\ held' = [held EXCEPT ![b] = @ - 1]
  /\ UNCHANGED <<pool, header, pc>>

\* memoryPoolUnInit, the last call of main.  A column whose memory FREE gave
\* away is freed once more; the process ends here either way.
UnInit ==
  /\ pool = "live"
  /\ \A b \in Addresses : held[b] = 0
  /\ \A t \in Threads : pc[t] = 0
  /\ pool' = "gone"
  /\ header' = [c \in Columns |-> <<>>]
  /\ area' = [c \in Columns |-> FALSE]
  /\ UNCHANGED <<heap, held, pc>>

-----------------------------------------------------------------------------
Malloc(t) == TakeBlock(t) \/ UsedUp(t) \/ FromHeap(t)

Next ==
  \/ \E t \in Threads : \E class \in 1..NumColumns + 1 : Call(t, class)
  \/ \E t \in Threads : Malloc(t)
  \/ \E b \in Addresses : PutBack(b) \/ GiveBack(b)
  \/ UnInit

Spec == Init /\ [][Next]_vars

\* A call of MALLOC runs on.
FairSpec == Spec /\ \A t \in Threads : WF_vars(Malloc(t))

-----------------------------------------------------------------------------
(* Properties                                                              *)

Stacked(c) == {header[c][k] : k \in DOMAIN header[c]}

\* In a column whose memory is allocated remain_count stays within total_count,
\* so FREE writes header[remain_count++] inside the array.
TypeOK ==
  /\ pool \in {"live", "gone"}
  /\ header \in [Columns -> Seq(PoolBlocks)]
  /\ area \in [Columns -> BOOLEAN]
  /\ \A c \in Columns : area[c] => Len(header[c]) <= Count[c]
  /\ heap \subseteq Addresses
  /\ held \in [Addresses -> Nat]
  /\ pc \in [Threads -> 0..NumColumns + 1]

\* However MALLOC and FREE of several threads interleave, and whatever malloc()
\* returns once another column was freed by its first block: as long as a column's
\* memory is allocated, each of its blocks has one caller at most, and one that
\* is on the stack is there once and has none.  Addresses outside of all columns
\* have one caller at most.  Nothing of this is said of a column whose first
\* block went to FREE: its blocks may be handed out twice.
NeverTwice ==
  /\ \A c \in Columns : Stacked(c) \subseteq Blocks(c)
  /\ \A c \in Columns : area[c] =>
       /\ \A j, k \in DOMAIN header[c] : header[c][j] = header[c][k] => j = k
       /\ \A b \in Blocks(c) : held[b] = 0 \/ (held[b] = 1 /\ b \notin Stacked(c))
  /\ \A b \in HeapBlocks : held[b] <= 1

\* No block is lost, the last of a column included: as long as the column's
\* memory is allocated it is on the stack or somebody has it.
NoneLost ==
  \A c \in Columns : area[c] => \A b \in Blocks(c) : b \in Stacked(c) \/ held[b] > 0

\* MALLOC returns although every column it looks at is used up.
MallocReturns == \A t \in Threads : (pc[t] # 0) ~> (pc[t] = 0)
=============================================================================
