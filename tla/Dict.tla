-------------------------------- MODULE Dict --------------------------------
(***************************************************************************)
(* utils/basic_struct/dict.c: a chained hash table that grows and shrinks  *)
(* by incremental rehashing.  While rehashidx is not -1 there are two      *)
(* tables, and every call that is not made under a safe iterator moves one *)
(* bucket of the old table to the new one.  The calls on one dict are made *)
(* by one thread at a time (under the spin locks of cache.c), so each call *)
(* is a step; a walk over the table, by a safe iterator or by dictScan, is *)
(* many calls with others in between.  Values travel with their entries    *)
(* and are left out: an entry is its key.                                  *)
(***************************************************************************)
EXTENDS Integers, SequencesExt

CONSTANTS
  Keys,
  Hash,           \* dictHashKey
  InitialSize,    \* DICT_HT_INITIAL_SIZE
  EmptyVisits,    \* empty buckets one step of dictRehash goes over: 10
  Sizes,          \* bound: the sizes of tables, powers of two from InitialSize up
  Asked,          \* the sizes the caller asks dictExpand for
  ScanHeeded,     \* what to expect of the caller: while a scan is under way it asks
                  \* for no table of half the cursor or less
  IteratorHeeded, \* the same: under an iterator it deletes no entry whose address
                  \* the iterator keeps in nextEntry, and does not empty the dict
  NoKey           \* NULL

PowersOfTwo == {n \in Nat \ {0} : \A p \in 1..n : n % p = 0 => p = 1 \/ p % 2 = 0}

ASSUME DictAssumption ==
  /\ IsFiniteSet(Keys) /\ Hash \in [Keys -> Nat] /\ NoKey \notin Keys
  /\ InitialSize \in Sizes /\ EmptyVisits \in Nat \ {0}
  /\ Sizes \subseteq PowersOfTwo /\ \A n \in Sizes : InitialSize <= n
  /\ \E n \in Sizes : 2 * Cardinality(Keys) <= n
  /\ Asked \subseteq Sizes /\ ScanHeeded \in BOOLEAN /\ IteratorHeeded \in BOOLEAN

VARIABLES
  d,              \* the dict: ht[0..1], rehashidx and iterators
  stored,         \* history: keys added and not deleted since
  walk            \* the walk under way, if any, with its history

dictVars == <<d, stored, walk>>

NewTable(n) == [size |-> n, used |-> 0, bucket |-> [i \in 0..n - 1 |-> <<>>]]
Both(a, b)  == [t \in 0..1 |-> IF t = 0 THEN a ELSE b]
NewDict     == [ht |-> Both(NewTable(0), NewTable(0)), rehashidx |-> -1, iterators |-> 0]

\* A walk: its kind, the iterator's or scan's own fields, the keys it returned,
\* whether one was returned twice, and the keys stored since it began; a key that
\* is deleted is forgotten by both sets.
NoWalk  == [kind |-> "none", v |-> 0, table |-> 0, index |-> -1, entry |-> NoKey,
            next |-> NoKey, seen |-> {}, twice |-> FALSE, since |-> {}]

DictInit == d = NewDict /\ stored = {} /\ walk = NoWalk

-----------------------------------------------------------------------------
(* The table                                                               *)

IsRehashing(e) == e.rehashidx # -1
DictSize(e)    == e.ht[0].used + e.ht[1].used
Chain(e, t, i) == e.ht[t].bucket[i]
Slot(e, t, k)  == Hash[k] % e.ht[t].size
Tables(e)      == IF IsRehashing(e) THEN {0, 1} ELSE {0}

\* The search dictFind, dictGenericDelete and _dictKeyIndex share.
HasKey(e, t, k) == e.ht[t].size # 0 /\ k \in ToSet(Chain(e, t, Slot(e, t, k)))
Lookup(e, k)    == \E t \in Tables(e) : HasKey(e, t, k)

NextPower(n) == Min({s \in Sizes : s >= n})

\* dictExpand
Expand_WhileRehashing(e, n) ==                                      \* MUTANT
  IF e.ht[0].used > n \/ NextPower(n) = e.ht[0].size THEN e
  ELSE IF e.ht[0].size = 0
       THEN [e EXCEPT !.ht = Both(NewTable(NextPower(n)), e.ht[1])]
       ELSE [e EXCEPT !.rehashidx = 0, !.ht = Both(e.ht[0], NewTable(NextPower(n)))]

Expand(e, n) ==
  IF IsRehashing(e) \/ e.ht[0].used > n \/ NextPower(n) = e.ht[0].size THEN e
  ELSE IF e.ht[0].size = 0
       THEN [e EXCEPT !.ht = Both(NewTable(NextPower(n)), e.ht[1])]
       ELSE [e EXCEPT !.rehashidx = 0, !.ht = Both(e.ht[0], NewTable(NextPower(n)))]

\* _dictExpandIfNeeded, with dict_can_resize = 1
Expanded(e) ==
  IF e.ht[0].size = 0 THEN Expand(e, InitialSize)
  ELSE IF e.ht[0].used >= e.ht[0].size THEN Expand(e, 2 * e.ht[0].used) ELSE e

\* Bucket j of the new table after "move all the keys in this bucket from the old
\* to the new hash HT": each goes to the head of its chain.
Received(e, j, chain) ==
  LET after[n \in 0..Len(chain)] ==
        IF n = 0 THEN Chain(e, 1, j)
        ELSE IF Slot(e, 1, chain[n]) = j THEN <<chain[n]>> \o after[n - 1] ELSE after[n - 1]
  IN  after[Len(chain)]

\* One bucket of the old table goes over.
MoveBucket(e, i) ==
  LET chain == Chain(e, 0, i) IN
  [e EXCEPT !.rehashidx = i + 1,
            !.ht = Both([e.ht[0] EXCEPT !.bucket[i] = <<>>, !.used = @ - Len(chain)],
                        [e.ht[1] EXCEPT !.bucket = [j \in DOMAIN @ |-> Received(e, j, chain)],
                                        !.used = @ + Len(chain)])]

\* "Check if we already rehashed the whole table..."
Finished_StillRehashing(e) ==                                       \* MUTANT
  IF e.ht[0].used # 0 THEN e ELSE [e EXCEPT !.ht = Both(e.ht[1], NewTable(0))]

Finished(e) ==
  IF e.ht[0].used # 0 THEN e
  ELSE [e EXCEPT !.rehashidx = -1, !.ht = Both(e.ht[1], NewTable(0))]

\* dictRehash(d, 1)
Rehash(e) ==
  LET left == {i \in 0..e.ht[0].size - 1 : e.rehashidx <= i /\ Chain(e, 0, i) # <<>>} IN
  IF ~ IsRehashing(e) THEN e
  ELSE IF e.ht[0].used = 0 THEN Finished(e)
  ELSE IF Min(left) - e.rehashidx >= EmptyVisits
       THEN [e EXCEPT !.rehashidx = @ + EmptyVisits]
       ELSE Finished(MoveBucket(e, Min(left)))

\* _dictRehashStep
RehashStep_Always(e) == Rehash(e)                                   \* MUTANT
RehashStep(e) == IF e.iterators = 0 THEN Rehash(e) ELSE e

\* dictAddRaw: a new entry goes to the head of its chain in the newer table.
Insert_OldTable(e, k) ==                                            \* MUTANT
  LET T == e.ht[0] IN
  [e EXCEPT !.ht[0] = [T EXCEPT !.bucket[Slot(e, 0, k)] = <<k>> \o @, !.used = @ + 1]]

Insert(e, k) ==
  LET t == IF IsRehashing(e) THEN 1 ELSE 0
      T == e.ht[t]
  IN  [e EXCEPT !.ht[t] = [T EXCEPT !.bucket[Slot(e, t, k)] = <<k>> \o @, !.used = @ + 1]]

\* dictGenericDelete: from the first table that has the key.
Unlink(e, k) ==
  LET t == Min({u \in Tables(e) : HasKey(e, u, k)})
      T == e.ht[t]
  IN  [e EXCEPT !.ht[t] = [T EXCEPT !.bucket[Slot(e, t, k)] = RemoveFirst(@, k), !.used = @ - 1]]

-----------------------------------------------------------------------------
(* The calls that look up, add and delete                                  *)

\* dictAdd and dictReplace: an existing key has its value replaced or not, but
\* the table is rehashed and expanded first in any case.
Add(k) ==
  LET e == Expanded(RehashStep(d)) IN
  /\ d' = IF Lookup(e, k) THEN e ELSE Insert(e, k)
  /\ stored' = stored \cup {k}
  /\ UNCHANGED walk

\* dictFind, dictFetchValue and dictGetRandomKey
Find ==
  /\ DictSize(d) # 0
  /\ d' = RehashStep(d)
  /\ UNCHANGED <<stored, walk>>

\* dictDelete.  Nothing in it, and nothing in dict.h, keeps a caller from deleting
\* the entry an iterator has saved as its next one: nextEntry then points to freed
\* memory, dictNext would return it, and the walk is wild and goes no further.
Delete(k) ==
  LET e == RehashStep(d) IN
  /\ DictSize(d) # 0
  /\ IteratorHeeded => k # walk.next
  /\ d' = IF Lookup(e, k) THEN Unlink(e, k) ELSE e
  /\ stored' = stored \ {k}
  /\ walk' = [walk EXCEPT !.since = @ \ {k}, !.seen = @ \ {k},
                          !.kind = IF k = walk.next THEN "wild" ELSE @]

Asks(n) ==
  /\ walk.kind = "scan" /\ ScanHeeded => walk.v < 2 * NextPower(n)
  /\ d' = Expand(d, n)

\* dictResize: "the minimal size that contains all the elements"
Resize ==
  /\ ~ IsRehashing(d)
  /\ Asks(Max({d.ht[0].used, InitialSize}))
  /\ UNCHANGED <<stored, walk>>

ExpandTo(n) ==
  /\ Asks(n)
  /\ UNCHANGED <<stored, walk>>

\* dictEmpty, which resets d->iterators too: an iterator that is under way has its
\* saved entry freed, or counts iterators below 0 at its release.
Empty ==
  /\ IteratorHeeded => walk.kind # "iterator"
  /\ d' = NewDict
  /\ stored' = {}
  /\ walk' = [walk EXCEPT !.since = {}, !.kind = IF @ = "iterator" THEN "wild" ELSE @]

-----------------------------------------------------------------------------
(* A safe iterator                                                         *)

GetSafeIterator ==
  /\ walk.kind = "none"
  /\ walk' = [NoWalk EXCEPT !.kind = "iterator", !.since = stored]
  /\ UNCHANGED <<d, stored>>

\* The buckets dictNext looks at from here on: the rest of this table and, in
\* the middle of a rehashing, the second table after the first.
Ahead ==
  {<<walk.table, i>> : i \in walk.index + 1..d.ht[walk.table].size - 1}
    \cup {<<1, i>> : i \in IF IsRehashing(d) /\ walk.table = 0 THEN 0..d.ht[1].size - 1 ELSE {}}

Earlier(a, b) == a[1] < b[1] \/ (a[1] = b[1] /\ a[2] < b[2])

\* "We need to save the 'next' here"
After(k, t) ==
  LET chain == Chain(d, t, Slot(d, t, k))
      pos   == SelectInSeq(chain, LAMBDA x : x = k)
  IN  IF pos < Len(chain) THEN chain[pos + 1] ELSE NoKey

ReturnEntry(k, t, i) ==
  walk' = [walk EXCEPT !.table = t, !.index = i, !.entry = k, !.next = After(k, t),
                       !.seen = @ \cup {k}, !.twice = @ \/ (k \in walk.seen)]

\* iter->index == -1 && iter->table == 0: the first call
CountIterator ==
  d' = IF walk.index = -1 /\ walk.table = 0 THEN [d EXCEPT !.iterators = @ + 1] ELSE d

NextInChain ==
  /\ walk.kind = "iterator" /\ walk.entry # NoKey /\ walk.next # NoKey
  /\ ReturnEntry(walk.next, walk.table, walk.index)
  /\ UNCHANGED <<d, stored>>

NextInTable ==
  /\ walk.kind = "iterator" /\ walk.next = NoKey
  /\ \E a \in Ahead :
       /\ Chain(d, a[1], a[2]) # <<>>
       /\ \A b \in Ahead : Earlier(b, a) => Chain(d, b[1], b[2]) = <<>>
       /\ ReturnEntry(Head(Chain(d, a[1], a[2])), a[1], a[2])
  /\ CountIterator
  /\ UNCHANGED stored

\* dictReleaseIterator
Released == IF walk.index = -1 /\ walk.table = 0 THEN d ELSE [d EXCEPT !.iterators = @ - 1]

\* dictNext returns NULL, and the iterator is released.
NextEnds ==
  /\ walk.kind = "iterator" /\ walk.next = NoKey
  /\ \A a \in Ahead : Chain(d, a[1], a[2]) = <<>>
  /\ walk' = [walk EXCEPT !.kind = "iterated", !.entry = NoKey]
  /\ d' = Released
  /\ UNCHANGED stored

\* The caller breaks off before the end.
BreakOff ==
  /\ walk.kind = "iterator"
  /\ walk' = NoWalk
  /\ d' = Released
  /\ UNCHANGED stored

\* The walk is over and forgotten.
Forget ==
  /\ walk.kind \in {"iterated", "scanned"}
  /\ walk' = NoWalk
  /\ UNCHANGED <<d, stored>>

-----------------------------------------------------------------------------
(* dictScan                                                                *)

ScanBegins ==
  /\ walk.kind = "none"
  /\ walk' = [NoWalk EXCEPT !.kind = "scan", !.since = stored]
  /\ UNCHANGED <<d, stored>>

\* The cursor of a table of size n is incremented from its highest bit down.
RevIncrement(v, n) ==
  LET zeros == {p \in 1..n - 1 : n % p = 0 /\ (v \div p) % 2 = 0}
  IN  IF zeros = {} THEN 0 ELSE (v % Max(zeros)) + Max(zeros)

Smaller == IF d.ht[0].size > d.ht[1].size THEN 1 ELSE 0

\* The buckets of the larger table for cursor v: v itself and then its
\* expansions, incremented from the lowest bit the smaller table lacks up.
Expansions_OnlyCursor(v, small, large) == {v % large}               \* MUTANT
Expansions(v, small, large) == {i \in 0..large - 1 : i % small = v % small /\ i >= v % large}

ScanEmits ==
  IF ~ IsRehashing(d) THEN ToSet(Chain(d, 0, walk.v % d.ht[0].size))
  ELSE LET s == Smaller  small == d.ht[s].size  large == d.ht[1 - s].size IN
       ToSet(Chain(d, s, walk.v % small))
         \cup UNION {ToSet(Chain(d, 1 - s, i)) : i \in Expansions(walk.v, small, large)}

ScanSize == IF IsRehashing(d) THEN d.ht[Smaller].size ELSE d.ht[0].size

ScanNext ==
  LET v == RevIncrement(walk.v % ScanSize, ScanSize) IN
  /\ walk.kind = "scan" /\ DictSize(d) # 0
  /\ walk' = [walk EXCEPT !.kind = IF v = 0 THEN "scanned" ELSE "scan",
                          !.v = v, !.seen = @ \cup ScanEmits]
  /\ UNCHANGED <<d, stored>>

\* "if (dictSize(d) == 0) return 0;"
ScanOfNothing ==
  /\ walk.kind = "scan" /\ DictSize(d) = 0
  /\ walk' = [walk EXCEPT !.kind = "scanned"]
  /\ UNCHANGED <<d, stored>>

-----------------------------------------------------------------------------
DictNext ==
  \/ \E k \in Keys : Add(k) \/ Delete(k)
  \/ Find \/ Resize \/ Empty
  \/ \E n \in Asked : ExpandTo(n)
  \/ GetSafeIterator \/ NextInChain \/ NextInTable \/ NextEnds \/ BreakOff
  \/ ScanBegins \/ ScanNext \/ ScanOfNothing
  \/ Forget

DictSpec == DictInit /\ [][DictNext]_dictVars

-----------------------------------------------------------------------------
(* Properties                                                              *)

\* The places of table t that hold an entry
Entries(t) ==
  UNION {{<<i, p>> : p \in 1..Len(Chain(d, t, i))} : i \in 0..d.ht[t].size - 1}

\* The variables stay in their ranges, each table counts its entries, and the
\* second table is there exactly while the dict is being rehashed.
DictTypeOK ==
  /\ stored \subseteq Keys
  /\ \A t \in 0..1 :
       /\ d.ht[t].size \in {0} \cup Sizes
       /\ d.ht[t].bucket \in [0..d.ht[t].size - 1 -> Seq(Keys)]
       /\ d.ht[t].used = Cardinality(Entries(t))
  /\ d.rehashidx \in -1..d.ht[0].size /\ d.iterators \in 0..1
  /\ IsRehashing(d) <=> d.ht[1].size # 0
  /\ walk.seen \subseteq Keys /\ walk.since \subseteq stored

\* Whatever was rehashed, expanded and shrunk in between, a lookup finds exactly
\* the keys that were added and not deleted, and each is in one place only.
LookupIsStored ==
  /\ \A k \in Keys : Lookup(d, k) <=> k \in stored
  /\ DictSize(d) = Cardinality(stored)

\* dict.c:203,626-627,706-708: "up to the indexes already visited in ht[0]
\* during the rehashing, there are no populated buckets", and rehashidx stays
\* within the table while there is something to move: nothing is left behind.
RehashedEmpty ==
  IsRehashing(d) =>
    /\ \A i \in 0..d.rehashidx - 1 : Chain(d, 0, i) = <<>>
    /\ d.ht[0].used # 0 => d.rehashidx < d.ht[0].size

\* dict.h:50-53, dict.c:258-261,594-596: while other calls go on, deletions of the
\* entry returned last and of any other but the saved one among them, a safe iterator
\* returns every key that stays in the dict, none twice and none that was freed.
SafeIteration ==
  /\ ~ walk.twice /\ walk.kind # "wild"
  /\ walk.kind = "iterated" => walk.since \subseteq walk.seen

\* dict.c:767-768: "The function guarantees all elements present in the
\* dictionary get returned between the start and end of the iteration."
ScanComplete ==
  walk.kind = "scanned" => walk.since \subseteq walk.seen
=============================================================================
