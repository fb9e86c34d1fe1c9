---------------------------- MODULE RouteTable -----------------------------
(***************************************************************************)
(* utils/function_route.c: the dict of routes.  regist_service fills it    *)
(* before there are workers and nobody adds a route later, but every       *)
(* worker looks its route up with dictFetchValue and no lock, and while    *)
(* the dict is being rehashed a lookup makes a step of dictRehash.  Dict   *)
(* has a call as one step; here a step is an access to what the workers    *)
(* share.  Where a worker would follow a wild pointer, it stops.           *)
(***************************************************************************)
EXTENDS Integers, SequencesExt

CONSTANTS
  Workers,
  Routes,
  Hash,           \* dictHashKey
  Chains,         \* the buckets of ht[0] and ht[1] when the workers start
  StartIdx,       \* rehashidx then
  NoRoute         \* NULL

VARIABLES
  bucket,         \* d->ht[t].table, a function of the indices; empty when it is NULL
  used,           \* d->ht[t].used
  nextEntry,      \* entry->next; an entry is its key
  rehashidx,
  pc,             \* per worker: the access it makes next
  key,            \* the route it looks up
  entry,          \* de in dictRehash and he in dictFind
  nextde,
  table           \* the table dictFind is in

dict      == <<bucket, used, nextEntry, rehashidx>>
locals    == <<key, entry, nextde, table>>
routeVars == <<dict, pc, locals>>

Init ==
  /\ bucket = [t \in 0..1 |-> [i \in DOMAIN Chains[t] |->
                 IF Chains[t][i] = <<>> THEN NoRoute ELSE Chains[t][i][1]]]
  /\ used = [t \in 0..1 |-> FoldFunction(LAMBDA c, n : Len(c) + n, 0, Chains[t])]
  /\ nextEntry = [k \in Routes |->
       LET c == CHOOSE c \in UNION {{Chains[t][i] : i \in DOMAIN Chains[t]} : t \in 0..1} : k \in ToSet(c)
           p == SelectInSeq(c, LAMBDA x : x = k)
       IN  IF p < Len(c) THEN c[p + 1] ELSE NoRoute]
  /\ rehashidx = StartIdx
  /\ pc = [w \in Workers |-> "idle"]
  /\ key = [w \in Workers |-> NoRoute] /\ entry = key /\ nextde = key
  /\ table = [w \in Workers |-> 0]

Size(t)    == Cardinality(DOMAIN bucket[t])
Slot(t, k) == Hash[k] % Size(t)
Goto(w, l) == pc' = [pc EXCEPT ![w] = l]

-----------------------------------------------------------------------------
(* dictFind, up to the rehashing step                                      *)

\* get_function_route, dictFetchValue
Find(w, k) ==
  /\ pc[w] = "idle"
  /\ key' = [key EXCEPT ![w] = k]
  /\ Goto(w, IF rehashidx # -1 THEN "while" ELSE "first")
  /\ UNCHANGED <<dict, entry, nextde, table>>

-----------------------------------------------------------------------------
(* dictRehash(d, 1).  The old table has fewer than ten buckets, so that    *)
(* empty_visits never becomes 0.                                           *)

\* while(n-- && d->ht[0].used != 0)
WhileUsed(w) ==
  /\ pc[w] = "while"
  /\ Goto(w, IF used[0] # 0 THEN "assert" ELSE "whole")
  /\ UNCHANGED <<dict, locals>>

\* assert(d->ht[0].size > (unsigned long)d->rehashidx)
AssertIdx(w) ==
  /\ pc[w] = "assert" /\ Size(0) > rehashidx
  /\ Goto(w, "skip")
  /\ UNCHANGED <<dict, locals>>

SkipEmpty(w) ==
  /\ pc[w] = "skip" /\ rehashidx \in DOMAIN bucket[0] /\ bucket[0][rehashidx] = NoRoute
  /\ rehashidx' = rehashidx + 1
  /\ UNCHANGED <<bucket, used, nextEntry, pc, locals>>

NotEmpty(w) ==
  /\ pc[w] = "skip" /\ rehashidx \in DOMAIN bucket[0] /\ bucket[0][rehashidx] # NoRoute
  /\ Goto(w, "take")
  /\ UNCHANGED <<dict, locals>>

\* de = d->ht[0].table[d->rehashidx]
Take(w) ==
  /\ pc[w] = "take" /\ rehashidx \in DOMAIN bucket[0]
  /\ entry' = [entry EXCEPT ![w] = bucket[0][rehashidx]]
  /\ Goto(w, "move")
  /\ UNCHANGED <<dict, key, nextde, table>>

\* An entry's next pointer is saved and set to the head of its new chain, ...
MoveLink(w) ==
  LET de == entry[w] IN
  /\ pc[w] = "move" /\ de # NoRoute /\ Size(1) # 0
  /\ nextde' = [nextde EXCEPT ![w] = nextEntry[de]]
  /\ nextEntry' = [nextEntry EXCEPT ![de] = bucket[1][Slot(1, de)]]
  /\ Goto(w, "put")
  /\ UNCHANGED <<bucket, used, rehashidx, key, entry, table>>

\* ... it becomes the head ...
MovePut(w) ==
  LET de == entry[w] IN
  /\ pc[w] = "put" /\ Size(1) # 0
  /\ bucket' = [bucket EXCEPT ![1][Slot(1, de)] = de]
  /\ Goto(w, "count")
  /\ UNCHANGED <<used, nextEntry, rehashidx, locals>>

\* ... and is counted in the other table.
MoveCount(w) ==
  /\ pc[w] = "count"
  /\ used' = [used EXCEPT ![0] = @ - 1, ![1] = @ + 1]
  /\ entry' = [entry EXCEPT ![w] = nextde[w]]
  /\ Goto(w, "move")
  /\ UNCHANGED <<bucket, nextEntry, rehashidx, key, nextde, table>>

\* d->ht[0].table[d->rehashidx] = NULL
Clear(w) ==
  /\ pc[w] = "move" /\ entry[w] = NoRoute /\ rehashidx \in DOMAIN bucket[0]
  /\ bucket' = [bucket EXCEPT ![0][rehashidx] = NoRoute]
  /\ Goto(w, "advance")
  /\ UNCHANGED <<used, nextEntry, rehashidx, locals>>

Advance(w) ==
  /\ pc[w] = "advance"
  /\ rehashidx' = rehashidx + 1
  /\ Goto(w, "whole")
  /\ UNCHANGED <<bucket, used, nextEntry, locals>>

\* "Check if we already rehashed the whole table..."
NotWhole(w) ==
  /\ pc[w] = "whole" /\ used[0] # 0
  /\ Goto(w, "first")
  /\ UNCHANGED <<dict, locals>>

Whole(w) ==
  /\ pc[w] = "whole" /\ used[0] = 0
  /\ bucket' = [t \in 0..1 |-> IF t = 0 THEN bucket[1] ELSE <<>>]
  /\ used' = [t \in 0..1 |-> IF t = 0 THEN used[1] ELSE 0]
  /\ rehashidx' = -1
  /\ Goto(w, "first")
  /\ UNCHANGED <<nextEntry, locals>>

-----------------------------------------------------------------------------
(* dictFind: the search                                                    *)

\* he = d->ht[table].table[idx]
FirstEntry(w) ==
  /\ pc[w] = "first" /\ Size(table[w]) # 0
  /\ entry' = [entry EXCEPT ![w] = bucket[table[w]][Slot(table[w], key[w])]]
  /\ Goto(w, "compare")
  /\ UNCHANGED <<dict, key, nextde, table>>

NextEntry(w) ==
  /\ pc[w] = "compare" /\ entry[w] \notin {NoRoute, key[w]}
  /\ entry' = [entry EXCEPT ![w] = nextEntry[@]]
  /\ UNCHANGED <<dict, pc, key, nextde, table>>

\* The route is found, or it is in neither table and NULL is returned.
Returns(w) ==
  /\ pc[w] = "compare"
  /\ entry[w] = key[w] \/ (entry[w] = NoRoute /\ (rehashidx = -1 \/ table[w] = 1))
  /\ Goto(w, "idle")
  /\ key' = [key EXCEPT ![w] = NoRoute] /\ entry' = [entry EXCEPT ![w] = NoRoute]
  /\ nextde' = [nextde EXCEPT ![w] = NoRoute] /\ table' = [table EXCEPT ![w] = 0]
  /\ UNCHANGED dict

SecondTable(w) ==
  /\ pc[w] = "compare" /\ entry[w] = NoRoute /\ rehashidx # -1 /\ table[w] = 0
  /\ table' = [table EXCEPT ![w] = 1]
  /\ Goto(w, "first")
  /\ UNCHANGED <<dict, key, entry, nextde>>

-----------------------------------------------------------------------------
Next ==
  \E w \in Workers :
    \/ \E k \in Routes : Find(w, k)
    \/ WhileUsed(w) \/ AssertIdx(w) \/ SkipEmpty(w) \/ NotEmpty(w) \/ Take(w)
    \/ MoveLink(w) \/ MovePut(w) \/ MoveCount(w) \/ Clear(w) \/ Advance(w)
    \/ NotWhole(w) \/ Whole(w)
    \/ FirstEntry(w) \/ NextEntry(w) \/ Returns(w) \/ SecondTable(w)

Spec == Init /\ [][Next]_routeVars

-----------------------------------------------------------------------------
(* Properties                                                              *)

\* dict.c:201-203: "Note that rehashidx can't overflow as we are sure there are
\* more elements because ht[0].used != 0".  With two workers it can: one passes over
\* the bucket that the other has cleared, both count it, and a bucket that is not
\* empty stays behind rehashidx.
RehashidxInTable == \A w \in Workers : pc[w] = "assert" => Size(0) > rehashidx
=============================================================================
