-------------------------------- MODULE List --------------------------------
(***************************************************************************)
(* utils/basic_struct/list.c: doubly linked lists.  The nodes are blocks   *)
(* of the heap with their pointers; order says, for each list, which nodes *)
(* the comments of list.c promise it to hold and in which order, and       *)
(* Linked that the pointers agree.  Callers hold a lock, so a call is one  *)
(* step, except that listDup and listEmpty, which walk a list, are a step  *)
(* per node.  An iterator lives across other calls.  A malloc that fails   *)
(* leaves a list unaltered and is a step only inside listDup.              *)
(***************************************************************************)
EXTENDS Integers, SequencesExt

CONSTANTS
  Lists,
  Nodes,         \* addresses malloc may return for a listNode
  Values,        \* what a node's value points to
  JoinHeeded,    \* what to expect of the caller: it joins no empty list to another
  NoNode         \* NULL

ASSUME ListAssumption == JoinHeeded \in BOOLEAN /\ NoNode \notin Nodes /\ NoNode \notin Values /\ NoNode \notin Lists

VARIABLES
  heap,              \* nodes that are allocated
  prev, next, value, \* their fields
  head, tail, len,   \* those of each list
  call,              \* listDup or listEmpty, while it walks
  iter,              \* an iterator of a caller
  order,             \* history: the nodes of each list
  returned           \* history: what the iterator has returned and must still return

nodes    == <<heap, prev, next, value>>
ends     == <<head, tail, len>>
listVars == <<nodes, ends, call, iter, order, returned>>

NoCall == [kind |-> "none", list |-> NoNode, copy |-> NoNode, at |-> NoNode, left |-> 0]
NoIter == [list |-> NoNode, next |-> NoNode, forward |-> TRUE, current |-> NoNode]

\* since: nodes that are in the list since the iteration began; twice: was one returned twice?
NothingReturned == [seen |-> {}, since |-> {}, twice |-> FALSE]

\* listCreate
ListInit ==
  /\ heap = {}
  /\ prev = [n \in Nodes |-> NoNode] /\ next = prev /\ value = prev
  /\ head = [l \in Lists |-> NoNode] /\ tail = head
  /\ len = [l \in Lists |-> 0]
  /\ call = NoCall /\ iter = NoIter
  /\ order = [l \in Lists |-> <<>>]
  /\ returned = NothingReturned

-----------------------------------------------------------------------------
(* Helpers                                                                 *)

\* *p = x, done only if p is not NULL
Through(f, p, x) == IF p = NoNode THEN f ELSE [f EXCEPT ![p] = x]

\* malloc of a node; no other call is made while one walks.
Quiet       == call.kind = "none"
Allocate(n, v) ==
  /\ n \notin heap
  /\ heap' = heap \cup {n}
  /\ value' = [value EXCEPT ![n] = v]

\* free: what the block holds is nobody's.
Cleared(f, n) == [f EXCEPT ![n] = NoNode]

Holds(l, n)  == n \in ToSet(order[l])
Iterating(l) == iter.list = l

-----------------------------------------------------------------------------
(* Adding                                                                  *)

AddNodeToHead_NoBackLink(l, n, v) ==                                \* MUTANT
  /\ Allocate(n, v)
  /\ next' = [next EXCEPT ![n] = head[l]]
  /\ UNCHANGED prev
  /\ head' = [head EXCEPT ![l] = n]
  /\ tail' = IF len[l] = 0 THEN [tail EXCEPT ![l] = n] ELSE tail
  /\ len' = [len EXCEPT ![l] = @ + 1]
  /\ order' = [order EXCEPT ![l] = <<n>> \o @]

\* listAddNodeToHead
AddNodeToHead(l, n, v) ==
  /\ Allocate(n, v)
  /\ next' = [next EXCEPT ![n] = IF len[l] = 0 THEN NoNode ELSE head[l]]
  /\ prev' = IF len[l] = 0 THEN [prev EXCEPT ![n] = NoNode]
                           ELSE [prev EXCEPT ![n] = NoNode, ![head[l]] = n]
  /\ head' = [head EXCEPT ![l] = n]
  /\ tail' = IF len[l] = 0 THEN [tail EXCEPT ![l] = n] ELSE tail
  /\ len' = [len EXCEPT ![l] = @ + 1]
  /\ order' = [order EXCEPT ![l] = <<n>> \o @]

\* listAddNodeToTail
AddNodeToTail(l, n, v) ==
  /\ Allocate(n, v)
  /\ prev' = [prev EXCEPT ![n] = IF len[l] = 0 THEN NoNode ELSE tail[l]]
  /\ next' = IF len[l] = 0 THEN [next EXCEPT ![n] = NoNode]
                           ELSE [next EXCEPT ![n] = NoNode, ![tail[l]] = n]
  /\ tail' = [tail EXCEPT ![l] = n]
  /\ head' = IF len[l] = 0 THEN [head EXCEPT ![l] = n] ELSE head
  /\ len' = [len EXCEPT ![l] = @ + 1]
  /\ order' = [order EXCEPT ![l] = Append(@, n)]

AddHead(l, n, v) == Quiet /\ AddNodeToHead(l, n, v) /\ UNCHANGED <<call, iter, returned>>
AddTail(l, n, v) == Quiet /\ AddNodeToTail(l, n, v) /\ UNCHANGED <<call, iter, returned>>

\* listInsertNode: n goes between p and q, one of which is the node at position k.
InsertNode(l, k, n, v, after) ==
  LET old == order[l][k]
      p   == IF after THEN old ELSE prev[old]
      q   == IF after THEN next[old] ELSE old
  IN
  /\ Quiet
  /\ Allocate(n, v)
  /\ prev' = [Through(prev, q, n) EXCEPT ![n] = p]
  /\ next' = [Through(next, p, n) EXCEPT ![n] = q]
  /\ tail' = IF after /\ tail[l] = old THEN [tail EXCEPT ![l] = n] ELSE tail
  /\ head' = IF ~ after /\ head[l] = old THEN [head EXCEPT ![l] = n] ELSE head
  /\ len' = [len EXCEPT ![l] = @ + 1]
  /\ order' = [order EXCEPT ![l] = InsertAt(@, IF after THEN k + 1 ELSE k, n)]
  /\ UNCHANGED <<call, iter, returned>>

-----------------------------------------------------------------------------
(* Removing                                                                *)

\* "It's valid to remove the currently returned element using listDelNode(),
\* but not to remove other elements."
MayRemove(l, n) == Iterating(l) => n = iter.current

\* listDelNode of the node at position k, which is then freed
DelNode(l, k) ==
  LET n == order[l][k] IN
  /\ prev' = Cleared(Through(prev, next[n], prev[n]), n)
  /\ next' = Cleared(Through(next, prev[n], next[n]), n)
  /\ head' = IF prev[n] = NoNode THEN [head EXCEPT ![l] = next[n]] ELSE head
  /\ tail' = IF next[n] = NoNode THEN [tail EXCEPT ![l] = prev[n]] ELSE tail
  /\ heap' = heap \ {n}
  /\ value' = Cleared(value, n)
  /\ len' = [len EXCEPT ![l] = @ - 1]
  /\ order' = [order EXCEPT ![l] = RemoveAt(@, k)]
  /\ returned' = [returned EXCEPT !.seen = @ \ {n}, !.since = @ \ {n}]

DeleteNode(l, k) ==
  /\ Quiet /\ MayRemove(l, order[l][k])
  /\ DelNode(l, k)
  /\ UNCHANGED <<call, iter>>

\* listPopNodeFromHead and listPopNodeFromTail
PopHead(l) ==
  /\ Quiet /\ head[l] # NoNode /\ MayRemove(l, head[l])
  /\ \E k \in DOMAIN order[l] : order[l][k] = head[l] /\ DelNode(l, k)
  /\ UNCHANGED <<call, iter>>

PopTail(l) ==
  /\ Quiet /\ tail[l] # NoNode /\ MayRemove(l, tail[l])
  /\ \E k \in DOMAIN order[l] : order[l][k] = tail[l] /\ DelNode(l, k)
  /\ UNCHANGED <<call, iter>>

\* listEmpty (and listRelease, which calls it) frees len nodes from the head on ...
EmptyFrom(l) == call' = [NoCall EXCEPT !.kind = "empty", !.list = l, !.at = head[l], !.left = len[l]]

EmptyBegins(l) ==
  /\ Quiet /\ ~ Iterating(l)
  /\ EmptyFrom(l)
  /\ UNCHANGED <<nodes, ends, iter, order, returned>>

EmptyNext ==
  LET n == call.at IN
  /\ call.kind = "empty" /\ call.left # 0
  /\ call' = [call EXCEPT !.at = next[n], !.left = @ - 1]
  /\ heap' = heap \ {n}
  /\ prev' = Cleared(prev, n) /\ next' = Cleared(next, n) /\ value' = Cleared(value, n)
  /\ order' = [order EXCEPT ![call.list] = Tail(@)]
  /\ UNCHANGED <<ends, iter, returned>>

\* ... and then forgets them.
EmptyEnds ==
  LET l == call.list IN
  /\ call.kind = "empty" /\ call.left = 0
  /\ head' = [head EXCEPT ![l] = NoNode]
  /\ tail' = [tail EXCEPT ![l] = NoNode]
  /\ len' = [len EXCEPT ![l] = 0]
  /\ call' = NoCall
  /\ UNCHANGED <<nodes, iter, order, returned>>

-----------------------------------------------------------------------------
(* Moving nodes                                                            *)

\* listRotate; the caller iterates over no list it rotates.
Rotate(l) ==
  LET t == tail[l] IN
  /\ Quiet /\ len[l] > 1 /\ ~ Iterating(l)
  /\ tail' = [tail EXCEPT ![l] = prev[t]]
  /\ next' = [next EXCEPT ![prev[t]] = NoNode, ![t] = head[l]]
  /\ prev' = [prev EXCEPT ![head[l]] = t, ![t] = NoNode]
  /\ head' = [head EXCEPT ![l] = t]
  /\ order' = [order EXCEPT ![l] = <<Last(@)>> \o Front(@)]
  /\ UNCHANGED <<heap, value, len, call, iter, returned>>

\* The caller joins no list to itself and iterates over neither.
MayJoin(l, o) == l # o /\ (JoinHeeded => len[o] # 0) /\ ~ Iterating(l) /\ ~ Iterating(o)

\* listJoin.  When o is empty it sets l->tail to NULL although l may have elements,
\* against its comment: "The list 'other' remains empty but otherwise valid".
Join(l, o) ==
  /\ Quiet /\ MayJoin(l, o)
  /\ prev' = Through(prev, head[o], tail[l])
  /\ next' = Through(next, tail[l], head[o])
  /\ head' = [head EXCEPT ![l] = IF tail[l] = NoNode THEN head[o] ELSE @, ![o] = NoNode]
  /\ tail' = [tail EXCEPT ![l] = tail[o], ![o] = NoNode]
  /\ len' = [len EXCEPT ![l] = @ + len[o], ![o] = 0]
  /\ order' = [order EXCEPT ![l] = @ \o order[o], ![o] = <<>>]
  /\ UNCHANGED <<heap, value, call, iter, returned>>

-----------------------------------------------------------------------------
(* listDup                                                                 *)

\* listCreate of the copy and listRewind of the original
DupBegins(l, c) ==
  /\ Quiet /\ l # c /\ order[c] = <<>> /\ ~ Iterating(c)
  /\ call' = [NoCall EXCEPT !.kind = "dup", !.list = l, !.copy = c, !.at = head[l]]
  /\ UNCHANGED <<nodes, ends, iter, order, returned>>

DupNext(n) ==
  /\ call.kind = "dup" /\ call.at # NoNode
  /\ AddNodeToTail(call.copy, n, value[call.at])
  /\ call' = [call EXCEPT !.at = next[@]]
  /\ UNCHANGED <<iter, returned>>

\* copy->dup() or malloc fails: the copy is released and NULL returned.
DupFails ==
  /\ call.kind = "dup" /\ call.at # NoNode
  /\ EmptyFrom(call.copy)
  /\ UNCHANGED <<nodes, ends, iter, order, returned>>

DupReturns ==
  /\ call.kind = "dup" /\ call.at = NoNode
  /\ call' = NoCall
  /\ UNCHANGED <<nodes, ends, iter, order, returned>>

-----------------------------------------------------------------------------
(* Iterators                                                               *)

\* listGetIterator, listRewind and listRewindTail
GetIterator(l, forward) ==
  /\ Quiet /\ iter = NoIter
  /\ iter' = [list |-> l, next |-> IF forward THEN head[l] ELSE tail[l],
              forward |-> forward, current |-> NoNode]
  /\ returned' = [NothingReturned EXCEPT !.since = ToSet(order[l])]
  /\ UNCHANGED <<nodes, ends, call, order>>

\* listNext returns NULL, and the iteration is over.
Exhausted == iter.list # NoNode /\ iter.next = NoNode

ListNextNode_Late ==                                                \* MUTANT
  /\ Quiet /\ iter.list # NoNode /\ iter.next # NoNode
  /\ iter' = [iter EXCEPT !.current = @, !.next = IF iter.forward THEN next[@] ELSE prev[@]]
  /\ returned' = [returned EXCEPT !.seen = @ \cup {iter.current},
                                  !.twice = @ \/ iter.current \in returned.seen]
  /\ UNCHANGED <<nodes, ends, call, order>>

ListNextNode ==
  LET n == iter.next IN
  /\ Quiet /\ iter.list # NoNode /\ n # NoNode
  /\ iter' = [iter EXCEPT !.current = n, !.next = IF iter.forward THEN next[n] ELSE prev[n]]
  /\ returned' = [returned EXCEPT !.seen = @ \cup {n}, !.twice = @ \/ n \in returned.seen]
  /\ UNCHANGED <<nodes, ends, call, order>>

\* The caller is done, or breaks off: listReleaseIterator.
ReleaseIterator ==
  /\ Quiet /\ iter # NoIter
  /\ iter' = NoIter /\ returned' = NothingReturned
  /\ UNCHANGED <<nodes, ends, call, order>>

-----------------------------------------------------------------------------
(* Reading                                                                 *)

\* The node i steps from n along f, or NULL
Steps(f, n, i) ==
  LET at[j \in 0..i] == IF j = 0 THEN n ELSE IF at[j - 1] = NoNode THEN NoNode ELSE f[at[j - 1]]
  IN  at[i]

\* listIndex
ListIndex_OffByOne(l, i) ==                                         \* MUTANT
  IF i < 0 THEN Steps(prev, tail[l], -i) ELSE Steps(next, head[l], i)

ListIndex(l, i) == IF i < 0 THEN Steps(prev, tail[l], (-i) - 1) ELSE Steps(next, head[l], i)

\* listSearchKey: the first node with this value, or NULL
SearchKey(l, v) ==
  LET hits == {i \in 0..len[l] - 1 : value[Steps(next, head[l], i)] = v}
  IN  IF hits = {} THEN NoNode ELSE Steps(next, head[l], Min(hits))

-----------------------------------------------------------------------------
ListNext ==
  \/ \E l \in Lists, n \in Nodes, v \in Values : AddHead(l, n, v) \/ AddTail(l, n, v)
  \/ \E l \in Lists, n \in Nodes, v \in Values, after \in BOOLEAN :
       \E k \in DOMAIN order[l] : InsertNode(l, k, n, v, after)
  \/ \E l \in Lists : \/ \E k \in DOMAIN order[l] : DeleteNode(l, k)
                      \/ PopHead(l) \/ PopTail(l) \/ Rotate(l) \/ EmptyBegins(l)
  \/ \E l, o \in Lists : Join(l, o) \/ DupBegins(l, o)
  \/ \E n \in Nodes : DupNext(n)
  \/ EmptyNext \/ EmptyEnds \/ DupFails \/ DupReturns
  \/ \E l \in Lists, forward \in BOOLEAN : GetIterator(l, forward)
  \/ ListNextNode \/ ReleaseIterator

ListSpec == ListInit /\ [][ListNext]_listVars

-----------------------------------------------------------------------------
(* Properties                                                              *)

NodeOrNull == Nodes \cup {NoNode}
ListOrNone == Lists \cup {NoNode}

\* The variables stay in their ranges.
ListTypeOK ==
  /\ heap \subseteq Nodes
  /\ prev \in [Nodes -> NodeOrNull] /\ next \in [Nodes -> NodeOrNull]
  /\ value \in [Nodes -> Values \cup {NoNode}]
  /\ head \in [Lists -> NodeOrNull] /\ tail \in [Lists -> NodeOrNull]
  /\ len \in [Lists -> Nat]
  /\ call \in [kind : {"none", "dup", "empty"}, list : ListOrNone, copy : ListOrNone,
               at : NodeOrNull, left : Nat]
  /\ iter \in [list : ListOrNone, next : NodeOrNull, forward : BOOLEAN, current : NodeOrNull]
  /\ order \in [Lists -> Seq(Nodes)]
  /\ returned \in [seen : SUBSET Nodes, since : SUBSET Nodes, twice : BOOLEAN]

\* While listEmpty walks, the list is what it has still to free.
Emptying(l) == call.kind = "empty" /\ call.list = l
First(l)    == IF Emptying(l) THEN call.at ELSE head[l]
Left(l)     == IF Emptying(l) THEN call.left ELSE len[l]

\* list.c:52-57,81-86,121,151-154,317,333-334: whatever was added, inserted,
\* removed, rotated, joined and copied, the pointers of a list, its ends and its
\* length are those of the nodes it should hold, in their order in both
\* directions, ...
Chained(l) ==
  /\ Left(l) = Len(order[l])
  /\ order[l] = <<>> => Emptying(l) \/ (head[l] = NoNode /\ tail[l] = NoNode)
  /\ order[l] # <<>> => /\ First(l) = order[l][1]
                        /\ tail[l] = order[l][Len(order[l])]
                        /\ next[tail[l]] = NoNode
                        /\ Emptying(l) \/ prev[head[l]] = NoNode
  /\ \A k \in 1..Len(order[l]) - 1 :
       next[order[l][k]] = order[l][k + 1] /\ prev[order[l][k + 1]] = order[l][k]

\* ... an allocated node is in one list, in one place, and no other is.
NodesPlaced ==
  /\ heap = UNION {ToSet(order[l]) : l \in Lists}
  /\ \A l, o \in Lists : \A j \in DOMAIN order[l], k \in DOMAIN order[o] :
       order[l][j] = order[o][k] => l = o /\ j = k

Linked == (\A l \in Lists : Chained(l)) /\ NodesPlaced

\* list.c:170-171,203-205: while others are added and the current one is removed,
\* an iterator in either direction never stands on a freed node, returns none
\* twice and in the end has returned every node that was there all the time.
IterationComplete ==
  /\ iter.next # NoNode => Holds(iter.list, iter.next)
  /\ ~ returned.twice
  /\ Exhausted => returned.since \subseteq returned.seen

\* list.c:269-277,298-302: listIndex, from either end, and listSearchKey find
\* what stands there in the order of the list.
LookupsAgree ==
  Quiet => \A l \in Lists :
    LET n == Len(order[l]) IN
    /\ \A i \in -n - 1..n : ListIndex(l, i) = IF i \in 0..n - 1 THEN order[l][i + 1]
                                              ELSE IF i \in -n..-1 THEN order[l][n + i + 1]
                                              ELSE NoNode
    /\ \A v \in Values :
         LET k == SelectInSeq(order[l], LAMBDA x : value[x] = v)
         IN  SearchKey(l, v) = IF k = 0 THEN NoNode ELSE order[l][k]

=============================================================================
