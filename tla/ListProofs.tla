----------------------------- MODULE ListProofs -----------------------------
(***************************************************************************)
(* Theorems about List, for any number of lists, nodes and values: the     *)
(* links are those of the order in which the nodes should be, an iterator  *)
(* returns each of them once, and lookups agree with the order, for        *)
(* callers that join no empty list (JoinHeeded).                           *)
(***************************************************************************)
EXTENDS List, Extremes, SequenceTheorems, TLAPS

-----------------------------------------------------------------------------
(* Chains: what Chained says of a list that is not being emptied, about its *)
(* nodes s, its ends h and t, its length m and the fields p and q of nodes. *)

Links(s, p, q) == \A k \in 1..Len(s) - 1 : q[s[k]] = s[k + 1] /\ p[s[k + 1]] = s[k]

Chain(s, h, t, m, p, q) ==
  /\ m = Len(s)
  /\ s = <<>> => h = NoNode /\ t = NoNode
  /\ s # <<>> => h = s[1] /\ t = s[Len(s)] /\ q[s[Len(s)]] = NoNode /\ p[s[1]] = NoNode
  /\ Links(s, p, q)

Distinct(s) == \A j, k \in 1..Len(s) : s[j] = s[k] => j = k

\* u is s with n put in at position i.
Inserted(s, i, n, u) ==
  /\ u \in Seq(Nodes) /\ Len(u) = Len(s) + 1
  /\ \A a \in 1..Len(u) : u[a] = IF a < i THEN s[a] ELSE IF a = i THEN n ELSE s[a - 1]

\* u is s without what stood at position i.
Removed(s, i, u) ==
  /\ u \in Seq(Nodes) /\ Len(u) = Len(s) - 1
  /\ \A a \in 1..Len(u) : u[a] = IF a < i THEN s[a] ELSE s[a + 1]

\* What stands in a list.
LEMMA InList ==
  ASSUME NEW s \in Seq(Nodes)
  PROVE  /\ Len(s) \in Nat /\ DOMAIN s = 1..Len(s)
         /\ \A k \in 1..Len(s) : s[k] \in Nodes /\ s[k] # NoNode
         /\ ToSet(s) = {s[k] : k \in 1..Len(s)}
         /\ s # <<>> <=> Len(s) # 0
<1>1. Len(s) \in Nat /\ DOMAIN s = 1..Len(s)
  BY LenProperties
<1>2. \A k \in 1..Len(s) : s[k] \in Nodes
  BY ElementOfSeq
<1>3. s # <<>> <=> Len(s) # 0
  BY EmptySeq
<1> QED BY <1>1, <1>2, <1>3, ListAssumption DEF ToSet

LEMMA InsertedAt ==
  ASSUME NEW s \in Seq(Nodes), NEW n \in Nodes, NEW i \in 1..Len(s) + 1, NEW u, Inserted(s, i, n, u)
  PROVE  /\ u[i] = n
         /\ \A k \in 1..Len(s) : (k < i => u[k] = s[k]) /\ (k >= i => u[k + 1] = s[k])
<1>1. Len(s) \in Nat /\ u \in Seq(Nodes) /\ Len(u) = Len(s) + 1
  BY InList DEF Inserted
<1>2. ASSUME NEW k \in 1..Len(s)
      PROVE  (k < i => u[k] = s[k]) /\ (k >= i => u[k + 1] = s[k])
  <2>1. CASE k < i
    BY <1>1, <2>1 DEF Inserted
  <2>2. CASE k >= i
    <3>1. k + 1 \in 1..Len(u) /\ ~ (k + 1 < i) /\ k + 1 # i /\ (k + 1) - 1 = k
      BY <1>1, <2>2
    <3>2. u[k + 1] = s[(k + 1) - 1]
      BY <3>1 DEF Inserted
    <3> QED BY <2>2, <3>1, <3>2
  <2> QED BY <2>1, <2>2, <1>1
<1>3. u[i] = n
  <2>1. i \in 1..Len(u)
    BY <1>1
  <2> QED BY <2>1, <1>1 DEF Inserted
<1> QED BY <1>2, <1>3

LEMMA InsertedIs ==
  ASSUME NEW s \in Seq(Nodes), NEW n \in Nodes, NEW i \in 1..Len(s) + 1, NEW u, Inserted(s, i, n, u)
  PROVE  ToSet(u) = ToSet(s) \cup {n}
<1>1. Len(s) \in Nat /\ u \in Seq(Nodes) /\ Len(u) = Len(s) + 1
  BY InList DEF Inserted
<1>2. \A k \in 1..Len(s) : (k < i => u[k] = s[k]) /\ (k >= i => u[k + 1] = s[k])
  BY InsertedAt
<1>3. \A k \in 1..Len(s) : \E a \in 1..Len(u) : u[a] = s[k]
  <2> TAKE k \in 1..Len(s)
  <2>1. k \in 1..Len(u) /\ k + 1 \in 1..Len(u) /\ (k < i \/ k >= i)
    BY <1>1
  <2>2. CASE k < i
    <3>1. u[k] = s[k]
      BY <1>2, <2>2
    <3> QED BY <2>1, <3>1
  <2>3. CASE k >= i
    <3>1. u[k + 1] = s[k]
      BY <1>2, <2>3
    <3> QED BY <2>1, <3>1
  <2> QED BY <2>1, <2>2, <2>3
<1>4. i \in 1..Len(u) /\ u[i] = n
  BY <1>1 DEF Inserted
<1>5. ToSet(u) = {u[k] : k \in 1..Len(u)} /\ ToSet(s) = {s[k] : k \in 1..Len(s)}
  BY <1>1, InList
<1>6. ASSUME NEW a \in 1..Len(u) PROVE u[a] \in ToSet(s) \cup {n}
  <2>1. (a < i => a \in 1..Len(s)) /\ (a > i => a - 1 \in 1..Len(s))
    BY <1>1
  <2> QED BY <1>5, <2>1, <1>1 DEF Inserted
<1>7. ToSet(u) = ToSet(s) \cup {n}
  BY <1>3, <1>4, <1>5, <1>6
<1> QED BY <1>7

LEMMA InsertedDistinct ==
  ASSUME NEW s \in Seq(Nodes), Distinct(s), NEW n \in Nodes \ ToSet(s), NEW i \in 1..Len(s) + 1,
         NEW u, Inserted(s, i, n, u)
  PROVE  Distinct(u)
<1>1. Len(s) \in Nat /\ Len(u) = Len(s) + 1 /\ \A k \in 1..Len(s) : s[k] # n
  BY InList DEF Inserted
<1>2. \A a \in 1..Len(u) : (a < i => a \in 1..Len(s)) /\ (a > i => a - 1 \in 1..Len(s))
  BY <1>1
<1>3. \A a \in 1..Len(u) : u[a] = IF a < i THEN s[a] ELSE IF a = i THEN n ELSE s[a - 1]
  BY DEF Inserted
<1>4. ASSUME NEW a \in 1..Len(u), NEW b \in 1..Len(u), a < b
      PROVE  u[a] # u[b]
  <2>1. CASE a = i
    <3>1. u[a] = n /\ u[b] = s[b - 1] /\ b - 1 \in 1..Len(s)
      BY <2>1, <1>4, <1>2, <1>3
    <3> QED BY <3>1, <1>1
  <2>2. CASE b = i
    <3>1. u[b] = n /\ u[a] = s[a] /\ a \in 1..Len(s)
      BY <2>2, <1>4, <1>2, <1>3
    <3> QED BY <3>1, <1>1
  <2>3. CASE a # i /\ b # i
    <3> DEFINE c == IF a < i THEN a ELSE a - 1
               d == IF b < i THEN b ELSE b - 1
    <3>1. u[a] = s[c] /\ u[b] = s[d]
      BY <2>3, <1>3
    <3>2. c \in 1..Len(s) /\ d \in 1..Len(s) /\ c # d
      BY <2>3, <1>4, <1>1, <1>2
    <3> HIDE DEF c, d
    <3> QED BY <3>1, <3>2 DEF Distinct
  <2> QED BY <2>1, <2>2, <2>3
<1>5. \A a, b \in 1..Len(u) : a < b \/ b < a \/ a = b
  BY <1>1
<1> QED BY <1>4, <1>5 DEF Distinct

\* Inserting links the new node with the ones before and behind it.
LEMMA InsertedChain ==
  ASSUME NEW s \in Seq(Nodes), Distinct(s), NEW n \in Nodes \ ToSet(s), NEW i \in 1..Len(s) + 1,
         NEW u, Inserted(s, i, n, u),
         NEW h, NEW t, NEW m, NEW p, NEW q, Chain(s, h, t, m, p, q), NEW p2, NEW q2,
         p2[n] = IF i = 1 THEN NoNode ELSE s[i - 1],
         q2[n] = IF i = Len(s) + 1 THEN NoNode ELSE s[i],
         \A k \in 1..Len(s) : /\ p2[s[k]] = IF k = i THEN n ELSE p[s[k]]
                              /\ q2[s[k]] = IF k = i - 1 THEN n ELSE q[s[k]],
         NEW h2, h2 = IF i = 1 THEN n ELSE h, NEW t2, t2 = IF i = Len(s) + 1 THEN n ELSE t,
         NEW m2, m2 = m + 1
  PROVE  Chain(u, h2, t2, m2, p2, q2)
<1>1. Len(s) \in Nat /\ Len(u) = Len(s) + 1 /\ u # <<>>
  BY InList DEF Inserted
<1>2. \A a \in 1..Len(u) : u[a] = IF a < i THEN s[a] ELSE IF a = i THEN n ELSE s[a - 1]
  BY DEF Inserted
<1>3. /\ m = Len(s)
      /\ Len(s) # 0 => h = s[1] /\ t = s[Len(s)] /\ q[s[Len(s)]] = NoNode /\ p[s[1]] = NoNode
      /\ \A k \in 1..Len(s) - 1 : q[s[k]] = s[k + 1] /\ p[s[k + 1]] = s[k]
  BY InList DEF Chain, Links
<1>4. u[1] = IF i = 1 THEN n ELSE h
  <2>1. CASE i = 1
    BY <2>1, <1>1, <1>2
  <2>2. CASE i # 1
    BY <2>2, <1>1, <1>2, <1>3
  <2> QED BY <2>1, <2>2
<1>5. u[Len(u)] = IF i = Len(s) + 1 THEN n ELSE t
  <2>1. CASE i = Len(s) + 1
    BY <2>1, <1>1, <1>2
  <2>2. CASE i # Len(s) + 1
    <3>1. u[Len(s) + 1] = s[(Len(s) + 1) - 1] /\ (Len(s) + 1) - 1 = Len(s) /\ Len(s) # 0
      BY <2>2, <1>1, <1>2
    <3> QED BY <2>2, <3>1, <1>1, <1>3
  <2> QED BY <2>1, <2>2
<1>6. p2[u[1]] = NoNode
  <2>1. CASE i = 1
    BY <2>1, <1>1, <1>2
  <2>2. CASE i # 1
    <3>1. u[1] = s[1] /\ 1 \in 1..Len(s) /\ p[s[1]] = NoNode /\ 1 # i
      BY <2>2, <1>1, <1>2, <1>3
    <3> QED BY <3>1
  <2> QED BY <2>1, <2>2
<1>7. q2[u[Len(u)]] = NoNode
  <2>1. CASE i = Len(s) + 1
    BY <2>1, <1>1, <1>2
  <2>2. CASE i # Len(s) + 1
    <3>1. u[Len(u)] = s[Len(s)] /\ Len(s) \in 1..Len(s) /\ q[s[Len(s)]] = NoNode /\ Len(s) # i - 1
      BY <2>2, <1>1, <1>3, <1>5
    <3> QED BY <3>1
  <2> QED BY <2>1, <2>2
<1>8. ASSUME NEW a \in 1..Len(u) - 1
      PROVE  q2[u[a]] = u[a + 1] /\ p2[u[a + 1]] = u[a]
  <2>0. a \in 1..Len(s) /\ a \in 1..Len(u) /\ a + 1 \in 1..Len(u) /\ (a + 1) - 1 = a
    BY <1>1
  <2>1. CASE a + 1 < i
    <3>1. u[a] = s[a] /\ u[a + 1] = s[a + 1] /\ a \in 1..Len(s) - 1 /\ a + 1 \in 1..Len(s)
          /\ a # i - 1 /\ a + 1 # i
      BY <2>0, <2>1, <1>1, <1>2
    <3> QED BY <3>1, <2>0, <1>3
  <2>2. CASE a + 1 = i
    <3>1. u[a] = s[a] /\ u[a + 1] = n /\ a = i - 1 /\ i # 1
      BY <2>0, <2>2, <1>1, <1>2
    <3> QED BY <3>1, <2>0
  <2>3. CASE a = i
    <3>1. u[a] = n /\ u[a + 1] = s[a] /\ i # Len(s) + 1
      BY <2>0, <2>3, <1>1, <1>2
    <3>2. q2[n] = s[a]
      BY <3>1, <2>3
    <3>3. p2[s[a]] = n
      BY <2>0, <2>3
    <3> QED BY <3>1, <3>2, <3>3
  <2>4. CASE a > i
    <3>0. /\ a - 1 \in 1..Len(s) - 1 /\ a - 1 \in 1..Len(s)
          /\ a - 1 # i - 1 /\ a # i /\ (a - 1) + 1 = a /\ ~ (a < i) /\ ~ (a + 1 < i) /\ a + 1 # i
      BY <2>0, <2>4, <1>1
    <3>1. u[a] = s[a - 1] /\ u[a + 1] = s[a]
      BY <2>0, <3>0, <1>2
    <3> QED BY <3>0, <3>1, <2>0, <1>3
  <2> QED BY <2>1, <2>2, <2>3, <2>4, <2>0
<1> QED BY <1>1, <1>3, <1>4, <1>5, <1>6, <1>7, <1>8 DEF Chain, Links

LEMMA RemovedIs ==
  ASSUME NEW s \in Seq(Nodes), Distinct(s), NEW i \in 1..Len(s), NEW u, Removed(s, i, u)
  PROVE  ToSet(u) = ToSet(s) \ {s[i]} /\ Distinct(u)
<1>1. Len(s) \in Nat /\ u \in Seq(Nodes) /\ Len(u) = Len(s) - 1
  BY InList DEF Removed
<1>2. \A a \in 1..Len(u) : u[a] = IF a < i THEN s[a] ELSE s[a + 1]
  BY DEF Removed
<1>3. \A a \in 1..Len(u) : a \in 1..Len(s) /\ a + 1 \in 1..Len(s)
  BY <1>1
<1>4. \A k \in 1..Len(s) : k # i => \E a \in 1..Len(u) : u[a] = s[k]
  <2> SUFFICES ASSUME NEW k \in 1..Len(s), k # i PROVE \E a \in 1..Len(u) : u[a] = s[k]
    OBVIOUS
  <2>1. CASE k < i
    BY <2>1, <1>1, <1>2
  <2>2. CASE k > i
    <3>1. k - 1 \in 1..Len(u) /\ ~ (k - 1 < i) /\ (k - 1) + 1 = k
      BY <2>2, <1>1
    <3>2. u[k - 1] = s[(k - 1) + 1]
      BY <3>1, <1>2
    <3> QED BY <3>1, <3>2
  <2> QED BY <2>1, <2>2
<1>5. ToSet(u) = {u[k] : k \in 1..Len(u)} /\ ToSet(s) = {s[k] : k \in 1..Len(s)}
  BY <1>1, InList
<1>6. ASSUME NEW a \in 1..Len(u) PROVE u[a] \in ToSet(s) /\ u[a] # s[i]
  <2>1. CASE a < i
    <3>1. u[a] = s[a] /\ a \in 1..Len(s) /\ a # i
      BY <2>1, <1>2, <1>3
    <3> QED BY <3>1, <1>5 DEF Distinct
  <2>2. CASE ~ (a < i)
    <3>1. u[a] = s[a + 1] /\ a + 1 \in 1..Len(s) /\ a + 1 # i
      BY <2>2, <1>1, <1>2, <1>3
    <3> QED BY <3>1, <1>5 DEF Distinct
  <2> QED BY <2>1, <2>2
<1>7. ToSet(u) = ToSet(s) \ {s[i]}
  <2>1. ASSUME NEW x \in ToSet(s) \ {s[i]} PROVE x \in ToSet(u)
    <3>1. PICK k \in 1..Len(s) : x = s[k] /\ k # i
      BY <1>5
    <3>2. PICK a \in 1..Len(u) : u[a] = s[k]
      BY <3>1, <1>4
    <3> QED BY <3>1, <3>2, <1>5
  <2>2. ASSUME NEW x \in ToSet(u) PROVE x \in ToSet(s) \ {s[i]}
    BY <1>5, <1>6
  <2> QED BY <2>1, <2>2
<1>8. ASSUME NEW a \in 1..Len(u), NEW b \in 1..Len(u), u[a] = u[b]
      PROVE  a = b
  <2> DEFINE c == IF a < i THEN a ELSE a + 1
             d == IF b < i THEN b ELSE b + 1
  <2>1. u[a] = s[c] /\ u[b] = s[d]
    BY <1>2
  <2>2. c \in 1..Len(s) /\ d \in 1..Len(s) /\ (c = d => a = b)
    BY <1>1, <1>3
  <2> HIDE DEF c, d
  <2> QED BY <1>8, <2>1, <2>2 DEF Distinct
<1> QED BY <1>7, <1>8 DEF Distinct

\* Removing links the nodes before and behind with each other: p2 and q2 are what
\* it makes of the fields p and q of the nodes that stay.
Bypassed(s, i, p, q, p2, q2) ==
  \A k \in 1..Len(s) : k # i => /\ p2[s[k]] = IF k = i + 1 THEN p[s[i]] ELSE p[s[k]]
                                /\ q2[s[k]] = IF k = i - 1 THEN q[s[i]] ELSE q[s[k]]

LEMMA RemovedChain ==
  ASSUME NEW s \in Seq(Nodes), Distinct(s), NEW i, i \in 1..Len(s), NEW u, Removed(s, i, u),
         NEW h, NEW t, NEW m, NEW p, NEW q, Chain(s, h, t, m, p, q), NEW p2, NEW q2,
         Bypassed(s, i, p, q, p2, q2),
         NEW h2, h2 = IF p[s[i]] = NoNode THEN q[s[i]] ELSE h,
         NEW t2, t2 = IF q[s[i]] = NoNode THEN p[s[i]] ELSE t, NEW m2, m2 = m - 1
  PROVE  Chain(u, h2, t2, m2, p2, q2)
<1>0. \A k \in 1..Len(s) : k # i => /\ p2[s[k]] = IF k = i + 1 THEN p[s[i]] ELSE p[s[k]]
                                    /\ q2[s[k]] = IF k = i - 1 THEN q[s[i]] ELSE q[s[k]]
  BY DEF Bypassed
<1> USE <1>0
<1>1. Len(s) \in Nat \ {0} /\ Len(u) = Len(s) - 1 /\ u \in Seq(Nodes)
      /\ \A k \in 1..Len(s) : s[k] # NoNode
  BY InList DEF Removed
<1>2. \A a \in 1..Len(u) : u[a] = IF a < i THEN s[a] ELSE s[a + 1]
  BY DEF Removed
<1>3. /\ m = Len(s)
      /\ h = s[1] /\ t = s[Len(s)] /\ q[s[Len(s)]] = NoNode /\ p[s[1]] = NoNode
      /\ \A k \in 1..Len(s) - 1 : q[s[k]] = s[k + 1] /\ p[s[k + 1]] = s[k]
  BY <1>1, InList DEF Chain, Links
<1>a. p[s[i]] = IF i = 1 THEN NoNode ELSE s[i - 1]
  <2>1. CASE i # 1
    <3>1. i - 1 \in 1..Len(s) - 1 /\ (i - 1) + 1 = i
      BY <2>1, <1>1
    <3>2. p[s[(i - 1) + 1]] = s[i - 1]
      BY <3>1, <1>3
    <3> QED BY <2>1, <3>1, <3>2
  <2> QED BY <2>1, <1>3
<1>b. q[s[i]] = IF i = Len(s) THEN NoNode ELSE s[i + 1]
  BY <1>1, <1>3
<1>c. (p[s[i]] = NoNode <=> i = 1) /\ (q[s[i]] = NoNode <=> i = Len(s))
  BY <1>1, <1>a, <1>b
<1>4. CASE Len(s) = 1
  <2>1. i = 1 /\ u = <<>> /\ Len(u) = 0
    BY <1>1, <1>4, InList
  <2> QED BY <2>1, <1>3, <1>4, <1>a, <1>b, <1>1 DEF Chain, Links
<1>5. CASE Len(s) # 1
  <2>0. Len(u) \in Nat \ {0} /\ u # <<>>
    BY <1>1, <1>5, InList
  <2>1. u[1] = IF i = 1 THEN s[2] ELSE s[1]
    BY <1>1, <1>2, <1>5
  <2>2. u[Len(u)] = IF i = Len(s) THEN s[Len(s) - 1] ELSE s[Len(s)]
    <3>1. Len(u) \in 1..Len(u) /\ Len(u) + 1 = Len(s) /\ (Len(u) < i <=> i = Len(s)) /\ Len(u) = Len(s) - 1
      BY <1>1, <1>5
    <3>2. u[Len(u)] = IF Len(u) < i THEN s[Len(u)] ELSE s[Len(u) + 1]
      BY <3>1, <1>2
    <3> QED BY <3>1, <3>2
  <2>3. p2[u[1]] = NoNode
    <3>1. CASE i = 1
      BY <3>1, <2>1, <1>1, <1>5, <1>a
    <3>2. CASE i # 1
      BY <3>2, <2>1, <1>1, <1>3
    <3> QED BY <3>1, <3>2
  <2>4. q2[u[Len(u)]] = NoNode
    <3>1. CASE i = Len(s)
      <4>1. Len(s) - 1 \in 1..Len(s) /\ Len(s) - 1 # i /\ Len(s) - 1 = i - 1
        BY <3>1, <1>1, <1>5
      <4> QED BY <3>1, <4>1, <2>2, <1>b
    <3>2. CASE i # Len(s)
      <4>1. Len(s) \in 1..Len(s) /\ Len(s) # i - 1
        BY <1>1
      <4> QED BY <3>2, <4>1, <2>2, <1>3
    <3> QED BY <3>1, <3>2
  <2>5. ASSUME NEW a \in 1..Len(u) - 1
        PROVE  q2[u[a]] = u[a + 1] /\ p2[u[a + 1]] = u[a]
    <3>0. a \in 1..Len(u) /\ a + 1 \in 1..Len(u) /\ a \in 1..Len(s) - 1 /\ a \in 1..Len(s)
          /\ a + 1 \in 1..Len(s) - 1 /\ a + 1 \in 1..Len(s) /\ (a + 1) + 1 \in 1..Len(s)
          /\ u[a] = (IF a < i THEN s[a] ELSE s[a + 1])
          /\ u[a + 1] = IF a + 1 < i THEN s[a + 1] ELSE s[(a + 1) + 1]
      BY <1>1, <1>2
    <3>1. CASE a + 1 < i
      <4>1. a # i /\ a + 1 # i /\ a # i - 1 /\ a + 1 # i + 1 /\ a < i
        BY <3>1, <1>1
      <4> QED BY <3>1, <4>1, <3>0, <1>3
    <3>2. CASE a + 1 = i
      <4>1. a = i - 1 /\ (a + 1) + 1 = i + 1 /\ a < i /\ ~ (a + 1 < i) /\ i # 1 /\ i # Len(s)
            /\ a # i /\ (a + 1) + 1 # i
        BY <3>2, <3>0, <1>1
      <4> QED BY <4>1, <3>0, <1>a, <1>b
    <3>3. CASE a >= i
      <4>1. ~ (a < i) /\ ~ (a + 1 < i) /\ a + 1 # i /\ (a + 1) + 1 # i /\ a + 1 # i - 1 /\ (a + 1) + 1 # i + 1
        BY <3>3, <1>1
      <4>2. q[s[a + 1]] = s[(a + 1) + 1] /\ p[s[(a + 1) + 1]] = s[a + 1]
        BY <3>0, <1>3
      <4> QED BY <4>1, <4>2, <3>0
    <3> QED BY <3>1, <3>2, <3>3, <1>1
  <2>6. (IF p[s[i]] = NoNode THEN q[s[i]] ELSE h) = u[1] /\ (IF q[s[i]] = NoNode THEN p[s[i]] ELSE t) = u[Len(u)]
    BY <1>1, <1>3, <1>5, <1>a, <1>b, <1>c, <2>1, <2>2
  <2> QED BY <2>0, <2>3, <2>4, <2>5, <2>6, <1>1, <1>3 DEF Chain, Links
<1> QED BY <1>4, <1>5

\* Where no field of its nodes changes, a chain stays one.
LEMMA FramedChain ==
  ASSUME NEW s \in Seq(Nodes), NEW h, NEW t, NEW m, NEW p, NEW q, Chain(s, h, t, m, p, q),
         NEW p2, NEW q2, \A k \in 1..Len(s) : p2[s[k]] = p[s[k]] /\ q2[s[k]] = q[s[k]]
  PROVE  Chain(s, h, t, m, p2, q2)
<1>1. Len(s) \in Nat /\ (s # <<>> <=> Len(s) # 0)
  BY InList
<1>2. \A k \in 1..Len(s) - 1 : k \in 1..Len(s) /\ k + 1 \in 1..Len(s)
  BY <1>1
<1>3. Links(s, p2, q2)
  BY <1>2 DEF Chain, Links
<1>4. s # <<>> => 1 \in 1..Len(s) /\ Len(s) \in 1..Len(s)
  BY <1>1
<1> QED BY <1>3, <1>4 DEF Chain

\* Rotating makes the last node the first: u is what it makes of s, and p2
\* and q2 of the fields p and q.
Rotated(s, u) ==
  /\ u \in Seq(Nodes) /\ Len(u) = Len(s) /\ u[1] = s[Len(s)]
  /\ \A a \in 2..Len(s) : u[a] = s[a - 1]

Turned(s, p, q, p2, q2) ==
  \A k \in 1..Len(s) :
    /\ p2[s[k]] = IF k = Len(s) THEN NoNode ELSE IF k = 1 THEN s[Len(s)] ELSE p[s[k]]
    /\ q2[s[k]] = IF k = Len(s) THEN s[1] ELSE IF k = Len(s) - 1 THEN NoNode ELSE q[s[k]]

LEMMA RotatedChain ==
  ASSUME NEW s \in Seq(Nodes), Distinct(s), Len(s) > 1, NEW u, Rotated(s, u),
         NEW h, NEW t, NEW m, NEW p, NEW q, Chain(s, h, t, m, p, q), NEW p2, NEW q2,
         Turned(s, p, q, p2, q2), NEW h2, h2 = s[Len(s)], NEW t2, t2 = s[Len(s) - 1]
  PROVE  /\ Chain(u, h2, t2, m, p2, q2)
         /\ ToSet(u) = ToSet(s) /\ Distinct(u)
<1>0. /\ u \in Seq(Nodes) /\ Len(u) = Len(s) /\ u[1] = s[Len(s)]
      /\ \A a \in 2..Len(s) : u[a] = s[a - 1]
      /\ \A k \in 1..Len(s) :
           /\ p2[s[k]] = IF k = Len(s) THEN NoNode ELSE IF k = 1 THEN s[Len(s)] ELSE p[s[k]]
           /\ q2[s[k]] = IF k = Len(s) THEN s[1] ELSE IF k = Len(s) - 1 THEN NoNode ELSE q[s[k]]
  BY DEF Rotated, Turned
<1> USE <1>0
<1>1. Len(s) \in Nat /\ u # <<>> /\ Len(u) \in Nat /\ s # <<>>
  BY InList
<1>2. /\ m = Len(s)
      /\ \A k \in 1..Len(s) - 1 : q[s[k]] = s[k + 1] /\ p[s[k + 1]] = s[k]
  BY DEF Chain, Links
<1>3. u[Len(u)] = s[Len(s) - 1]
  BY <1>1
<1>4. p2[u[1]] = NoNode /\ q2[u[Len(u)]] = NoNode
  <2>1. Len(s) \in 1..Len(s) /\ Len(s) - 1 \in 1..Len(s) /\ Len(s) - 1 # Len(s)
    BY <1>1
  <2> QED BY <2>1, <1>3
<1>5. ASSUME NEW a \in 1..Len(u) - 1
      PROVE  q2[u[a]] = u[a + 1] /\ p2[u[a + 1]] = u[a]
  <2>0. u[a + 1] = s[a] /\ a \in 1..Len(s) /\ a # Len(s)
    <3>1. a + 1 \in 2..Len(s) /\ (a + 1) - 1 = a /\ a \in 1..Len(s) /\ a # Len(s)
      BY <1>1
    <3>2. u[a + 1] = s[(a + 1) - 1]
      BY <3>1
    <3> QED BY <3>1, <3>2
  <2>1. CASE a = 1
    <3>1. Len(s) \in 1..Len(s) /\ 1 \in 1..Len(s) /\ 1 # Len(s)
      BY <1>1
    <3> QED BY <2>0, <2>1, <3>1
  <2>2. CASE a # 1
    <3>1. u[a] = s[a - 1] /\ a - 1 \in 1..Len(s) - 1 /\ a - 1 \in 1..Len(s) /\ (a - 1) + 1 = a
          /\ a - 1 # Len(s) - 1 /\ a - 1 # Len(s)
      BY <2>0, <2>2, <1>1
    <3>2. q[s[a - 1]] = s[(a - 1) + 1] /\ p[s[(a - 1) + 1]] = s[a - 1]
      BY <3>1, <1>2
    <3> QED BY <2>0, <2>2, <3>1, <3>2
  <2> QED BY <2>1, <2>2
<1>6. Chain(u, h2, t2, m, p2, q2)
  BY <1>1, <1>2, <1>3, <1>4, <1>5 DEF Chain, Links
<1>7. \A a \in 1..Len(s) : u[a] = IF a = 1 THEN s[Len(s)] ELSE s[a - 1]
  BY <1>1
<1>8. \A k \in 1..Len(s) : \E a \in 1..Len(s) : u[a] = s[k]
  <2> TAKE k \in 1..Len(s)
  <2>1. CASE k = Len(s)
    BY <2>1, <1>1
  <2>2. CASE k # Len(s)
    <3>1. k + 1 \in 2..Len(s) /\ k + 1 \in 1..Len(s) /\ (k + 1) - 1 = k
      BY <2>2, <1>1
    <3>2. u[k + 1] = s[(k + 1) - 1]
      BY <3>1
    <3> QED BY <3>1, <3>2
  <2> QED BY <2>1, <2>2
<1>9. ToSet(u) = ToSet(s)
  <2>1. \A a \in 1..Len(s) : Len(s) \in 1..Len(s) /\ (a # 1 => a - 1 \in 1..Len(s))
    BY <1>1
  <2>2. ToSet(u) = {u[k] : k \in 1..Len(s)} /\ ToSet(s) = {s[k] : k \in 1..Len(s)}
    BY InList
  <2>3. \A a \in 1..Len(s) : u[a] \in ToSet(s)
    BY ONLY <2>1, <2>2, <1>7
  <2>4. ToSet(u) \subseteq ToSet(s)
    BY <2>2, <2>3
  <2>5. ASSUME NEW x \in ToSet(s) PROVE x \in ToSet(u)
    <3>1. PICK k \in 1..Len(s) : x = s[k]
      BY <2>2
    <3>2. PICK a \in 1..Len(s) : u[a] = s[k]
      BY <1>8
    <3> QED BY <3>1, <3>2, <2>2
  <2> QED BY <2>4, <2>5
<1>10. Distinct(u)
  <2>1. ASSUME NEW a \in 1..Len(u), NEW b \in 1..Len(u), a < b
        PROVE  u[a] # u[b]
    <3> DEFINE c == IF a = 1 THEN Len(s) ELSE a - 1
               d == b - 1
    <3>1. u[a] = s[c] /\ u[b] = s[d] /\ c \in 1..Len(s) /\ d \in 1..Len(s) /\ c # d
      BY <2>1, <1>1, <1>7
    <3> HIDE DEF c, d
    <3> QED BY <3>1 DEF Distinct
  <2>2. \A a, b \in 1..Len(u) : a < b \/ b < a \/ a = b
    BY <1>1
  <2> QED BY <2>1, <2>2 DEF Distinct
<1> QED BY <1>6, <1>9, <1>10

\* Joining links the last node of s with the first of o: p2 and q2 are what it
\* makes of the fields p and q.
Bridged(s, o, t, ho, p, q, p2, q2) ==
  /\ \A k \in 1..Len(s) : p2[s[k]] = p[s[k]] /\ q2[s[k]] = IF k = Len(s) THEN ho ELSE q[s[k]]
  /\ \A k \in 1..Len(o) : q2[o[k]] = q[o[k]] /\ p2[o[k]] = IF k = 1 THEN t ELSE p[o[k]]

LEMMA JoinedChain ==
  ASSUME NEW s \in Seq(Nodes), NEW o \in Seq(Nodes), Distinct(s), Distinct(o), Len(o) # 0,
         \A x \in ToSet(s) : x \notin ToSet(o),
         NEW h, NEW t, NEW m, NEW ho, NEW to, NEW mo, NEW p, NEW q,
         Chain(s, h, t, m, p, q), Chain(o, ho, to, mo, p, q), NEW p2, NEW q2,
         Bridged(s, o, t, ho, p, q, p2, q2),
         NEW h2, h2 = (IF t = NoNode THEN ho ELSE h), NEW m2, m2 = m + mo
  PROVE  /\ Chain(s \o o, h2, to, m2, p2, q2)
         /\ ToSet(s \o o) = ToSet(s) \cup ToSet(o) /\ Distinct(s \o o) /\ s \o o \in Seq(Nodes)
<1>0. /\ \A k \in 1..Len(s) : p2[s[k]] = p[s[k]] /\ q2[s[k]] = IF k = Len(s) THEN ho ELSE q[s[k]]
      /\ \A k \in 1..Len(o) : q2[o[k]] = q[o[k]] /\ p2[o[k]] = IF k = 1 THEN t ELSE p[o[k]]
  BY DEF Bridged
<1> USE <1>0
<1> DEFINE u == s \o o
<1>1. /\ Len(s) \in Nat /\ Len(o) \in Nat \ {0} /\ u \in Seq(Nodes) /\ Len(u) = Len(s) + Len(o)
      /\ \A a \in 1..Len(u) : u[a] = IF a <= Len(s) THEN s[a] ELSE o[a - Len(s)]
      /\ u # <<>> /\ o # <<>> /\ (s # <<>> <=> Len(s) # 0) /\ (Len(s) = 0 => s = <<>>)
  <2>1. /\ u \in Seq(Nodes) /\ Len(u) = Len(s) + Len(o)
        /\ \A a \in 1..Len(u) : u[a] = IF a <= Len(s) THEN s[a] ELSE o[a - Len(s)]
    BY ConcatProperties
  <2> HIDE DEF u
  <2> QED BY <2>1, InList
<1> HIDE DEF u
<1>2. /\ m = Len(s) /\ mo = Len(o) /\ ho = o[1] /\ to = o[Len(o)] /\ q[o[Len(o)]] = NoNode
      /\ s = <<>> => t = NoNode
      /\ s # <<>> => h = s[1] /\ t = s[Len(s)] /\ p[s[1]] = NoNode /\ t # NoNode
      /\ p[o[1]] = NoNode
      /\ \A k \in 1..Len(s) - 1 : q[s[k]] = s[k + 1] /\ p[s[k + 1]] = s[k]
      /\ \A k \in 1..Len(o) - 1 : q[o[k]] = o[k + 1] /\ p[o[k + 1]] = o[k]
  <2>1. s # <<>> => s[Len(s)] # NoNode
    BY <1>1, InList
  <2> QED BY <2>1, <1>1 DEF Chain, Links
<1>3. u[1] = IF t = NoNode THEN ho ELSE h
  <2>1. CASE Len(s) = 0
    BY <2>1, <1>1, <1>2
  <2>2. CASE Len(s) # 0
    BY <2>2, <1>1, <1>2
  <2> QED BY <2>1, <2>2
<1>4. u[Len(u)] = to
  <2>1. u[Len(u)] = o[Len(u) - Len(s)] /\ Len(u) - Len(s) = Len(o)
    BY <1>1
  <2> QED BY <2>1, <1>2
<1>5. p2[u[1]] = NoNode /\ q2[u[Len(u)]] = NoNode
  <2>1. q2[u[Len(u)]] = NoNode
    <3>1. Len(o) \in 1..Len(o)
      BY <1>1
    <3> QED BY <3>1, <1>2, <1>4
  <2>2. CASE Len(s) = 0
    <3>1. u[1] = o[1] /\ 1 \in 1..Len(o) /\ t = NoNode
      BY <2>2, <1>1, <1>2
    <3> QED BY <2>1, <3>1
  <2>3. CASE Len(s) # 0
    <3>1. u[1] = s[1] /\ 1 \in 1..Len(s) /\ p[s[1]] = NoNode
      BY <2>3, <1>1, <1>2
    <3> QED BY <2>1, <3>1
  <2> QED BY <2>2, <2>3
<1>6. ASSUME NEW a \in 1..Len(u) - 1
      PROVE  q2[u[a]] = u[a + 1] /\ p2[u[a + 1]] = u[a]
  <2>0. /\ a \in 1..Len(u) /\ a + 1 \in 1..Len(u)
        /\ u[a] = IF a <= Len(s) THEN s[a] ELSE o[a - Len(s)]
        /\ u[a + 1] = IF a + 1 <= Len(s) THEN s[a + 1] ELSE o[(a + 1) - Len(s)]
    <3>1. a \in 1..Len(u) /\ a + 1 \in 1..Len(u)
      BY <1>1
    <3> QED BY ONLY <3>1, <1>1
  <2>1. CASE a < Len(s)
    <3>1. u[a] = s[a] /\ u[a + 1] = s[a + 1] /\ a \in 1..Len(s) - 1 /\ a \in 1..Len(s)
          /\ a + 1 \in 1..Len(s) /\ a # Len(s)
      BY <2>0, <2>1, <1>1
    <3> QED BY <3>1, <1>2
  <2>2. CASE a = Len(s)
    <3>1. u[a] = s[a] /\ u[a + 1] = o[1] /\ a \in 1..Len(s) /\ 1 \in 1..Len(o)
          /\ s # <<>>
      BY <2>0, <2>2, <1>1
    <3> QED BY <2>2, <3>1, <1>2
  <2>3. CASE a > Len(s)
    <3> DEFINE b == a - Len(s)
    <3>1. u[a] = o[b] /\ u[a + 1] = o[b + 1] /\ b \in 1..Len(o) - 1 /\ b \in 1..Len(o)
          /\ b + 1 \in 1..Len(o) /\ b + 1 # 1
      <4>1. (a + 1) - Len(s) = b + 1
        BY <1>1
      <4> QED BY <4>1, <2>0, <2>3, <1>1
    <3> HIDE DEF b
    <3> QED BY <3>1, <1>2
  <2> QED BY <2>0, <2>1, <2>2, <2>3, <1>1
<1>7. Chain(u, h2, to, m2, p2, q2)
  BY <1>1, <1>2, <1>3, <1>4, <1>5, <1>6 DEF Chain, Links
<1>8. ToSet(u) = ToSet(s) \cup ToSet(o)
  <2>1. \A k \in 1..Len(o) : k + Len(s) \in 1..Len(u) /\ u[k + Len(s)] = o[k]
    <3> TAKE k \in 1..Len(o)
    <3>1. k + Len(s) \in 1..Len(u) /\ ~ (k + Len(s) <= Len(s)) /\ (k + Len(s)) - Len(s) = k
      BY <1>1
    <3>2. u[k + Len(s)] = o[(k + Len(s)) - Len(s)]
      BY <3>1, <1>1
    <3> QED BY <3>1, <3>2
  <2>2. \A k \in 1..Len(s) : k \in 1..Len(u) /\ u[k] = s[k]
    BY <1>1
  <2>3. \A a \in 1..Len(u) : (a <= Len(s) => a \in 1..Len(s)) /\ (~ (a <= Len(s)) => a - Len(s) \in 1..Len(o))
    BY <1>1
  <2>4. /\ ToSet(u) = {u[k] : k \in 1..Len(u)} /\ ToSet(s) = {s[k] : k \in 1..Len(s)}
        /\ ToSet(o) = {o[k] : k \in 1..Len(o)}
    BY <1>1, InList
  <2>5. \A a \in 1..Len(u) : u[a] \in ToSet(s) \cup ToSet(o)
    BY ONLY <2>3, <2>4, <1>1
  <2>6. ASSUME NEW x \in ToSet(s) \cup ToSet(o) PROVE x \in ToSet(u)
    <3>1. CASE x \in ToSet(s)
      BY <3>1, <2>2, <2>4
    <3>2. CASE x \in ToSet(o)
      <4>1. PICK k \in 1..Len(o) : x = o[k]
        BY <3>2, <2>4
      <4> QED BY <4>1, <2>1, <2>4
    <3> QED BY <3>1, <3>2
  <2>7. ASSUME NEW x \in ToSet(u) PROVE x \in ToSet(s) \cup ToSet(o)
    BY <2>4, <2>5
  <2> QED BY <2>6, <2>7
<1>9. Distinct(u)
  <2>1. \A j \in 1..Len(s), k \in 1..Len(o) : s[j] # o[k]
    <3>1. (\A j \in 1..Len(s) : s[j] \in ToSet(s)) /\ \A k \in 1..Len(o) : o[k] \in ToSet(o)
      BY InList
    <3> QED BY <3>1
  <2>2. ASSUME NEW a \in 1..Len(u), NEW b \in 1..Len(u), a < b
        PROVE  u[a] # u[b]
    <3>1. CASE b <= Len(s)
      BY <3>1, <2>2, <1>1 DEF Distinct
    <3>2. CASE a <= Len(s) /\ b > Len(s)
      <4>1. a \in 1..Len(s) /\ b - Len(s) \in 1..Len(o) /\ u[a] = s[a] /\ u[b] = o[b - Len(s)]
        BY <3>2, <1>1
      <4> QED BY <4>1, <2>1
    <3>3. CASE a > Len(s)
      <4> DEFINE c == a - Len(s)
                 d == b - Len(s)
      <4>1. u[a] = o[c] /\ u[b] = o[d] /\ c \in 1..Len(o) /\ d \in 1..Len(o) /\ c # d
        BY <3>3, <2>2, <1>1
      <4> HIDE DEF c, d
      <4> QED BY <4>1 DEF Distinct
    <3> QED BY <2>2, <3>1, <3>2, <3>3, <1>1
  <2>3. \A a, b \in 1..Len(u) : a < b \/ b < a \/ a = b
    BY <1>1
  <2> QED BY <2>2, <2>3 DEF Distinct
<1> QED BY <1>1, <1>7, <1>8, <1>9 DEF u

-----------------------------------------------------------------------------
(* What the actions do to the order of a list.                             *)

LEMMA FirstInserted ==
  ASSUME NEW s \in Seq(Nodes), NEW n \in Nodes
  PROVE  Inserted(s, 1, n, <<n>> \o s)
<1> DEFINE u == <<n>> \o s
<1>1. <<n>> \in Seq(Nodes) /\ Len(<<n>>) = 1 /\ <<n>>[1] = n /\ Len(s) \in Nat
  BY InList
<1>2. /\ u \in Seq(Nodes) /\ Len(u) = Len(<<n>>) + Len(s)
      /\ \A a \in 1..Len(<<n>>) + Len(s) : u[a] = IF a <= Len(<<n>>) THEN <<n>>[a] ELSE s[a - Len(<<n>>)]
  BY <1>1, ConcatProperties
<1> HIDE DEF u
<1>3. Inserted(s, 1, n, u)
  BY <1>1, <1>2 DEF Inserted
<1> QED BY <1>3 DEF u

LEMMA LastInserted ==
  ASSUME NEW s \in Seq(Nodes), NEW n \in Nodes
  PROVE  Inserted(s, Len(s) + 1, n, Append(s, n))
<1>1. /\ Append(s, n) \in Seq(Nodes) /\ Len(Append(s, n)) = Len(s) + 1 /\ Len(s) \in Nat
      /\ \A a \in 1..Len(s) : Append(s, n)[a] = s[a]
      /\ Append(s, n)[Len(s) + 1] = n
  BY InList, AppendProperties
<1> QED BY <1>1 DEF Inserted

\* The part of a list from a to b.
LEMMA PartOf ==
  ASSUME NEW s \in Seq(Nodes), NEW a \in Nat \ {0}, NEW b \in 0..Len(s), a <= b + 1
  PROVE  /\ SubSeq(s, a, b) \in Seq(Nodes)
         /\ Len(SubSeq(s, a, b)) = b + 1 - a
         /\ \A k \in 1..b + 1 - a : SubSeq(s, a, b)[k] = s[a + k - 1]
<1>1. Len(s) \in Nat /\ \A k \in 1..Len(s) : s[k] \in Nodes
  BY InList
<1>2. a \in Int /\ b \in Int /\ \A k \in a..b : s[k] \in Nodes
  BY <1>1
<1>3. /\ SubSeq(s, a, b) \in Seq(Nodes)
      /\ Len(SubSeq(s, a, b)) = IF a <= b THEN b - a + 1 ELSE 0
      /\ \A k \in 1..b - a + 1 : SubSeq(s, a, b)[k] = s[a + k - 1]
  BY <1>2, SubSeqProperties
<1> QED BY <1>1, <1>3

LEMMA InsertAtInserted ==
  ASSUME NEW s \in Seq(Nodes), NEW n \in Nodes, NEW i \in 1..Len(s) + 1
  PROVE  Inserted(s, i, n, InsertAt(s, i, n))
<1> DEFINE x == SubSeq(s, 1, i - 1)
           y == SubSeq(s, i, Len(s))
           v == x \o <<n>>
           u == v \o y
<1>1. Len(s) \in Nat /\ <<n>> \in Seq(Nodes) /\ Len(<<n>>) = 1 /\ <<n>>[1] = n
  BY InList
<1>2. x \in Seq(Nodes) /\ Len(x) = i - 1 /\ \A k \in 1..i - 1 : x[k] = s[k]
  <2>1. 1 \in Nat \ {0} /\ i - 1 \in 0..Len(s) /\ 1 <= (i - 1) + 1
    BY <1>1
  <2>2. /\ x \in Seq(Nodes) /\ Len(x) = (i - 1) + 1 - 1
        /\ \A k \in 1..(i - 1) + 1 - 1 : x[k] = s[1 + k - 1]
    BY <2>1, PartOf
  <2> HIDE DEF x
  <2> QED BY <1>1, <2>2
<1>3. y \in Seq(Nodes) /\ Len(y) = Len(s) + 1 - i /\ \A k \in 1..Len(s) + 1 - i : y[k] = s[i + k - 1]
  <2>1. i \in Nat \ {0} /\ Len(s) \in 0..Len(s) /\ i <= Len(s) + 1
    BY <1>1
  <2> QED BY <2>1, PartOf
<1> HIDE DEF x, y
<1>4. /\ v \in Seq(Nodes) /\ Len(v) = i
      /\ \A a \in 1..i : v[a] = IF a = i THEN n ELSE s[a]
  <2>1. /\ v \in Seq(Nodes) /\ Len(v) = Len(x) + Len(<<n>>)
        /\ \A a \in 1..Len(x) + Len(<<n>>) : v[a] = IF a <= Len(x) THEN x[a] ELSE <<n>>[a - Len(x)]
    BY <1>1, <1>2, ConcatProperties
  <2> HIDE DEF v
  <2> QED BY <1>1, <1>2, <2>1
<1>5. /\ u \in Seq(Nodes) /\ Len(u) = Len(s) + 1
      /\ \A a \in 1..Len(s) + 1 : u[a] = IF a <= i THEN v[a] ELSE y[a - i]
  <2> HIDE DEF v
  <2>1. /\ u \in Seq(Nodes) /\ Len(u) = Len(v) + Len(y)
        /\ \A a \in 1..Len(v) + Len(y) : u[a] = IF a <= Len(v) THEN v[a] ELSE y[a - Len(v)]
    BY <1>4, <1>3, ConcatProperties
  <2> HIDE DEF u
  <2> QED BY <1>1, <1>3, <1>4, <2>1
<1> HIDE DEF u, v
<1>6. ASSUME NEW a \in 1..Len(s) + 1
      PROVE  u[a] = IF a < i THEN s[a] ELSE IF a = i THEN n ELSE s[a - 1]
  <2>1. CASE a <= i
    BY <2>1, <1>1, <1>4, <1>5
  <2>2. CASE a > i
    <3>1. a - i \in 1..Len(s) + 1 - i /\ i + (a - i) - 1 = a - 1
      BY <2>2, <1>1
    <3>2. u[a] = y[a - i] /\ y[a - i] = s[i + (a - i) - 1]
      BY <2>2, <3>1, <1>3, <1>5
    <3> QED BY <2>2, <3>1, <3>2
  <2> QED BY <2>1, <2>2, <1>1
<1> QED BY <1>5, <1>6 DEF Inserted, InsertAt, u, v, x, y

LEMMA RemoveAtRemoved ==
  ASSUME NEW s \in Seq(Nodes), NEW i \in 1..Len(s)
  PROVE  Removed(s, i, RemoveAt(s, i))
<1> DEFINE x == SubSeq(s, 1, i - 1)
           y == SubSeq(s, i + 1, Len(s))
           u == x \o y
<1>1. Len(s) \in Nat
  BY InList
<1>2. x \in Seq(Nodes) /\ Len(x) = i - 1 /\ \A k \in 1..i - 1 : x[k] = s[k]
  <2>1. 1 \in Nat \ {0} /\ i - 1 \in 0..Len(s) /\ 1 <= (i - 1) + 1
    BY <1>1
  <2>2. /\ x \in Seq(Nodes) /\ Len(x) = (i - 1) + 1 - 1
        /\ \A k \in 1..(i - 1) + 1 - 1 : x[k] = s[1 + k - 1]
    BY <2>1, PartOf
  <2> HIDE DEF x
  <2> QED BY <1>1, <2>2
<1>3. y \in Seq(Nodes) /\ Len(y) = Len(s) - i /\ \A k \in 1..Len(s) - i : y[k] = s[i + k]
  <2>1. i + 1 \in Nat \ {0} /\ Len(s) \in 0..Len(s) /\ i + 1 <= Len(s) + 1
    BY <1>1
  <2>2. /\ y \in Seq(Nodes) /\ Len(y) = Len(s) + 1 - (i + 1)
        /\ \A k \in 1..Len(s) + 1 - (i + 1) : y[k] = s[(i + 1) + k - 1]
    BY <2>1, PartOf
  <2> HIDE DEF y
  <2>3. Len(s) + 1 - (i + 1) = Len(s) - i
    BY <1>1
  <2>4. \A k \in 1..Len(s) - i : y[k] = s[i + k]
    <3> TAKE k \in 1..Len(s) - i
    <3>1. y[k] = s[(i + 1) + k - 1] /\ (i + 1) + k - 1 = i + k
      BY <2>2, <2>3
    <3> QED BY <3>1
  <2> QED BY <2>2, <2>3, <2>4
<1> HIDE DEF x, y
<1>4. /\ u \in Seq(Nodes) /\ Len(u) = Len(s) - 1
      /\ \A a \in 1..Len(s) - 1 : u[a] = IF a <= i - 1 THEN x[a] ELSE y[a - (i - 1)]
  <2>1. /\ u \in Seq(Nodes) /\ Len(u) = Len(x) + Len(y)
        /\ \A a \in 1..Len(x) + Len(y) : u[a] = IF a <= Len(x) THEN x[a] ELSE y[a - Len(x)]
    BY <1>2, <1>3, ConcatProperties
  <2> HIDE DEF u
  <2> QED BY <1>1, <1>2, <1>3, <2>1
<1> HIDE DEF u
<1>5. ASSUME NEW a \in 1..Len(s) - 1
      PROVE  u[a] = IF a < i THEN s[a] ELSE s[a + 1]
  <2>1. CASE a < i
    BY <2>1, <1>1, <1>2, <1>4
  <2>2. CASE a >= i
    <3>1. a - (i - 1) \in 1..Len(s) - i /\ i + (a - (i - 1)) = a + 1 /\ ~ (a <= i - 1)
      BY <2>2, <1>1
    <3>2. u[a] = y[a - (i - 1)] /\ y[a - (i - 1)] = s[i + (a - (i - 1))]
      BY <3>1, <1>3, <1>4
    <3> QED BY <2>2, <3>1, <3>2
  <2> QED BY <2>1, <2>2, <1>1
<1> QED BY <1>4, <1>5 DEF Removed, RemoveAt, u, x, y

LEMMA TailRemoved ==
  ASSUME NEW s \in Seq(Nodes), s # <<>>
  PROVE  Removed(s, 1, Tail(s))
<1>1. /\ Tail(s) \in Seq(Nodes) /\ Len(Tail(s)) = Len(s) - 1 /\ Len(s) \in Nat
      /\ \A k \in 1..Len(Tail(s)) : Tail(s)[k] = s[k + 1]
  BY InList, HeadTailProperties
<1> QED BY <1>1 DEF Removed

LEMMA RotatedOrder ==
  ASSUME NEW s \in Seq(Nodes), Len(s) > 1
  PROVE  Rotated(s, <<Last(s)>> \o Front(s))
<1> DEFINE n == s[Len(s)]
           x == SubSeq(s, 1, Len(s) - 1)
           u == <<n>> \o x
<1>1. Len(s) \in Nat /\ n \in Nodes
  BY InList
<1> HIDE DEF n
<1>2. x \in Seq(Nodes) /\ Len(x) = Len(s) - 1 /\ \A k \in 1..Len(s) - 1 : x[k] = s[k]
  <2>1. 1 \in Nat \ {0} /\ Len(s) - 1 \in 0..Len(s) /\ 1 <= (Len(s) - 1) + 1
    BY <1>1
  <2>2. /\ x \in Seq(Nodes) /\ Len(x) = (Len(s) - 1) + 1 - 1
        /\ \A k \in 1..(Len(s) - 1) + 1 - 1 : x[k] = s[1 + k - 1]
    BY <2>1, PartOf
  <2> HIDE DEF x
  <2> QED BY <1>1, <2>2
<1> HIDE DEF x
<1>3. Inserted(x, 1, n, u)
  BY <1>1, <1>2, FirstInserted
<1> HIDE DEF u
<1>4. /\ u \in Seq(Nodes) /\ Len(u) = Len(s) /\ u[1] = n
      /\ \A a \in 2..Len(s) : u[a] = x[a - 1]
  BY <1>1, <1>2, <1>3 DEF Inserted
<1>5. \A a \in 2..Len(s) : u[a] = s[a - 1]
  BY <1>1, <1>2, <1>4
<1> QED BY <1>4, <1>5 DEF Rotated, u, x, n, Last, Front

-----------------------------------------------------------------------------
(* The invariant.                                                          *)

\* No node is in two lists or in a list twice, and only allocated ones are in any.
Apart(hp, ord) ==
  /\ hp = UNION {ToSet(ord[l]) : l \in Lists}
  /\ \A l \in Lists : Distinct(ord[l])
  /\ \A l, o \in Lists : l # o => \A x \in ToSet(ord[l]) : x \notin ToSet(ord[o])

\* What is left of a list that is being emptied.
Half(l) ==
  LET s == order[l] IN
  /\ call.left = Len(s)
  /\ s # <<>> => call.at = s[1] /\ tail[l] = s[Len(s)] /\ next[s[Len(s)]] = NoNode
  /\ Links(s, prev, next)

LinkInv ==
  /\ \A l \in Lists : IF Emptying(l) THEN Half(l)
                                     ELSE Chain(order[l], head[l], tail[l], len[l], prev, next)
  /\ Apart(heap, order)

\* What a walk of listEmpty or listDup is on.
CallInv ==
  /\ call.kind = "empty" => call.list \in Lists /\ ~ Iterating(call.list)
  /\ call.kind = "dup" => /\ call.list \in Lists /\ call.copy \in Lists /\ call.list # call.copy
                          /\ ~ Iterating(call.copy)
                          /\ call.at # NoNode => Holds(call.list, call.at)

LEMMA ApartPlaced ==
  ASSUME ListTypeOK, Apart(heap, order)
  PROVE  NodesPlaced
<1> SUFFICES ASSUME NEW l \in Lists, NEW o \in Lists, NEW j \in DOMAIN order[l], NEW k \in DOMAIN order[o],
                    order[l][j] = order[o][k]
             PROVE  l = o /\ j = k
  BY DEF Apart, NodesPlaced
<1>1. /\ order[l] \in Seq(Nodes) /\ order[o] \in Seq(Nodes)
  BY DEF ListTypeOK
<1>2. /\ j \in 1..Len(order[l]) /\ k \in 1..Len(order[o])
      /\ order[l][j] \in ToSet(order[l]) /\ order[o][k] \in ToSet(order[o])
  BY <1>1, InList
<1>3. l = o
  BY <1>2 DEF Apart
<1> QED BY <1>2, <1>3 DEF Apart, Distinct

LEMMA LinkInvLinked ==
  ASSUME ListTypeOK, LinkInv
  PROVE  Linked
<1>1. NodesPlaced
  BY ApartPlaced DEF LinkInv
<1>2. ASSUME NEW l \in Lists PROVE Chained(l)
  <2>1. order[l] \in Seq(Nodes)
    BY DEF ListTypeOK
  <2>2. CASE Emptying(l)
    BY <2>1, <2>2 DEF LinkInv, Half, Links, Chained, First, Left
  <2>3. CASE ~ Emptying(l)
    BY <2>1, <2>3 DEF LinkInv, Chain, Links, Chained, First, Left
  <2> QED BY <2>2, <2>3
<1> QED BY <1>1, <1>2 DEF Linked

\* The neighbours of a node in a chain, and when it is an end.
LEMMA Neighbours ==
  ASSUME NEW s \in Seq(Nodes), Distinct(s), NEW k \in 1..Len(s),
         NEW h, NEW t, NEW m, NEW p, NEW q, Chain(s, h, t, m, p, q)
  PROVE  /\ p[s[k]] = IF k = 1 THEN NoNode ELSE s[k - 1]
         /\ q[s[k]] = IF k = Len(s) THEN NoNode ELSE s[k + 1]
         /\ h = s[1] /\ t = s[Len(s)]
         /\ h = s[k] <=> k = 1
         /\ t = s[k] <=> k = Len(s)
         /\ m = Len(s)
<1>1. Len(s) \in Nat /\ s # <<>> /\ 1 \in 1..Len(s) /\ Len(s) \in 1..Len(s)
  BY InList
<1>2. /\ h = s[1] /\ t = s[Len(s)] /\ q[s[Len(s)]] = NoNode /\ p[s[1]] = NoNode /\ m = Len(s)
      /\ \A j \in 1..Len(s) - 1 : q[s[j]] = s[j + 1] /\ p[s[j + 1]] = s[j]
  BY <1>1 DEF Chain, Links
<1>3. k # 1 => k - 1 \in 1..Len(s) - 1 /\ (k - 1) + 1 = k
  BY <1>1
<1>4. p[s[k]] = IF k = 1 THEN NoNode ELSE s[k - 1]
  <2>1. CASE k # 1
    <3>1. p[s[(k - 1) + 1]] = s[k - 1]
      BY <2>1, <1>2, <1>3
    <3> QED BY <2>1, <3>1, <1>3
  <2> QED BY <2>1, <1>2
<1>5. q[s[k]] = IF k = Len(s) THEN NoNode ELSE s[k + 1]
  BY <1>1, <1>2
<1>6. (s[1] = s[k] <=> k = 1) /\ (s[Len(s)] = s[k] <=> k = Len(s))
  BY <1>1 DEF Distinct
<1> QED BY <1>2, <1>4, <1>5, <1>6

\* One list changes; the nodes of the others are not touched.
LEMMA OneChanges ==
  ASSUME ListTypeOK, LinkInv, call.kind # "empty", call'.kind # "empty",
         NEW l \in Lists, NEW u \in Seq(Nodes), order' = [order EXCEPT ![l] = u],
         Chain(u, head'[l], tail'[l], len'[l], prev', next'), Distinct(u),
         \A o \in Lists : o # l => head'[o] = head[o] /\ tail'[o] = tail[o] /\ len'[o] = len[o],
         \A x \in heap : x \notin ToSet(order[l]) => prev'[x] = prev[x] /\ next'[x] = next[x],
         \A x \in ToSet(u) : x \in ToSet(order[l]) \/ x \notin heap,
         \A x : x \in heap' <=> x \in ToSet(u) \/ (x \in heap /\ x \notin ToSet(order[l]))
  PROVE  LinkInv'
<1>1. \A o \in Lists : order[o] \in Seq(Nodes) /\ order'[o] = IF o = l THEN u ELSE order[o]
  BY DEF ListTypeOK
<1>2. \A o \in Lists : ~ Emptying(o) /\ ~ Emptying(o)'
  BY DEF Emptying
<1>3. /\ heap = UNION {ToSet(order[o]) : o \in Lists}
      /\ \A o \in Lists : Distinct(order[o])
      /\ \A o, r \in Lists : o # r => \A x \in ToSet(order[o]) : x \notin ToSet(order[r])
  BY DEF LinkInv, Apart
<1>4. ASSUME NEW o \in Lists PROVE Chain(order'[o], head'[o], tail'[o], len'[o], prev', next')
  <2>1. CASE o = l
    BY <2>1, <1>1
  <2>2. CASE o # l
    <3> DEFINE s == order[o]
    <3>1. Chain(s, head[o], tail[o], len[o], prev, next)
      BY <1>2 DEF LinkInv
    <3>2. s \in Seq(Nodes) /\ \A k \in 1..Len(s) : s[k] \in ToSet(s)
      BY <1>1, InList
    <3>3. \A x \in ToSet(s) : x \in heap /\ x \notin ToSet(order[l])
      BY <2>2, <1>3
    <3>4. \A k \in 1..Len(s) : prev'[s[k]] = prev[s[k]] /\ next'[s[k]] = next[s[k]]
      BY <3>2, <3>3
    <3> HIDE DEF s
    <3>5. Chain(s, head[o], tail[o], len[o], prev', next')
      BY <3>1, <3>2, <3>4, FramedChain
    <3>6. order'[o] = s
      BY <2>2, <1>1 DEF s
    <3> QED BY <2>2, <3>5, <3>6
  <2> QED BY <2>1, <2>2
<1>5. \A o \in Lists : Distinct(order'[o])
  BY <1>1, <1>3
<1>6. ASSUME NEW o \in Lists, NEW r \in Lists, o # r, NEW x \in ToSet(order'[o])
      PROVE  x \notin ToSet(order'[r])
  <2>1. CASE o = l
    <3>1. x \in ToSet(u) /\ order'[r] = order[r]
      BY <1>1, <1>6, <2>1
    <3>2. CASE x \in ToSet(order[l])
      BY <3>1, <3>2, <2>1, <1>3, <1>6
    <3>3. CASE x \notin heap
      BY <3>1, <3>3, <1>3
    <3> QED BY <3>1, <3>2, <3>3
  <2>2. CASE r = l
    <3>1. x \in ToSet(order[o]) /\ order'[r] = u /\ x \in heap /\ x \notin ToSet(order[l])
      BY <1>1, <1>3, <1>6, <2>2
    <3> QED BY <3>1
  <2>3. CASE o # l /\ r # l
    BY <2>3, <1>1, <1>3, <1>6
  <2> QED BY <2>1, <2>2, <2>3
<1>7. heap' = UNION {ToSet(order'[o]) : o \in Lists}
  <2>1. ASSUME NEW x PROVE x \in heap' <=> \E o \in Lists : x \in ToSet(order'[o])
    <3>1. x \in heap <=> \E o \in Lists : x \in ToSet(order[o])
      BY <1>3
    <3>2. ASSUME x \in heap' PROVE \E o \in Lists : x \in ToSet(order'[o])
      <4>1. CASE x \in ToSet(u)
        BY <4>1, <1>1
      <4>2. CASE x \in heap /\ x \notin ToSet(order[l])
        BY <4>2, <3>1, <1>1
      <4> QED BY <3>2, <4>1, <4>2
    <3>3. ASSUME NEW o \in Lists, x \in ToSet(order'[o]) PROVE x \in heap'
      <4>1. CASE o = l
        BY <4>1, <3>3, <1>1
      <4>2. CASE o # l
        BY <4>2, <3>1, <3>3, <1>1, <1>3
      <4> QED BY <4>1, <4>2
    <3> QED BY <3>2, <3>3
  <2> QED BY <2>1
<1> QED BY <1>2, <1>4, <1>5, <1>6, <1>7 DEF LinkInv, Apart

LEMMA Inserting ==
  ASSUME ListTypeOK, LinkInv, call.kind # "empty", call'.kind # "empty",
         NEW l \in Lists, NEW n \in Nodes, n \notin heap, heap' = heap \cup {n},
         NEW i \in 1..Len(order[l]) + 1, NEW u, Inserted(order[l], i, n, u),
         order' = [order EXCEPT ![l] = u],
         prev'[n] = (IF i = 1 THEN NoNode ELSE order[l][i - 1]),
         next'[n] = (IF i = Len(order[l]) + 1 THEN NoNode ELSE order[l][i]),
         \A x \in Nodes : x # n =>
           /\ prev'[x] = (IF i # Len(order[l]) + 1 /\ x = order[l][i] THEN n ELSE prev[x])
           /\ next'[x] = (IF i # 1 /\ x = order[l][i - 1] THEN n ELSE next[x]),
         head'[l] = (IF i = 1 THEN n ELSE head[l]),
         tail'[l] = (IF i = Len(order[l]) + 1 THEN n ELSE tail[l]),
         len'[l] = len[l] + 1,
         \A o \in Lists : o # l => head'[o] = head[o] /\ tail'[o] = tail[o] /\ len'[o] = len[o]
  PROVE  LinkInv'
<1> DEFINE s == order[l]
<1>1. /\ s \in Seq(Nodes) /\ Distinct(s) /\ \A x \in ToSet(s) : x \in heap
      /\ Chain(s, head[l], tail[l], len[l], prev, next)
  BY DEF ListTypeOK, LinkInv, Apart, Emptying
<1>2. /\ Len(s) \in Nat /\ n \notin ToSet(s) /\ heap \subseteq Nodes
      /\ \A k \in 1..Len(s) : s[k] \in Nodes /\ s[k] \in ToSet(s) /\ s[k] # n
  BY <1>1, InList DEF ListTypeOK
<1>3. \A k \in 1..Len(s) : (i # Len(s) + 1 /\ s[k] = s[i] <=> k = i) /\ (i # 1 /\ s[k] = s[i - 1] <=> k = i - 1)
  <2> TAKE k \in 1..Len(s)
  <2>1. (i # Len(s) + 1 => i \in 1..Len(s)) /\ (i # 1 => i - 1 \in 1..Len(s)) /\ (k = i => i # Len(s) + 1)
        /\ (k = i - 1 => i # 1)
    BY <1>2
  <2> QED BY <2>1, <1>1 DEF Distinct
<1>4. \A k \in 1..Len(s) : /\ prev'[s[k]] = IF k = i THEN n ELSE prev[s[k]]
                           /\ next'[s[k]] = IF k = i - 1 THEN n ELSE next[s[k]]
  BY <1>2, <1>3
<1>5. Inserted(s, i, n, u) /\ i \in 1..Len(s) + 1 /\ n \in Nodes \ ToSet(s)
  BY <1>2
<1>6. /\ prev'[n] = (IF i = 1 THEN NoNode ELSE s[i - 1])
      /\ next'[n] = (IF i = Len(s) + 1 THEN NoNode ELSE s[i])
      /\ head'[l] = (IF i = 1 THEN n ELSE head[l])
      /\ tail'[l] = (IF i = Len(s) + 1 THEN n ELSE tail[l])
  OBVIOUS
<1>7. \A x \in heap : x \notin ToSet(s) => prev'[x] = prev[x] /\ next'[x] = next[x]
  <2> SUFFICES ASSUME NEW x \in heap, x \notin ToSet(s) PROVE prev'[x] = prev[x] /\ next'[x] = next[x]
    OBVIOUS
  <2>1. x \in Nodes /\ x # n
    BY <1>2
  <2>2. (i # Len(s) + 1 => x # s[i]) /\ (i # 1 => x # s[i - 1])
    <3>1. (i # Len(s) + 1 => i \in 1..Len(s)) /\ (i # 1 => i - 1 \in 1..Len(s))
      BY <1>2
    <3> QED BY <3>1, <1>2
  <2> QED BY <2>1, <2>2
<1> HIDE DEF s
<1>8. ToSet(u) = ToSet(s) \cup {n} /\ Distinct(u) /\ u \in Seq(Nodes)
  BY <1>1, <1>5, InsertedIs, InsertedDistinct DEF Inserted
<1>9. Chain(u, head'[l], tail'[l], len'[l], prev', next')
  <2>1. len'[l] = len[l] + 1
    OBVIOUS
  <2> QED BY ONLY <1>1, <1>4, <1>5, <1>6, <2>1, InsertedChain
<1>10. /\ \A x \in heap : x \notin ToSet(order[l]) => prev'[x] = prev[x] /\ next'[x] = next[x]
       /\ \A x \in ToSet(u) : x \in ToSet(order[l]) \/ x \notin heap
       /\ \A x : x \in heap' <=> x \in ToSet(u) \/ (x \in heap /\ x \notin ToSet(order[l]))
  <2>1. \A x \in ToSet(order[l]) : x \in heap
    BY <1>1 DEF s
  <2>2. ToSet(u) = ToSet(order[l]) \cup {n}
    BY <1>8 DEF s
  <2> QED BY <1>7, <2>1, <2>2 DEF s
<1> QED BY <1>8, <1>9, <1>10, OneChanges

LEMMA Removing ==
  ASSUME ListTypeOK, LinkInv, call.kind # "empty", call'.kind # "empty",
         NEW l \in Lists, NEW i \in 1..Len(order[l]), DelNode(l, i)
  PROVE  LinkInv' /\ len[l] # 0
<1> DEFINE s == order[l]
           n == s[i]
           u == RemoveAt(s, i)
<1>1. /\ s \in Seq(Nodes) /\ Distinct(s) /\ \A x \in ToSet(s) : x \in heap
      /\ Chain(s, head[l], tail[l], len[l], prev, next)
  BY DEF ListTypeOK, LinkInv, Apart, Emptying
<1>2. /\ Len(s) \in Nat /\ i \in 1..Len(s) /\ n \in ToSet(s) /\ n \in Nodes /\ heap \subseteq Nodes
      /\ \A k \in 1..Len(s) : s[k] \in Nodes /\ s[k] \in ToSet(s) /\ s[k] # NoNode
  BY <1>1, InList DEF ListTypeOK
<1>3. /\ prev[n] = IF i = 1 THEN NoNode ELSE s[i - 1]
      /\ next[n] = IF i = Len(s) THEN NoNode ELSE s[i + 1]
      /\ len[l] = Len(s)
  BY <1>1, <1>2, Neighbours
<1>4. \A x \in Nodes : x # n => /\ prev'[x] = IF x = next[n] THEN prev[n] ELSE prev[x]
                                /\ next'[x] = IF x = prev[n] THEN next[n] ELSE next[x]
  <2> SUFFICES ASSUME NEW x \in Nodes, x # n
               PROVE  /\ prev'[x] = IF x = next[n] THEN prev[n] ELSE prev[x]
                      /\ next'[x] = IF x = prev[n] THEN next[n] ELSE next[x]
    OBVIOUS
  <2>1. /\ prev' = [(IF next[n] = NoNode THEN prev ELSE [prev EXCEPT ![next[n]] = prev[n]]) EXCEPT ![n] = NoNode]
        /\ next' = [(IF prev[n] = NoNode THEN next ELSE [next EXCEPT ![prev[n]] = next[n]]) EXCEPT ![n] = NoNode]
    BY DEF DelNode, Cleared, Through
  <2>2. x # NoNode /\ prev \in [Nodes -> NodeOrNull] /\ next \in [Nodes -> NodeOrNull]
    BY ListAssumption DEF ListTypeOK
  <2> HIDE DEF n
  <2> QED BY <2>1, <2>2
<1>5. \A k \in 1..Len(s) : k # i =>
        /\ s[k] # n
        /\ (s[k] = next[n] <=> k = i + 1) /\ (s[k] = prev[n] <=> k = i - 1)
  <2> SUFFICES ASSUME NEW k \in 1..Len(s), k # i
               PROVE  /\ s[k] # n
                      /\ (s[k] = next[n] <=> k = i + 1) /\ (s[k] = prev[n] <=> k = i - 1)
    OBVIOUS
  <2>1. s[k] # n /\ s[k] # NoNode
    BY <1>1, <1>2 DEF Distinct
  <2>2. s[k] = next[n] <=> k = i + 1
    <3>1. CASE i = Len(s)
      BY <3>1, <2>1, <1>2, <1>3
    <3>2. CASE i # Len(s)
      BY <3>2, <1>1, <1>2, <1>3 DEF Distinct
    <3> QED BY <3>1, <3>2
  <2>3. s[k] = prev[n] <=> k = i - 1
    <3>1. CASE i = 1
      BY <3>1, <2>1, <1>2, <1>3
    <3>2. CASE i # 1
      BY <3>2, <1>1, <1>2, <1>3 DEF Distinct
    <3> QED BY <3>1, <3>2
  <2> QED BY <2>1, <2>2, <2>3
<1>6. \A k \in 1..Len(s) : k # i => /\ prev'[s[k]] = IF k = i + 1 THEN prev[n] ELSE prev[s[k]]
                                    /\ next'[s[k]] = IF k = i - 1 THEN next[n] ELSE next[s[k]]
  BY <1>2, <1>4, <1>5
<1>7. /\ head'[l] = IF prev[n] = NoNode THEN next[n] ELSE head[l]
      /\ tail'[l] = IF next[n] = NoNode THEN prev[n] ELSE tail[l]
      /\ len'[l] = len[l] - 1
      /\ \A o \in Lists : o # l => head'[o] = head[o] /\ tail'[o] = tail[o] /\ len'[o] = len[o]
      /\ heap' = heap \ {n}
      /\ order' = [order EXCEPT ![l] = u]
  BY DEF DelNode, ListTypeOK
<1>8. \A x \in heap : x \notin ToSet(s) => prev'[x] = prev[x] /\ next'[x] = next[x]
  <2> SUFFICES ASSUME NEW x \in heap, x \notin ToSet(s) PROVE prev'[x] = prev[x] /\ next'[x] = next[x]
    OBVIOUS
  <2>1. x \in Nodes /\ x # n /\ x # NoNode
    BY <1>2, ListAssumption
  <2>2. x # next[n] /\ x # prev[n]
    <3>1. (i # Len(s) => i + 1 \in 1..Len(s)) /\ (i # 1 => i - 1 \in 1..Len(s))
      BY <1>2
    <3> QED BY <3>1, <2>1, <1>2, <1>3
  <2> QED BY <2>1, <2>2, <1>4
<1>9. Removed(s, i, u)
  BY <1>1, <1>2, RemoveAtRemoved
<1>10. ToSet(u) = ToSet(s) \ {s[i]} /\ Distinct(u) /\ u \in Seq(Nodes)
  <2> HIDE DEF u
  <2>1. s \in Seq(Nodes) /\ Distinct(s) /\ i \in 1..Len(s) /\ Removed(s, i, u)
    BY <1>1, <1>2, <1>9
  <2>2. u \in Seq(Nodes)
    BY <2>1 DEF Removed
  <2> HIDE DEF s, n
  <2>3. ToSet(u) = ToSet(s) \ {s[i]} /\ Distinct(u)
    BY ONLY <2>1, RemovedIs
  <2> QED BY <2>2, <2>3
<1>11. Chain(u, head'[l], tail'[l], len'[l], prev', next')
  <2>1. Bypassed(s, i, prev, next, prev', next')
    BY <1>6 DEF Bypassed
  <2>2. /\ head'[l] = IF prev[s[i]] = NoNode THEN next[s[i]] ELSE head[l]
        /\ tail'[l] = IF next[s[i]] = NoNode THEN prev[s[i]] ELSE tail[l]
        /\ len'[l] = len[l] - 1
        /\ i \in 1..Len(s)
    BY <1>2, <1>7
  <2> HIDE DEF s, u, n
  <2> QED BY <1>1, <2>1, <2>2, <1>9, RemovedChain
<1>12. /\ \A x \in heap : x \notin ToSet(order[l]) => prev'[x] = prev[x] /\ next'[x] = next[x]
       /\ \A x \in ToSet(u) : x \in ToSet(order[l]) \/ x \notin heap
       /\ \A x : x \in heap' <=> x \in ToSet(u) \/ (x \in heap /\ x \notin ToSet(order[l]))
  <2>1. n \in ToSet(order[l]) /\ \A x \in ToSet(order[l]) : x \in heap
    BY <1>1, <1>2
  <2>2. ToSet(u) = ToSet(order[l]) \ {n}
    BY <1>10
  <2> HIDE DEF u, n
  <2> QED BY <1>7, <1>8, <2>1, <2>2 DEF s
<1>13. LinkInv'
  <2> HIDE DEF u
  <2> QED BY <1>7, <1>10, <1>11, <1>12, OneChanges
<1> QED BY <1>2, <1>3, <1>13

-----------------------------------------------------------------------------
(* The actions on the links.                                               *)

\* What the links say of a list that is not being emptied.
LEMMA ChainOf ==
  ASSUME ListTypeOK, LinkInv, NEW l \in Lists, ~ Emptying(l)
  PROVE  /\ order[l] \in Seq(Nodes) /\ Distinct(order[l])
         /\ \A x \in ToSet(order[l]) : x \in heap
         /\ Chain(order[l], head[l], tail[l], len[l], prev, next)
         /\ len[l] = Len(order[l]) /\ Len(order[l]) \in Nat
         /\ \A k \in 1..Len(order[l]) : order[l][k] \in Nodes /\ order[l][k] \in ToSet(order[l]) /\ order[l][k] # NoNode
         /\ Len(order[l]) = 0 => head[l] = NoNode /\ tail[l] = NoNode
         /\ Len(order[l]) # 0 => /\ head[l] = order[l][1] /\ tail[l] = order[l][Len(order[l])]
                                 /\ 1 \in 1..Len(order[l]) /\ Len(order[l]) \in 1..Len(order[l])
                                 /\ head[l] # NoNode /\ tail[l] # NoNode
<1> DEFINE s == order[l]
<1>1. /\ s \in Seq(Nodes) /\ Distinct(s) /\ \A x \in ToSet(s) : x \in heap
      /\ Chain(s, head[l], tail[l], len[l], prev, next)
  BY DEF ListTypeOK, LinkInv, Apart
<1>2. /\ Len(s) \in Nat /\ (s # <<>> <=> Len(s) # 0)
      /\ \A k \in 1..Len(s) : s[k] \in Nodes /\ s[k] \in ToSet(s) /\ s[k] # NoNode
  BY <1>1, InList
<1> HIDE DEF s
<1>3. /\ len[l] = Len(s)
      /\ Len(s) = 0 => head[l] = NoNode /\ tail[l] = NoNode
      /\ Len(s) # 0 => head[l] = s[1] /\ tail[l] = s[Len(s)]
  BY <1>1, <1>2 DEF Chain
<1>4. Len(s) # 0 => 1 \in 1..Len(s) /\ Len(s) \in 1..Len(s)
  BY <1>2
<1> QED BY <1>1, <1>2, <1>3, <1>4 DEF s

LEMMA AddedToHead ==
  ASSUME ListTypeOK, LinkInv, call.kind # "empty", call'.kind # "empty",
         NEW l \in Lists, NEW n \in Nodes, NEW v, AddNodeToHead(l, n, v)
  PROVE  LinkInv' /\ Inserted(order[l], 1, n, <<n>> \o order[l])
<1> DEFINE s == order[l]
           u == <<n>> \o s
<1>1. ~ Emptying(l)
  BY DEF Emptying
<1>2. /\ s \in Seq(Nodes) /\ len[l] = Len(s) /\ Len(s) \in Nat
      /\ Len(s) = 0 => head[l] = NoNode /\ tail[l] = NoNode
      /\ Len(s) # 0 => head[l] = s[1] /\ tail[l] = s[Len(s)] /\ head[l] \in Nodes /\ head[l] \in heap
  BY <1>1, ChainOf
<1>3. Inserted(s, 1, n, u)
  BY <1>2, FirstInserted
<1>4. /\ n \notin heap /\ heap' = heap \cup {n}
      /\ order' = [order EXCEPT ![l] = u]
  BY DEF AddNodeToHead, Allocate, ListTypeOK
<1>5. /\ next' = [next EXCEPT ![n] = IF len[l] = 0 THEN NoNode ELSE head[l]]
      /\ prev' = IF len[l] = 0 THEN [prev EXCEPT ![n] = NoNode]
                               ELSE [prev EXCEPT ![n] = NoNode, ![head[l]] = n]
      /\ head' = [head EXCEPT ![l] = n]
      /\ tail' = IF len[l] = 0 THEN [tail EXCEPT ![l] = n] ELSE tail
      /\ len' = [len EXCEPT ![l] = @ + 1]
      /\ prev \in [Nodes -> NodeOrNull] /\ next \in [Nodes -> NodeOrNull]
      /\ head \in [Lists -> NodeOrNull] /\ tail \in [Lists -> NodeOrNull]
      /\ len \in [Lists -> Nat]
  BY DEF AddNodeToHead, ListTypeOK
<1> HIDE DEF s, u
<1>6. /\ prev'[n] = NoNode
      /\ next'[n] = (IF 1 = Len(s) + 1 THEN NoNode ELSE s[1])
      /\ head'[l] = n /\ tail'[l] = (IF 1 = Len(s) + 1 THEN n ELSE tail[l])
      /\ len'[l] = len[l] + 1
      /\ \A o \in Lists : o # l => head'[o] = head[o] /\ tail'[o] = tail[o] /\ len'[o] = len[o]
  BY <1>2, <1>4, <1>5
<1>7. \A x \in Nodes : x # n => /\ prev'[x] = (IF 1 # Len(s) + 1 /\ x = s[1] THEN n ELSE prev[x])
                                /\ next'[x] = next[x]
  <2>1. \A x \in Nodes : x # n => next'[x] = next[x]
    BY <1>5
  <2>2. CASE len[l] = 0
    BY <2>1, <2>2, <1>2, <1>5
  <2>3. CASE len[l] # 0
    <3>1. Len(s) + 1 # 1 /\ head[l] = s[1] /\ prev' = [prev EXCEPT ![n] = NoNode, ![head[l]] = n]
      BY <2>3, <1>2, <1>5
    <3>2. \A x \in Nodes : x # n => prev'[x] = IF x = s[1] THEN n ELSE prev[x]
      BY <3>1, <1>5
    <3> QED BY <2>1, <3>1, <3>2
  <2> QED BY <2>2, <2>3
<1>8. 1 \in 1..Len(s) + 1
  BY <1>2
<1> PICK i \in 1..Len(s) + 1 : i = 1
  BY <1>8
<1>9. \A x \in Nodes : x # n => /\ prev'[x] = (IF i # Len(s) + 1 /\ x = s[i] THEN n ELSE prev[x])
                                /\ next'[x] = (IF i # 1 /\ x = s[i - 1] THEN n ELSE next[x])
  BY <1>7
<1>10. /\ prev'[n] = (IF i = 1 THEN NoNode ELSE s[i - 1])
       /\ next'[n] = (IF i = Len(s) + 1 THEN NoNode ELSE s[i])
       /\ head'[l] = (IF i = 1 THEN n ELSE head[l])
       /\ tail'[l] = (IF i = Len(s) + 1 THEN n ELSE tail[l])
  BY <1>6
<1>11. Inserted(s, i, n, u)
  BY <1>3
<1>12. LinkInv'
  BY <1>4, <1>6, <1>9, <1>10, <1>11, Inserting DEF s
<1> QED BY <1>3, <1>12 DEF s, u

LEMMA AddedToTail ==
  ASSUME ListTypeOK, LinkInv, call.kind # "empty", call'.kind # "empty",
         NEW l \in Lists, NEW n \in Nodes, NEW v, AddNodeToTail(l, n, v)
  PROVE  LinkInv' /\ Inserted(order[l], Len(order[l]) + 1, n, Append(order[l], n))
<1> DEFINE s == order[l]
           u == Append(s, n)
<1>1. ~ Emptying(l)
  BY DEF Emptying
<1>2. /\ s \in Seq(Nodes) /\ len[l] = Len(s) /\ Len(s) \in Nat
      /\ Len(s) = 0 => head[l] = NoNode /\ tail[l] = NoNode
      /\ Len(s) # 0 => head[l] = s[1] /\ tail[l] = s[Len(s)] /\ tail[l] \in Nodes /\ tail[l] \in heap
  BY <1>1, ChainOf
<1>3. Inserted(s, Len(s) + 1, n, u)
  BY <1>2, LastInserted
<1>4. /\ n \notin heap /\ heap' = heap \cup {n}
      /\ order' = [order EXCEPT ![l] = u]
  BY DEF AddNodeToTail, Allocate, ListTypeOK
<1>5. /\ prev' = [prev EXCEPT ![n] = IF len[l] = 0 THEN NoNode ELSE tail[l]]
      /\ next' = IF len[l] = 0 THEN [next EXCEPT ![n] = NoNode]
                               ELSE [next EXCEPT ![n] = NoNode, ![tail[l]] = n]
      /\ tail' = [tail EXCEPT ![l] = n]
      /\ head' = IF len[l] = 0 THEN [head EXCEPT ![l] = n] ELSE head
      /\ len' = [len EXCEPT ![l] = @ + 1]
      /\ prev \in [Nodes -> NodeOrNull] /\ next \in [Nodes -> NodeOrNull]
      /\ head \in [Lists -> NodeOrNull] /\ tail \in [Lists -> NodeOrNull]
      /\ len \in [Lists -> Nat]
  BY DEF AddNodeToTail, ListTypeOK
<1> HIDE DEF s, u
<1>6. /\ prev'[n] = (IF Len(s) + 1 = 1 THEN NoNode ELSE s[(Len(s) + 1) - 1])
      /\ next'[n] = NoNode
      /\ head'[l] = (IF Len(s) + 1 = 1 THEN n ELSE head[l]) /\ tail'[l] = n
      /\ len'[l] = len[l] + 1
      /\ \A o \in Lists : o # l => head'[o] = head[o] /\ tail'[o] = tail[o] /\ len'[o] = len[o]
  <2>1. (Len(s) + 1) - 1 = Len(s) /\ (Len(s) + 1 = 1 <=> len[l] = 0)
    BY <1>2
  <2> QED BY <2>1, <1>2, <1>4, <1>5
<1>7. \A x \in Nodes : x # n => /\ prev'[x] = prev[x]
                                /\ next'[x] = (IF Len(s) + 1 # 1 /\ x = s[(Len(s) + 1) - 1] THEN n ELSE next[x])
  <2>1. (Len(s) + 1) - 1 = Len(s) /\ (Len(s) + 1 = 1 <=> len[l] = 0)
    BY <1>2
  <2> QED BY <2>1, <1>2, <1>4, <1>5
<1>8. Len(s) + 1 \in 1..Len(s) + 1
  BY <1>2
<1> PICK i \in 1..Len(s) + 1 : i = Len(s) + 1
  BY <1>8
<1>9. \A x \in Nodes : x # n => /\ prev'[x] = (IF i # Len(s) + 1 /\ x = s[i] THEN n ELSE prev[x])
                                /\ next'[x] = (IF i # 1 /\ x = s[i - 1] THEN n ELSE next[x])
  BY <1>7
<1>10. /\ prev'[n] = (IF i = 1 THEN NoNode ELSE s[i - 1])
       /\ next'[n] = (IF i = Len(s) + 1 THEN NoNode ELSE s[i])
       /\ head'[l] = (IF i = 1 THEN n ELSE head[l])
       /\ tail'[l] = (IF i = Len(s) + 1 THEN n ELSE tail[l])
  BY <1>6
<1>11. Inserted(s, i, n, u)
  BY <1>3
<1>12. LinkInv'
  BY <1>4, <1>6, <1>9, <1>10, <1>11, Inserting DEF s
<1> QED BY <1>3, <1>12 DEF s, u

LEMMA InsertedNode ==
  ASSUME ListTypeOK, LinkInv, NEW l \in Lists, NEW k \in 1..Len(order[l]), NEW n \in Nodes, NEW v,
         NEW after \in BOOLEAN, InsertNode(l, k, n, v, after),
         NEW i, i = (IF after THEN k + 1 ELSE k)
  PROVE  LinkInv' /\ i \in 1..Len(order[l]) + 1 /\ Inserted(order[l], i, n, InsertAt(order[l], i, n))
<1> DEFINE s == order[l]
           u == InsertAt(s, i, n)
           p == IF after THEN s[k] ELSE prev[s[k]]
           q == IF after THEN next[s[k]] ELSE s[k]
<1>1. call.kind = "none" /\ call' = call /\ ~ Emptying(l)
  BY DEF InsertNode, Quiet, Emptying
<1>2. /\ s \in Seq(Nodes) /\ len[l] = Len(s) /\ Len(s) \in Nat /\ Distinct(s)
      /\ Chain(s, head[l], tail[l], len[l], prev, next)
      /\ \A j \in 1..Len(s) : s[j] \in Nodes /\ s[j] \in heap /\ s[j] # NoNode
  BY <1>1, ChainOf
<1>3. i \in 1..Len(s) + 1 /\ Len(s) # 0 /\ k \in Int
  BY <1>2
<1>4. Inserted(s, i, n, u)
  BY <1>2, <1>3, InsertAtInserted
<1>5. /\ n \notin heap /\ heap' = heap \cup {n}
      /\ order' = [order EXCEPT ![l] = u]
  BY DEF InsertNode, Allocate, ListTypeOK
<1>6. /\ prev' = [Through(prev, q, n) EXCEPT ![n] = p]
      /\ next' = [Through(next, p, n) EXCEPT ![n] = q]
      /\ tail' = IF after /\ tail[l] = s[k] THEN [tail EXCEPT ![l] = n] ELSE tail
      /\ head' = IF ~ after /\ head[l] = s[k] THEN [head EXCEPT ![l] = n] ELSE head
      /\ len' = [len EXCEPT ![l] = @ + 1]
      /\ prev \in [Nodes -> NodeOrNull] /\ next \in [Nodes -> NodeOrNull]
      /\ head \in [Lists -> NodeOrNull] /\ tail \in [Lists -> NodeOrNull]
      /\ len \in [Lists -> Nat]
  BY DEF InsertNode, ListTypeOK
<1> HIDE DEF u
<1>7. /\ prev[s[k]] = IF k = 1 THEN NoNode ELSE s[k - 1]
      /\ next[s[k]] = IF k = Len(s) THEN NoNode ELSE s[k + 1]
      /\ head[l] = s[k] <=> k = 1
      /\ tail[l] = s[k] <=> k = Len(s)
  <2>1. s \in Seq(Nodes) /\ Distinct(s) /\ k \in 1..Len(s) /\ Chain(s, head[l], tail[l], len[l], prev, next)
    BY <1>2
  <2> HIDE DEF s, p, q
  <2> QED BY ONLY <2>1, Neighbours
<1>8. /\ p = (IF i = 1 THEN NoNode ELSE s[i - 1])
      /\ q = (IF i = Len(s) + 1 THEN NoNode ELSE s[i])
      /\ p # n /\ q # n
      /\ p \in NodeOrNull /\ q \in NodeOrNull
      /\ (p = NoNode <=> i = 1) /\ (q = NoNode <=> i = Len(s) + 1)
  <2>1. /\ p = (IF i = 1 THEN NoNode ELSE s[i - 1])
        /\ q = (IF i = Len(s) + 1 THEN NoNode ELSE s[i])
    <3>1. CASE after
      <4>1. (k + 1) - 1 = k /\ k + 1 # 1 /\ (k + 1 = Len(s) + 1 <=> k = Len(s))
        BY <1>3, <1>2
      <4> QED BY <3>1, <4>1, <1>7
    <3>2. CASE ~ after
      <4>1. k # Len(s) + 1
        BY <1>2
      <4> QED BY <3>2, <4>1, <1>7
    <3> QED BY <3>1, <3>2
  <2>2. (i # 1 => i - 1 \in 1..Len(s)) /\ (i # Len(s) + 1 => i \in 1..Len(s))
    BY <1>2, <1>3
  <2>3. n # NoNode
    BY ListAssumption
  <2> HIDE DEF p, q
  <2> QED BY <2>1, <2>2, <2>3, <1>2, <1>5 DEF NodeOrNull
<1>9. /\ after => (i = Len(s) + 1 <=> k = Len(s)) /\ i # 1
      /\ ~ after => (i = 1 <=> k = 1) /\ i # Len(s) + 1
  BY <1>2, <1>3
<1> HIDE DEF p, q
<1>10. /\ prev'[n] = p /\ next'[n] = q
       /\ \A x \in Nodes : x # n => /\ prev'[x] = (IF q # NoNode /\ x = q THEN n ELSE prev[x])
                                    /\ next'[x] = (IF p # NoNode /\ x = p THEN n ELSE next[x])
  BY <1>6, <1>8 DEF Through, NodeOrNull
<1>11. /\ head'[l] = (IF i = 1 THEN n ELSE head[l])
       /\ tail'[l] = (IF i = Len(s) + 1 THEN n ELSE tail[l])
       /\ len'[l] = len[l] + 1
       /\ \A o \in Lists : o # l => head'[o] = head[o] /\ tail'[o] = tail[o] /\ len'[o] = len[o]
  BY <1>6, <1>7, <1>9
<1> HIDE DEF s
<1>12. /\ prev'[n] = (IF i = 1 THEN NoNode ELSE s[i - 1])
       /\ next'[n] = (IF i = Len(s) + 1 THEN NoNode ELSE s[i])
       /\ \A x \in Nodes : x # n =>
           /\ prev'[x] = (IF i # Len(s) + 1 /\ x = s[i] THEN n ELSE prev[x])
           /\ next'[x] = (IF i # 1 /\ x = s[i - 1] THEN n ELSE next[x])
  BY <1>8, <1>10
<1> QED BY <1>1, <1>3, <1>4, <1>5, <1>11, <1>12, Inserting DEF s, u

-----------------------------------------------------------------------------
(* Emptying, rotating and joining.                                         *)

\* listEmpty begins to walk, of a list or of the copy of a listDup that fails.
LEMMA EmptyingBegun ==
  ASSUME ListTypeOK, LinkInv, call.kind # "empty", NEW l \in Lists, EmptyFrom(l),
         UNCHANGED <<nodes, ends, order>>
  PROVE  LinkInv'
<1>1. /\ prev' = prev /\ next' = next /\ heap' = heap /\ order' = order
      /\ head' = head /\ tail' = tail /\ len' = len
  BY DEF nodes, ends
<1>2. call'.kind = "empty" /\ call'.list = l /\ call'.at = head[l] /\ call'.left = len[l]
  BY DEF EmptyFrom, NoCall
<1>3. \A o \in Lists : ~ Emptying(o) /\ (Emptying(o)' <=> o = l)
  BY <1>2 DEF Emptying
<1>4. \A o \in Lists : Chain(order[o], head[o], tail[o], len[o], prev, next)
  BY <1>3 DEF LinkInv
<1>5. Half(l)'
  BY <1>1, <1>2, <1>4 DEF Half, Chain
<1>6. Apart(heap', order')
  BY <1>1 DEF LinkInv
<1>7. \A o \in Lists : o # l => Chain(order'[o], head'[o], tail'[o], len'[o], prev', next')
  BY <1>1, <1>4
<1> QED BY <1>3, <1>5, <1>6, <1>7 DEF LinkInv

LEMMA EmptyingGoesOn ==
  ASSUME ListTypeOK, LinkInv, call.list \in Lists, EmptyNext
  PROVE  /\ LinkInv'
         /\ order[call.list] # <<>> /\ call.at = order[call.list][1]
         /\ Removed(order[call.list], 1, Tail(order[call.list]))
<1> PICK l \in Lists : l = call.list
  OBVIOUS
<1> DEFINE s == order[l]
           u == Tail(s)
           n == call.at
<1>1. Emptying(l) /\ call.left # 0 /\ Half(l)
  BY DEF EmptyNext, Emptying, LinkInv
<1>2. s \in Seq(Nodes) /\ Distinct(s) /\ (\A x \in ToSet(s) : x \in heap) /\ heap \subseteq Nodes
  BY DEF ListTypeOK, LinkInv, Apart
<1>3. /\ call.left = Len(s)
      /\ s # <<>> => n = s[1] /\ tail[l] = s[Len(s)] /\ next[s[Len(s)]] = NoNode
      /\ \A k \in 1..Len(s) - 1 : next[s[k]] = s[k + 1] /\ prev[s[k + 1]] = s[k]
  BY <1>1 DEF Half, Links
<1>4. /\ Len(s) \in Nat \ {0} /\ s # <<>>
      /\ \A k \in 1..Len(s) : s[k] \in Nodes /\ s[k] \in ToSet(s)
  BY <1>1, <1>2, <1>3, InList
<1>5. Removed(s, 1, u)
  BY <1>2, <1>4, TailRemoved
<1>6. ToSet(u) = ToSet(s) \ {s[1]} /\ Distinct(u)
  <2>1. 1 \in 1..Len(s)
    BY <1>4
  <2> HIDE DEF u, s
  <2> QED BY <1>2, <2>1, <1>5, RemovedIs
<1>7. /\ u \in Seq(Nodes) /\ Len(u) = Len(s) - 1 /\ Len(u) \in Nat
      /\ (u # <<>> <=> Len(u) # 0)
      /\ \A k \in 1..Len(u) : u[k] = s[k + 1]
  <2> HIDE DEF u, s
  <2>1. u \in Seq(Nodes) /\ Len(u) = Len(s) - 1 /\ \A k \in 1..Len(u) : u[k] = IF k < 1 THEN s[k] ELSE s[k + 1]
    BY <1>5 DEF Removed
  <2> QED BY <1>4, <2>1, InList
<1>8. /\ prev' = Cleared(prev, n) /\ next' = Cleared(next, n) /\ heap' = heap \ {n}
      /\ head' = head /\ tail' = tail /\ len' = len
      /\ call'.kind = "empty" /\ call'.list = l /\ call'.at = next[n] /\ call'.left = call.left - 1
  BY DEF EmptyNext, ends, ListTypeOK
<1>9. order' = [order EXCEPT ![l] = u] /\ prev \in [Nodes -> NodeOrNull] /\ next \in [Nodes -> NodeOrNull]
      /\ order \in [Lists -> Seq(Nodes)]
  BY DEF EmptyNext, ListTypeOK
<1> HIDE DEF u, s, n
<1>10. \A x \in Nodes : x # n => prev'[x] = prev[x] /\ next'[x] = next[x]
  BY <1>8, <1>9 DEF Cleared
<1>11. \A o \in Lists : order'[o] = IF o = l THEN u ELSE order[o]
  BY <1>9
<1>12. \A o \in Lists : (Emptying(o) <=> o = l) /\ (Emptying(o)' <=> o = l)
  BY <1>1, <1>8 DEF Emptying
<1>13. Half(l)'
  <2>1. \A k \in 1..Len(u) : u[k] \in Nodes /\ u[k] # n
    <3> TAKE k \in 1..Len(u)
    <3>1. k + 1 \in 1..Len(s) /\ 1 \in 1..Len(s) /\ k + 1 # 1 /\ u[k] = s[k + 1]
      BY <1>7, <1>4
    <3> QED BY <3>1, <1>2, <1>3, <1>4 DEF Distinct
  <2>2. u # <<>> => call'.at = u[1] /\ tail'[l] = u[Len(u)] /\ next'[u[Len(u)]] = NoNode
    <3> SUFFICES ASSUME u # <<>> PROVE call'.at = u[1] /\ tail'[l] = u[Len(u)] /\ next'[u[Len(u)]] = NoNode
      OBVIOUS
    <3>1. /\ 1 \in 1..Len(u) /\ Len(u) \in 1..Len(u) /\ u[1] = s[1 + 1] /\ u[Len(u)] = s[Len(u) + 1]
          /\ Len(u) + 1 = Len(s) /\ 1 \in 1..Len(s) - 1
      BY <1>7, <1>4
    <3> QED BY <3>1, <2>1, <1>3, <1>4, <1>8, <1>10
  <2>3. ASSUME NEW k \in 1..Len(u) - 1
        PROVE  next'[u[k]] = u[k + 1] /\ prev'[u[k + 1]] = u[k]
    <3>1. /\ k \in 1..Len(u) /\ k + 1 \in 1..Len(u) /\ u[k] = s[k + 1] /\ u[k + 1] = s[(k + 1) + 1]
          /\ k + 1 \in 1..Len(s) - 1
      BY <1>7, <1>4
    <3>2. next[s[k + 1]] = s[(k + 1) + 1] /\ prev[s[(k + 1) + 1]] = s[k + 1]
      BY <3>1, <1>3
    <3>3. /\ next'[u[k]] = next[u[k]] /\ prev'[u[k + 1]] = prev[u[k + 1]]
      BY <3>1, <2>1, <1>10
    <3> QED BY <3>1, <3>2, <3>3
  <2>4. Links(u, prev', next')
    BY <2>3 DEF Links
  <2>5. order'[l] = u /\ call'.left = Len(u)
    BY <1>3, <1>7, <1>8, <1>11
  <2> QED BY <2>2, <2>4, <2>5, <1>8 DEF Half
<1>14. ASSUME NEW o \in Lists, o # l
       PROVE  Chain(order'[o], head'[o], tail'[o], len'[o], prev', next')
  <2> DEFINE r == order[o]
  <2>1. r \in Seq(Nodes) /\ Chain(r, head[o], tail[o], len[o], prev, next)
    BY <1>9, <1>12, <1>14 DEF LinkInv
  <2>2. \A k \in 1..Len(r) : r[k] \in Nodes /\ r[k] \in ToSet(r)
    BY <2>1, InList
  <2>3. n \notin ToSet(r)
    <3>1. n \in ToSet(order[l])
      BY <1>3, <1>4 DEF s
    <3> QED BY <3>1, <1>14 DEF LinkInv, Apart
  <2>4. \A k \in 1..Len(r) : prev'[r[k]] = prev[r[k]] /\ next'[r[k]] = next[r[k]]
    BY <2>2, <2>3, <1>10
  <2>5. order'[o] = r
    BY <1>11, <1>14
  <2> HIDE DEF r
  <2>6. Chain(r, head[o], tail[o], len[o], prev', next')
    BY <2>1, <2>4, FramedChain
  <2> QED BY <2>5, <2>6, <1>8
<1>15. Apart(heap', order')
  <2>1. /\ heap = UNION {ToSet(order[o]) : o \in Lists}
        /\ \A o \in Lists : Distinct(order[o])
        /\ \A o, r \in Lists : o # r => \A x \in ToSet(order[o]) : x \notin ToSet(order[r])
    BY DEF LinkInv, Apart
  <2>2. s = order[l] /\ n = s[1] /\ n \in ToSet(s)
    BY <1>3, <1>4 DEF s
  <2>3. \A o \in Lists : ToSet(order'[o]) = ToSet(order[o]) \ {n}
    <3> TAKE o \in Lists
    <3>1. CASE o = l
      BY <3>1, <2>2, <1>6, <1>11
    <3>2. CASE o # l
      BY <3>2, <2>1, <2>2, <1>11
    <3> QED BY <3>1, <3>2
  <2>4. heap' = UNION {ToSet(order'[o]) : o \in Lists}
    <3>1. \A x : x \in heap <=> \E o \in Lists : x \in ToSet(order[o])
      BY <2>1
    <3>2. \A x : x \in heap' <=> x \in heap /\ x # n
      BY <1>8
    <3>3. \A x : x \in heap' <=> \E o \in Lists : x \in ToSet(order'[o])
      BY <3>1, <3>2, <2>3
    <3> QED BY <3>3
  <2>5. \A o \in Lists : Distinct(order'[o])
    BY <2>1, <1>6, <1>11
  <2>6. \A o, r \in Lists : o # r => \A x \in ToSet(order'[o]) : x \notin ToSet(order'[r])
    BY <2>1, <2>3
  <2> QED BY <2>4, <2>5, <2>6 DEF Apart
<1>16. LinkInv'
  BY <1>12, <1>13, <1>14, <1>15 DEF LinkInv
<1> QED BY <1>3, <1>4, <1>5, <1>16 DEF s, u, n

LEMMA EmptyingEnds ==
  ASSUME ListTypeOK, LinkInv, call.list \in Lists, EmptyEnds
  PROVE  LinkInv'
<1> PICK l \in Lists : l = call.list
  OBVIOUS
<1>1. Emptying(l) /\ call.left = 0 /\ Half(l) /\ call'.kind = "none"
  BY DEF EmptyEnds, Emptying, LinkInv, NoCall
<1>2. order[l] \in Seq(Nodes) /\ Len(order[l]) = 0
  BY <1>1 DEF Half, ListTypeOK
<1>3. order[l] = <<>>
  BY <1>2, InList
<1>4. /\ prev' = prev /\ next' = next /\ heap' = heap /\ order' = order
      /\ head'[l] = NoNode /\ tail'[l] = NoNode /\ len'[l] = 0
      /\ \A o \in Lists : o # l => head'[o] = head[o] /\ tail'[o] = tail[o] /\ len'[o] = len[o]
  BY DEF EmptyEnds, nodes, ListTypeOK
<1>5. \A o \in Lists : (Emptying(o) <=> o = l) /\ ~ Emptying(o)'
  BY <1>1 DEF Emptying
<1>6. Chain(order'[l], head'[l], tail'[l], len'[l], prev', next')
  BY <1>2, <1>3, <1>4 DEF Chain, Links
<1>7. \A o \in Lists : Chain(order'[o], head'[o], tail'[o], len'[o], prev', next')
  BY <1>4, <1>5, <1>6 DEF LinkInv
<1>8. Apart(heap', order')
  BY <1>4 DEF LinkInv
<1> QED BY <1>5, <1>7, <1>8 DEF LinkInv

LEMMA RotatedList ==
  ASSUME ListTypeOK, LinkInv, NEW l \in Lists, Rotate(l)
  PROVE  LinkInv'
<1> DEFINE s == order[l]
           u == <<Last(s)>> \o Front(s)
<1>1. call.kind = "none" /\ call' = call /\ ~ Emptying(l)
  BY DEF Rotate, Quiet, Emptying
<1>2. /\ s \in Seq(Nodes) /\ len[l] = Len(s) /\ Len(s) \in Nat /\ Distinct(s)
      /\ Chain(s, head[l], tail[l], len[l], prev, next)
      /\ \A j \in 1..Len(s) : s[j] \in Nodes /\ s[j] \in ToSet(s) /\ s[j] \in heap /\ s[j] # NoNode
      /\ \A x \in ToSet(s) : x \in heap
  BY <1>1, ChainOf
<1>3. Len(s) > 1 /\ Len(s) \in 1..Len(s) /\ 1 \in 1..Len(s) /\ Len(s) - 1 \in 1..Len(s) /\ Len(s) # 1
  BY <1>2 DEF Rotate
<1>4. Rotated(s, u) /\ u \in Seq(Nodes)
  <2> HIDE DEF u
  <2> SUFFICES Rotated(s, u)
    BY DEF Rotated
  <2> QED
    BY <1>2, <1>3, RotatedOrder DEF u
<1>5. tail[l] = s[Len(s)] /\ head[l] = s[1] /\ prev[s[Len(s)]] = s[Len(s) - 1]
  <2> HIDE DEF s
  <2>1. /\ tail[l] = s[Len(s)] /\ head[l] = s[1]
        /\ \A k \in 1..Len(s) : prev[s[k]] = IF k = 1 THEN NoNode ELSE s[k - 1]
    BY <1>2, <1>3, Neighbours
  <2> QED BY <1>3, <2>1
<1>6. /\ tail' = [tail EXCEPT ![l] = prev[tail[l]]]
      /\ next' = [next EXCEPT ![prev[tail[l]]] = NoNode, ![tail[l]] = head[l]]
      /\ prev' = [prev EXCEPT ![head[l]] = tail[l], ![tail[l]] = NoNode]
      /\ head' = [head EXCEPT ![l] = tail[l]]
      /\ len' = len /\ heap' = heap
      /\ prev \in [Nodes -> NodeOrNull] /\ next \in [Nodes -> NodeOrNull]
      /\ head \in [Lists -> NodeOrNull] /\ tail \in [Lists -> NodeOrNull]
  BY DEF Rotate, ListTypeOK
<1>7. order' = [order EXCEPT ![l] = u]
  BY DEF Rotate, ListTypeOK
<1> HIDE DEF u
<1>8. /\ head'[l] = s[Len(s)] /\ tail'[l] = s[Len(s) - 1] /\ len'[l] = len[l]
      /\ \A o \in Lists : o # l => head'[o] = head[o] /\ tail'[o] = tail[o] /\ len'[o] = len[o]
  BY <1>5, <1>6
<1> HIDE DEF s
<1>9. \A x \in Nodes :
         /\ prev'[x] = IF x = s[Len(s)] THEN NoNode ELSE IF x = s[1] THEN s[Len(s)] ELSE prev[x]
         /\ next'[x] = IF x = s[Len(s)] THEN s[1] ELSE IF x = s[Len(s) - 1] THEN NoNode ELSE next[x]
  <2>1. s[Len(s)] \in Nodes /\ s[1] \in Nodes /\ s[Len(s) - 1] \in Nodes
    BY <1>2, <1>3
  <2> QED BY <2>1, <1>5, <1>6
<1>10. \A k \in 1..Len(s) :
         /\ s[k] = s[Len(s)] <=> k = Len(s)
         /\ s[k] = s[1] <=> k = 1
         /\ s[k] = s[Len(s) - 1] <=> k = Len(s) - 1
  BY <1>2, <1>3 DEF Distinct
<1>11. \A k \in 1..Len(s) :
         /\ prev'[s[k]] = IF k = Len(s) THEN NoNode ELSE IF k = 1 THEN s[Len(s)] ELSE prev[s[k]]
         /\ next'[s[k]] = IF k = Len(s) THEN s[1] ELSE IF k = Len(s) - 1 THEN NoNode ELSE next[s[k]]
  BY <1>2, <1>9, <1>10
<1>15. Turned(s, prev, next, prev', next')
  BY <1>11 DEF Turned
<1>12. Chain(u, head'[l], tail'[l], len[l], prev', next') /\ ToSet(u) = ToSet(s) /\ Distinct(u)
  BY ONLY <1>2, <1>3, <1>4, <1>8, <1>15, RotatedChain
<1>13. /\ \A x \in heap : x \notin ToSet(order[l]) => prev'[x] = prev[x] /\ next'[x] = next[x]
       /\ \A x \in ToSet(u) : x \in ToSet(order[l]) \/ x \notin heap
       /\ \A x : x \in heap' <=> x \in ToSet(u) \/ (x \in heap /\ x \notin ToSet(order[l]))
  <2>1. s = order[l] /\ heap \subseteq Nodes
    BY DEF s, ListTypeOK
  <2>2. \A x \in heap : x \notin ToSet(s) => prev'[x] = prev[x] /\ next'[x] = next[x]
    BY <2>1, <1>2, <1>3, <1>9
  <2> QED BY <2>1, <2>2, <1>2, <1>6, <1>12
<1>14. Chain(u, head'[l], tail'[l], len'[l], prev', next')
  BY <1>8, <1>12
<1> QED BY <1>1, <1>4, <1>7, <1>8, <1>12, <1>13, <1>14, OneChanges

\* listJoin.
LEMMA JoinedLists ==
  ASSUME JoinHeeded, ListTypeOK, LinkInv, NEW l \in Lists, NEW o \in Lists, Join(l, o)
  PROVE  LinkInv' /\ order[l] \o order[o] \in Seq(Nodes)
<1> DEFINE s == order[l]
           r == order[o]
           u == s \o r
<1>1. call.kind = "none" /\ call' = call /\ l # o /\ \A g \in Lists : ~ Emptying(g) /\ ~ Emptying(g)'
  BY DEF Join, MayJoin, Quiet, Emptying
<1>2. /\ s \in Seq(Nodes) /\ len[l] = Len(s) /\ Len(s) \in Nat /\ Distinct(s)
      /\ Chain(s, head[l], tail[l], len[l], prev, next)
      /\ \A k \in 1..Len(s) : s[k] \in Nodes /\ s[k] \in ToSet(s)
      /\ Len(s) = 0 => tail[l] = NoNode
      /\ Len(s) # 0 => tail[l] = s[Len(s)] /\ Len(s) \in 1..Len(s) /\ tail[l] # NoNode
  BY <1>1, ChainOf
<1>3. /\ r \in Seq(Nodes) /\ len[o] = Len(r) /\ Len(r) \in Nat /\ Distinct(r)
      /\ Chain(r, head[o], tail[o], len[o], prev, next)
      /\ \A k \in 1..Len(r) : r[k] \in Nodes /\ r[k] \in ToSet(r)
      /\ Len(r) # 0 /\ head[o] = r[1] /\ 1 \in 1..Len(r) /\ head[o] # NoNode
  BY <1>1, ChainOf DEF Join, MayJoin
<1>4. /\ heap = UNION {ToSet(order[g]) : g \in Lists}
      /\ \A g \in Lists : Distinct(order[g])
      /\ \A g, f \in Lists : g # f => \A x \in ToSet(order[g]) : x \notin ToSet(order[f])
  BY DEF LinkInv, Apart
<1>5. \A x \in ToSet(s) : x \notin ToSet(r)
  BY <1>1, <1>4
<1>6. /\ prev' = Through(prev, head[o], tail[l])
      /\ next' = Through(next, tail[l], head[o])
      /\ head' = [head EXCEPT ![l] = IF tail[l] = NoNode THEN head[o] ELSE @, ![o] = NoNode]
      /\ tail' = [tail EXCEPT ![l] = tail[o], ![o] = NoNode]
      /\ len' = [len EXCEPT ![l] = @ + len[o], ![o] = 0]
      /\ heap' = heap
      /\ prev \in [Nodes -> NodeOrNull] /\ next \in [Nodes -> NodeOrNull]
      /\ head \in [Lists -> NodeOrNull] /\ tail \in [Lists -> NodeOrNull] /\ len \in [Lists -> Nat]
  BY DEF Join, ListTypeOK
<1>7. order' = [order EXCEPT ![l] = u, ![o] = <<>>] /\ order \in [Lists -> Seq(Nodes)]
  BY DEF Join, ListTypeOK
<1>8. \A x \in Nodes : /\ prev'[x] = IF x = r[1] THEN tail[l] ELSE prev[x]
                       /\ next'[x] = IF Len(s) # 0 /\ x = s[Len(s)] THEN r[1] ELSE next[x]
  BY <1>2, <1>3, <1>6 DEF Through
<1>9. /\ head'[l] = (IF tail[l] = NoNode THEN head[o] ELSE head[l]) /\ head'[o] = NoNode
      /\ tail'[l] = tail[o] /\ tail'[o] = NoNode
      /\ len'[l] = len[l] + len[o] /\ len'[o] = 0
      /\ \A g \in Lists : g # l /\ g # o => head'[g] = head[g] /\ tail'[g] = tail[g] /\ len'[g] = len[g]
  BY <1>1, <1>6
<1>10. order'[l] = u /\ order'[o] = <<>> /\ \A g \in Lists : g # l /\ g # o => order'[g] = order[g]
  <2> HIDE DEF u
  <2> QED BY <1>1, <1>7
<1> HIDE DEF s, r, u
<1>11. Bridged(s, r, tail[l], head[o], prev, next, prev', next')
  <2>1. \A k \in 1..Len(s) : prev'[s[k]] = prev[s[k]] /\ next'[s[k]] = IF k = Len(s) THEN head[o] ELSE next[s[k]]
    <3> TAKE k \in 1..Len(s)
    <3>1. s[k] \in Nodes /\ s[k] # r[1] /\ Len(s) # 0 /\ (s[k] = s[Len(s)] <=> k = Len(s))
      BY <1>2, <1>3, <1>5 DEF Distinct
    <3> QED BY <3>1, <1>3, <1>8
  <2>2. \A k \in 1..Len(r) : next'[r[k]] = next[r[k]] /\ prev'[r[k]] = IF k = 1 THEN tail[l] ELSE prev[r[k]]
    <3> TAKE k \in 1..Len(r)
    <3>1. r[k] \in Nodes /\ (r[k] = r[1] <=> k = 1)
      BY <1>3 DEF Distinct
    <3>2. Len(s) # 0 => r[k] # s[Len(s)]
      BY <1>2, <1>3, <1>5
    <3> QED BY <3>1, <3>2, <1>8
  <2> QED BY <2>1, <2>2 DEF Bridged
<1>12. /\ Chain(u, head'[l], tail'[l], len'[l], prev', next')
       /\ ToSet(u) = ToSet(s) \cup ToSet(r) /\ Distinct(u) /\ u \in Seq(Nodes)
  <2>1. /\ Chain(s \o r, head'[l], tail[o], len'[l], prev', next')
        /\ ToSet(s \o r) = ToSet(s) \cup ToSet(r) /\ Distinct(s \o r) /\ s \o r \in Seq(Nodes)
    BY ONLY <1>2, <1>3, <1>5, <1>9, <1>11, JoinedChain
  <2> QED BY <2>1, <1>9 DEF u
<1>13. ASSUME NEW g \in Lists
       PROVE  Chain(order'[g], head'[g], tail'[g], len'[g], prev', next') /\ Distinct(order'[g])
  <2>1. CASE g = l
    BY <2>1, <1>10, <1>12
  <2>2. CASE g = o
    <3>1. <<>> \in Seq(Nodes) /\ Len(<<>>) = 0
      BY EmptySeq
    <3>2. Chain(<<>>, NoNode, NoNode, 0, prev', next') /\ Distinct(<<>>)
      BY <3>1 DEF Chain, Links, Distinct
    <3> QED BY <2>2, <3>2, <1>9, <1>10
  <2>3. CASE g # l /\ g # o
    <3> DEFINE w == order[g]
    <3>1. w \in Seq(Nodes) /\ Chain(w, head[g], tail[g], len[g], prev, next) /\ Distinct(w)
      BY <1>1, <1>4, <1>7 DEF LinkInv
    <3>2. \A k \in 1..Len(w) : w[k] \in Nodes /\ w[k] \in ToSet(w)
      BY <3>1, InList
    <3>3. \A x \in ToSet(w) : x \notin ToSet(s) /\ x \notin ToSet(r)
      BY <2>3, <1>4 DEF s, r
    <3> HIDE DEF w
    <3>4. \A k \in 1..Len(w) : prev'[w[k]] = prev[w[k]] /\ next'[w[k]] = next[w[k]]
      BY <3>2, <3>3, <1>2, <1>3, <1>8
    <3>5. Chain(w, head[g], tail[g], len[g], prev', next')
      BY <3>1, <3>4, FramedChain
    <3>6. order'[g] = w
      BY <2>3, <1>10 DEF w
    <3> QED BY <2>3, <3>1, <3>5, <3>6, <1>9
  <2> QED BY <2>1, <2>2, <2>3
<1>14. ToSet(<<>>) = {}
  <2> DEFINE w == <<>>
  <2>1. w \in Seq(Nodes) /\ Len(w) = 0
    BY EmptySeq
  <2> HIDE DEF w
  <2>2. ToSet(w) = {w[k] : k \in 1..0}
    BY <2>1, InList
  <2>3. ToSet(w) = {}
    BY <2>2
  <2> QED BY <2>3 DEF w
<1>15. Apart(heap', order')
  <2>1. /\ ToSet(order'[l]) = ToSet(order[l]) \cup ToSet(order[o]) /\ ToSet(order'[o]) = {}
        /\ \A g \in Lists : g # l /\ g # o => ToSet(order'[g]) = ToSet(order[g])
    BY <1>10, <1>12, <1>14 DEF s, r
  <2>2. heap' = UNION {ToSet(order'[g]) : g \in Lists}
    <3>1. \A x : (\E g \in Lists : x \in ToSet(order'[g])) <=> (\E g \in Lists : x \in ToSet(order[g]))
      BY <2>1
    <3>2. \A x : x \in heap' <=> \E g \in Lists : x \in ToSet(order[g])
      BY <1>4, <1>6
    <3> QED BY <3>1, <3>2
  <2>3. \A g, f \in Lists : g # f => \A x \in ToSet(order'[g]) : x \notin ToSet(order'[f])
    BY <2>1, <1>4
  <2> QED BY <2>2, <2>3, <1>13 DEF Apart
<1> QED BY <1>1, <1>12, <1>13, <1>15 DEF LinkInv, s, r, u

-----------------------------------------------------------------------------
(* The iterator.                                                           *)

Behind(forward, j, k) == IF forward THEN j < k ELSE k < j

\* What an iterator that returns x next has done with a list that is s: of the
\* nodes behind x it has returned all that were there all the time, of the
\* others none, and x is where the chain has it.
Progress(s, x, forward, seen, since) ==
  /\ seen \subseteq ToSet(s) /\ since \subseteq ToSet(s)
  /\ x = NoNode => since \subseteq seen
  /\ x # NoNode => \E k \in 1..Len(s) :
       /\ s[k] = x
       /\ \A j \in 1..Len(s) : IF Behind(forward, j, k) THEN s[j] \in since => s[j] \in seen
                                                        ELSE s[j] \notin seen

IterInv ==
  /\ ~ returned.twice
  /\ iter.list = NoNode => iter.next = NoNode
  /\ iter.list # NoNode =>
       Progress(order[iter.list], iter.next, iter.forward, returned.seen, returned.since)
  /\ iter.next # NoNode => iter.next # iter.current

Onward(forward, p, q, x) == IF forward THEN q[x] ELSE p[x]

LEMMA ProgressBegins ==
  ASSUME NEW s \in Seq(Nodes), Distinct(s), NEW h, NEW t, NEW m, NEW p, NEW q, Chain(s, h, t, m, p, q),
         NEW forward \in BOOLEAN, NEW x, x = (IF forward THEN h ELSE t)
  PROVE  Progress(s, x, forward, {}, ToSet(s))
<1>1. /\ Len(s) \in Nat /\ (s # <<>> <=> Len(s) # 0) /\ ToSet(s) = {s[k] : k \in 1..Len(s)}
      /\ \A k \in 1..Len(s) : s[k] # NoNode
  BY InList
<1>2. CASE Len(s) = 0
  <2>1. ToSet(s) = {} /\ x = NoNode
    BY <1>1, <1>2 DEF Chain
  <2> QED BY <2>1 DEF Progress
<1>3. CASE Len(s) # 0
  <2> DEFINE k == IF forward THEN 1 ELSE Len(s)
  <2>1. k \in 1..Len(s) /\ s[k] = x /\ x # NoNode
    BY <1>1, <1>3 DEF Chain
  <2>2. \A j \in 1..Len(s) : ~ Behind(forward, j, k)
    BY <1>1, <1>3 DEF Behind
  <2> HIDE DEF k
  <2> QED BY <2>1, <2>2 DEF Progress
<1> QED BY <1>2, <1>3

\* A step returns x, which was not returned before.
LEMMA ProgressGoesOn ==
  ASSUME NEW s \in Seq(Nodes), Distinct(s), NEW h, NEW t, NEW m, NEW p, NEW q, Chain(s, h, t, m, p, q),
         NEW forward \in BOOLEAN, NEW seen, NEW since, NEW x, x # NoNode,
         Progress(s, x, forward, seen, since),
         NEW y, y = Onward(forward, p, q, x), NEW seen2, seen2 = seen \cup {x}
  PROVE  /\ x \notin seen /\ x \in ToSet(s) /\ y # x
         /\ Progress(s, y, forward, seen2, since)
<1>1. /\ Len(s) \in Nat /\ ToSet(s) = {s[k] : k \in 1..Len(s)}
      /\ \A k \in 1..Len(s) : s[k] # NoNode
  BY InList
<1>2. PICK k \in 1..Len(s) :
        /\ s[k] = x
        /\ \A j \in 1..Len(s) : IF Behind(forward, j, k) THEN s[j] \in since => s[j] \in seen
                                                         ELSE s[j] \notin seen
  BY DEF Progress
<1>3. seen \subseteq ToSet(s) /\ since \subseteq ToSet(s)
  BY DEF Progress
<1>4. /\ p[s[k]] = IF k = 1 THEN NoNode ELSE s[k - 1]
      /\ q[s[k]] = IF k = Len(s) THEN NoNode ELSE s[k + 1]
  BY Neighbours
<1>5. x \notin seen /\ x \in ToSet(s)
  <2>1. ~ Behind(forward, k, k)
    BY <1>1 DEF Behind
  <2> QED BY <2>1, <1>1, <1>2
<1> DEFINE last == IF forward THEN Len(s) ELSE 1
           i    == IF forward THEN k + 1 ELSE k - 1
<1>6. y = (IF k = last THEN NoNode ELSE s[i]) /\ (k # last => i \in 1..Len(s) /\ i # k)
  BY <1>1, <1>2, <1>4 DEF Onward
<1>7. CASE k = last
  <2>1. \A j \in 1..Len(s) : Behind(forward, j, k) \/ j = k
    BY <1>1, <1>7 DEF Behind
  <2>2. \A j \in 1..Len(s) : s[j] \in since => s[j] \in seen \cup {x}
    BY <2>1, <1>2
  <2>3. since \subseteq seen \cup {x}
    BY <2>2, <1>1, <1>3
  <2>4. y = NoNode /\ y # x
    BY <1>6, <1>7
  <2> QED BY <2>3, <2>4, <1>3, <1>5 DEF Progress
<1>8. CASE k # last
  <2>1. y = s[i] /\ i \in 1..Len(s) /\ y # NoNode /\ y # x
    BY <1>1, <1>2, <1>6, <1>8 DEF Distinct
  <2>2. \A j \in 1..Len(s) : Behind(forward, j, i) <=> Behind(forward, j, k) \/ j = k
    BY <1>1, <1>2, <1>8 DEF Behind
  <2> HIDE DEF i, last
  <2>3. \A j \in 1..Len(s) : s[j] = x => j = k
    BY <1>2 DEF Distinct
  <2>4. \A j \in 1..Len(s) : IF Behind(forward, j, i) THEN s[j] \in since => s[j] \in seen \cup {x}
                                                      ELSE s[j] \notin seen \cup {x}
    BY <2>2, <2>3, <1>2
  <2> QED BY <2>1, <2>4, <1>3, <1>5 DEF Progress
<1> QED BY <1>5, <1>7, <1>8

\* An added node is neither in seen nor in since ...
LEMMA ProgressInserted ==
  ASSUME NEW s \in Seq(Nodes), NEW n \in Nodes, n \notin ToSet(s), NEW i \in 1..Len(s) + 1,
         NEW u, Inserted(s, i, n, u),
         NEW forward \in BOOLEAN, NEW seen, NEW since, NEW x, Progress(s, x, forward, seen, since)
  PROVE  Progress(u, x, forward, seen, since)
<1>1. Len(s) \in Nat /\ Len(u) = Len(s) + 1 /\ i \in Int
  BY InList DEF Inserted
<1>2. ToSet(u) = ToSet(s) \cup {n}
  BY InsertedIs
<1>3. seen \subseteq ToSet(s) /\ since \subseteq ToSet(s) /\ n \notin seen /\ n \notin since
  BY DEF Progress
<1>4. SUFFICES ASSUME x # NoNode
               PROVE  \E k \in 1..Len(u) :
                        /\ u[k] = x
                        /\ \A j \in 1..Len(u) : IF Behind(forward, j, k) THEN u[j] \in since => u[j] \in seen
                                                                         ELSE u[j] \notin seen
  BY <1>2, <1>3 DEF Progress
<1>5. PICK k \in 1..Len(s) :
        /\ s[k] = x
        /\ \A j \in 1..Len(s) : IF Behind(forward, j, k) THEN s[j] \in since => s[j] \in seen
                                                         ELSE s[j] \notin seen
  BY <1>4 DEF Progress
<1> DEFINE c == IF k < i THEN k ELSE k + 1
<1>6. c \in 1..Len(u) /\ u[c] = s[k]
  <2>1. c \in 1..Len(u)
    BY <1>1
  <2>2. (k < i => u[k] = s[k]) /\ (k >= i => u[k + 1] = s[k])
    BY InsertedAt
  <2>3. k < i \/ k >= i
    BY <1>1
  <2> QED BY <2>1, <2>2, <2>3, <1>1
<1>7. ASSUME NEW j \in 1..Len(u)
      PROVE  IF Behind(forward, j, c) THEN u[j] \in since => u[j] \in seen ELSE u[j] \notin seen
  <2> DEFINE d == IF j < i THEN j ELSE j - 1
  <2>1. CASE j = i
    <3>1. u[j] = n
      BY <2>1 DEF Inserted
    <3> QED BY <3>1, <1>3
  <2>2. CASE j # i
    <3>1. u[j] = s[d] /\ d \in 1..Len(s)
      BY <2>2, <1>1 DEF Inserted
    <3>2. Behind(forward, j, c) <=> Behind(forward, d, k)
      BY <2>2, <1>1 DEF Behind
    <3> HIDE DEF c, d
    <3> QED BY <3>1, <3>2, <1>5
  <2> QED BY <2>1, <2>2
<1> HIDE DEF c
<1> QED BY <1>5, <1>6, <1>7

\* ... and a node that goes, which the iterator does not return next, leaves both.
LEMMA ProgressRemoved ==
  ASSUME NEW s \in Seq(Nodes), Distinct(s), NEW i \in 1..Len(s), NEW u, Removed(s, i, u),
         NEW forward \in BOOLEAN, NEW seen, NEW since, NEW x, Progress(s, x, forward, seen, since),
         NEW n, n = s[i], x # n, NEW seen2, seen2 = seen \ {n}, NEW since2, since2 = since \ {n}
  PROVE  Progress(u, x, forward, seen2, since2)
<1>1. Len(s) \in Nat /\ Len(u) = Len(s) - 1 /\ i \in Int
  BY InList DEF Removed
<1>2. ToSet(u) = ToSet(s) \ {n}
  BY RemovedIs
<1>3. seen \subseteq ToSet(s) /\ since \subseteq ToSet(s) /\ (x = NoNode => since \subseteq seen)
  BY DEF Progress
<1>4. SUFFICES ASSUME x # NoNode
               PROVE  \E k \in 1..Len(u) :
                        /\ u[k] = x
                        /\ \A j \in 1..Len(u) :
                             IF Behind(forward, j, k) THEN u[j] \in since \ {n} => u[j] \in seen \ {n}
                                                      ELSE u[j] \notin seen \ {n}
  BY <1>2, <1>3 DEF Progress
<1>5. PICK k \in 1..Len(s) :
        /\ s[k] = x
        /\ \A j \in 1..Len(s) : IF Behind(forward, j, k) THEN s[j] \in since => s[j] \in seen
                                                         ELSE s[j] \notin seen
  BY <1>4 DEF Progress
<1> DEFINE c == IF k < i THEN k ELSE k - 1
<1>6. c \in 1..Len(u) /\ u[c] = s[k] /\ k # i
  <2>1. k # i
    BY <1>5
  <2>2. c \in 1..Len(u) /\ (c < i => c = k) /\ (~ (c < i) => c + 1 = k)
    BY <2>1, <1>1
  <2>3. u[c] = IF c < i THEN s[c] ELSE s[c + 1]
    BY <2>2 DEF Removed
  <2> QED BY <2>1, <2>2, <2>3
<1>7. ASSUME NEW j \in 1..Len(u)
      PROVE  IF Behind(forward, j, c) THEN u[j] \in since \ {n} => u[j] \in seen \ {n}
                                      ELSE u[j] \notin seen \ {n}
  <2> DEFINE d == IF j < i THEN j ELSE j + 1
  <2>1. u[j] = s[d] /\ d \in 1..Len(s)
    BY <1>1 DEF Removed
  <2>2. Behind(forward, j, c) <=> Behind(forward, d, k)
    BY <1>1, <1>6 DEF Behind
  <2> HIDE DEF c, d
  <2> QED BY <2>1, <2>2, <1>5
<1> HIDE DEF c
<1> QED BY <1>5, <1>6, <1>7

-----------------------------------------------------------------------------
(* The steps keep the types.                                               *)

NodesOK == /\ heap \subseteq Nodes
           /\ prev \in [Nodes -> NodeOrNull] /\ next \in [Nodes -> NodeOrNull]
           /\ value \in [Nodes -> Values \cup {NoNode}]
EndsOK  == head \in [Lists -> NodeOrNull] /\ tail \in [Lists -> NodeOrNull] /\ len \in [Lists -> Nat]
CallOK  == call \in [kind : {"none", "dup", "empty"}, list : ListOrNone, copy : ListOrNone,
                     at : NodeOrNull, left : Nat]
IterOK  == /\ iter \in [list : ListOrNone, next : NodeOrNull, forward : BOOLEAN, current : NodeOrNull]
           /\ returned \in [seen : SUBSET Nodes, since : SUBSET Nodes, twice : BOOLEAN]
OrderOK == order \in [Lists -> Seq(Nodes)]

LEMMA TypeParts == ListTypeOK <=> NodesOK /\ EndsOK /\ CallOK /\ IterOK /\ OrderOK
  BY DEF ListTypeOK, NodesOK, EndsOK, CallOK, IterOK, OrderOK

LEMMA OrderKept ==
  ASSUME OrderOK, NEW l \in Lists, NEW u \in Seq(Nodes), order' = [order EXCEPT ![l] = u]
  PROVE  OrderOK'
  BY DEF OrderOK

LEMMA AddedType ==
  ASSUME NodesOK, EndsOK, NEW l \in Lists, NEW n \in Nodes, NEW v \in Values \cup {NoNode},
         AddNodeToHead(l, n, v) \/ AddNodeToTail(l, n, v)
  PROVE  NodesOK' /\ EndsOK'
<1>1. head[l] \in NodeOrNull /\ tail[l] \in NodeOrNull /\ n \in NodeOrNull /\ NoNode \in NodeOrNull
  BY DEF EndsOK, NodeOrNull
<1>2. CASE AddNodeToHead(l, n, v)
  <2>1. heap' \subseteq Nodes /\ value' \in [Nodes -> Values \cup {NoNode}]
    BY <1>2 DEF AddNodeToHead, Allocate, NodesOK
  <2>2. prev' \in [Nodes -> NodeOrNull]
    BY <1>1, <1>2 DEF AddNodeToHead, NodesOK
  <2>3. next' \in [Nodes -> NodeOrNull]
    BY <1>1, <1>2 DEF AddNodeToHead, NodesOK
  <2>4. EndsOK'
    BY <1>1, <1>2 DEF AddNodeToHead, EndsOK
  <2> QED BY <2>1, <2>2, <2>3, <2>4 DEF NodesOK
<1>3. CASE AddNodeToTail(l, n, v)
  <2>1. heap' \subseteq Nodes /\ value' \in [Nodes -> Values \cup {NoNode}]
    BY <1>3 DEF AddNodeToTail, Allocate, NodesOK
  <2>2. prev' \in [Nodes -> NodeOrNull]
    BY <1>1, <1>3 DEF AddNodeToTail, NodesOK
  <2>3. next' \in [Nodes -> NodeOrNull]
    BY <1>1, <1>3 DEF AddNodeToTail, NodesOK
  <2>4. EndsOK'
    BY <1>1, <1>3 DEF AddNodeToTail, EndsOK
  <2> QED BY <2>1, <2>2, <2>3, <2>4 DEF NodesOK
<1> QED BY <1>2, <1>3

LEMMA InsertedType ==
  ASSUME NodesOK, EndsOK, OrderOK, NEW l \in Lists, NEW k \in 1..Len(order[l]), NEW n \in Nodes,
         NEW v \in Values, NEW after \in BOOLEAN, InsertNode(l, k, n, v, after)
  PROVE  NodesOK' /\ EndsOK'
<1> DEFINE old == order[l][k]
           p == IF after THEN old ELSE prev[old]
           q == IF after THEN next[old] ELSE old
<1>1. old \in Nodes
  BY InList DEF OrderOK
<1>2. p \in NodeOrNull /\ q \in NodeOrNull /\ n \in NodeOrNull
  BY <1>1 DEF NodesOK, NodeOrNull
<1>3. /\ prev' = [Through(prev, q, n) EXCEPT ![n] = p]
      /\ next' = [Through(next, p, n) EXCEPT ![n] = q]
      /\ heap' = heap \cup {n} /\ value' = [value EXCEPT ![n] = v]
      /\ tail' = IF after /\ tail[l] = old THEN [tail EXCEPT ![l] = n] ELSE tail
      /\ head' = IF ~ after /\ head[l] = old THEN [head EXCEPT ![l] = n] ELSE head
      /\ len' = [len EXCEPT ![l] = @ + 1]
  BY DEF InsertNode, Allocate
<1> HIDE DEF p, q, old
<1>4. NodesOK'
  BY <1>2, <1>3 DEF NodesOK, Through
<1>5. EndsOK'
  BY <1>2, <1>3 DEF EndsOK
<1> QED BY <1>4, <1>5

LEMMA RemovedType ==
  ASSUME NodesOK, EndsOK, OrderOK, IterOK, NEW l \in Lists, NEW k \in 1..Len(order[l]),
         DelNode(l, k), len[l] # 0, iter' = iter
  PROVE  NodesOK' /\ EndsOK' /\ OrderOK' /\ IterOK'
<1> DEFINE n == order[l][k]
<1>1. n \in Nodes /\ order[l] \in Seq(Nodes)
  BY InList DEF OrderOK
<1>2. prev[n] \in NodeOrNull /\ next[n] \in NodeOrNull /\ NoNode \in NodeOrNull
  BY <1>1 DEF NodesOK, NodeOrNull
<1>3. /\ prev' = Cleared(Through(prev, next[n], prev[n]), n)
      /\ next' = Cleared(Through(next, prev[n], next[n]), n)
      /\ head' = IF prev[n] = NoNode THEN [head EXCEPT ![l] = next[n]] ELSE head
      /\ tail' = IF next[n] = NoNode THEN [tail EXCEPT ![l] = prev[n]] ELSE tail
      /\ heap' = heap \ {n}
      /\ value' = Cleared(value, n)
      /\ len' = [len EXCEPT ![l] = @ - 1]
      /\ order' = [order EXCEPT ![l] = RemoveAt(@, k)]
      /\ returned' = [returned EXCEPT !.seen = @ \ {n}, !.since = @ \ {n}]
  BY DEF DelNode
<1> HIDE DEF n
<1>4. NodesOK'
  BY <1>1, <1>2, <1>3 DEF NodesOK, Through, Cleared
<1>5. EndsOK'
  BY <1>2, <1>3 DEF EndsOK
<1>6. OrderOK'
  <2>1. RemoveAt(order[l], k) \in Seq(Nodes)
    BY <1>1, RemoveAtRemoved DEF Removed
  <2> QED BY <2>1, <1>3, OrderKept DEF OrderOK
<1>7. IterOK'
  BY <1>3 DEF IterOK
<1> QED BY <1>4, <1>5, <1>6, <1>7

LEMMA EmptyFromType ==
  ASSUME EndsOK, NEW l \in Lists, EmptyFrom(l)
  PROVE  CallOK'
  BY DEF EndsOK, EmptyFrom, CallOK, NoCall, ListOrNone, NodeOrNull

LEMMA ListTypeNext ==
  ASSUME JoinHeeded, ListTypeOK, LinkInv, CallInv, [ListNext]_listVars
  PROVE  ListTypeOK'
<1> USE DEF NodesOK, EndsOK, CallOK, IterOK, OrderOK
<1>0. NodesOK /\ EndsOK /\ CallOK /\ IterOK /\ OrderOK
  BY TypeParts
<1> SUFFICES NodesOK' /\ EndsOK' /\ CallOK' /\ IterOK' /\ OrderOK'
  BY DEF ListTypeOK
<1> HIDE DEF NodesOK, EndsOK, CallOK, IterOK, OrderOK
<1>1. ASSUME NEW l \in Lists, NEW n \in Nodes, NEW v \in Values, AddHead(l, n, v)
      PROVE  NodesOK' /\ EndsOK' /\ CallOK' /\ IterOK' /\ OrderOK'
  <2>1. NodesOK' /\ EndsOK'
    BY <1>0, <1>1, AddedType DEF AddHead
  <2>2. call.kind = "none" /\ call' = call /\ iter' = iter /\ returned' = returned
    BY <1>1 DEF AddHead, Quiet
  <2>3. <<n>> \o order[l] \in Seq(Nodes)
    BY <1>0, FirstInserted DEF Inserted, OrderOK
  <2>4. OrderOK'
    BY <1>0, <1>1, <2>3, OrderKept DEF OrderOK, AddHead, AddNodeToHead
  <2> QED BY <1>0, <2>1, <2>2, <2>4 DEF CallOK, IterOK
<1>2. ASSUME NEW l \in Lists, NEW n \in Nodes, NEW v \in Values, AddTail(l, n, v)
      PROVE  NodesOK' /\ EndsOK' /\ CallOK' /\ IterOK' /\ OrderOK'
  <2>1. NodesOK' /\ EndsOK'
    BY <1>0, <1>2, AddedType DEF AddTail
  <2>2. call.kind = "none" /\ call' = call /\ iter' = iter /\ returned' = returned
    BY <1>2 DEF AddTail, Quiet
  <2>3. Append(order[l], n) \in Seq(Nodes)
    BY <1>0, LastInserted DEF Inserted, OrderOK
  <2>4. OrderOK'
    BY <1>0, <1>2, <2>3, OrderKept DEF OrderOK, AddTail, AddNodeToTail
  <2> QED BY <1>0, <2>1, <2>2, <2>4 DEF CallOK, IterOK
<1>3. ASSUME NEW l \in Lists, NEW n \in Nodes, NEW v \in Values, NEW after \in BOOLEAN,
             NEW k \in DOMAIN order[l], InsertNode(l, k, n, v, after)
      PROVE  NodesOK' /\ EndsOK' /\ CallOK' /\ IterOK' /\ OrderOK'
  <2>0. k \in 1..Len(order[l]) /\ order[l] \in Seq(Nodes)
    BY <1>0, InList DEF OrderOK
  <2>1. NodesOK' /\ EndsOK'
    BY <1>0, <1>3, <2>0, InsertedType
  <2>2. call' = call /\ iter' = iter /\ returned' = returned
    BY <1>3 DEF InsertNode
  <2> DEFINE i == IF after THEN k + 1 ELSE k
  <2>3. Inserted(order[l], i, n, InsertAt(order[l], i, n))
    BY <1>3, <2>0, InsertedNode
  <2>4. OrderOK'
    <3>1. InsertAt(order[l], i, n) \in Seq(Nodes)
      BY <2>3 DEF Inserted
    <3> QED BY <1>0, <1>3, <3>1, OrderKept DEF OrderOK, InsertNode
  <2> QED BY <1>0, <2>1, <2>2, <2>4 DEF CallOK, IterOK
<1>4. ASSUME NEW l \in Lists, NEW k \in DOMAIN order[l], DelNode(l, k), UNCHANGED <<call, iter>>, Quiet
      PROVE  NodesOK' /\ EndsOK' /\ CallOK' /\ IterOK' /\ OrderOK'
  <2>0. k \in 1..Len(order[l])
    BY <1>0, InList DEF OrderOK
  <2>1. len[l] # 0
    BY <1>4, <2>0, Removing DEF Quiet
  <2>2. NodesOK' /\ EndsOK' /\ OrderOK' /\ IterOK'
    BY <1>0, <1>4, <2>0, <2>1, RemovedType
  <2> QED BY <1>0, <1>4, <2>2 DEF CallOK
<1>5. ASSUME NEW l \in Lists, PopHead(l) \/ PopTail(l) \/ \E k \in DOMAIN order[l] : DeleteNode(l, k)
      PROVE  NodesOK' /\ EndsOK' /\ CallOK' /\ IterOK' /\ OrderOK'
  BY <1>4, <1>5 DEF PopHead, PopTail, DeleteNode
<1>6. ASSUME NEW l \in Lists, Rotate(l)
      PROVE  NodesOK' /\ EndsOK' /\ CallOK' /\ IterOK' /\ OrderOK'
  <2>1. /\ order[l] \in Seq(Nodes) /\ len[l] = Len(order[l]) /\ Len(order[l]) > 1
        /\ head[l] \in Nodes /\ tail[l] \in Nodes
    <3>1. ~ Emptying(l) /\ len[l] > 1
      BY <1>6 DEF Rotate, Quiet, Emptying
    <3> QED BY <3>1, ChainOf
  <2>2. prev[tail[l]] \in NodeOrNull /\ head[l] \in NodeOrNull /\ tail[l] \in NodeOrNull /\ NoNode \in NodeOrNull
    BY <1>0, <2>1 DEF NodesOK, NodeOrNull
  <2>3. NodesOK'
    BY <1>0, <1>6, <2>2 DEF NodesOK, Rotate
  <2>4. EndsOK'
    BY <1>0, <1>6, <2>2 DEF EndsOK, Rotate
  <2>5. <<Last(order[l])>> \o Front(order[l]) \in Seq(Nodes)
    BY <2>1, RotatedOrder DEF Rotated
  <2>6. OrderOK'
    BY <1>0, <1>6, <2>5, OrderKept DEF OrderOK, Rotate
  <2> QED BY <1>0, <1>6, <2>3, <2>4, <2>6 DEF CallOK, IterOK, Rotate
<1>7. ASSUME NEW l \in Lists, NEW o \in Lists, Join(l, o)
      PROVE  NodesOK' /\ EndsOK' /\ CallOK' /\ IterOK' /\ OrderOK'
  <2>1. /\ head[o] \in NodeOrNull /\ tail[o] \in NodeOrNull /\ tail[l] \in NodeOrNull /\ NoNode \in NodeOrNull
        /\ len[o] \in Nat /\ len[l] \in Nat
    BY <1>0 DEF EndsOK, NodeOrNull
  <2>2. NodesOK'
    BY <1>0, <1>7, <2>1 DEF NodesOK, Join, Through
  <2>3. EndsOK'
    <3>1. head' \in [Lists -> NodeOrNull]
      BY <1>0, <1>7, <2>1 DEF EndsOK, Join
    <3>2. tail' \in [Lists -> NodeOrNull]
      BY <1>0, <1>7, <2>1 DEF EndsOK, Join
    <3>3. len' \in [Lists -> Nat]
      <4>1. len' = [len EXCEPT ![l] = len[l] + len[o], ![o] = 0] /\ len[l] + len[o] \in Nat
        BY <1>7, <2>1 DEF Join
      <4> QED BY <1>0, <4>1 DEF EndsOK
    <3> QED BY <3>1, <3>2, <3>3 DEF EndsOK
  <2>4. order[l] \o order[o] \in Seq(Nodes)
    BY <1>7, JoinedLists
  <2>5. OrderOK'
    <3>1. order' = [order EXCEPT ![l] = order[l] \o order[o], ![o] = <<>>]
      BY <1>0, <1>7 DEF Join, OrderOK
    <3>2. <<>> \in Seq(Nodes)
      BY EmptySeq
    <3> QED BY <1>0, <2>4, <3>1, <3>2 DEF OrderOK
  <2> QED BY <1>0, <1>7, <2>2, <2>3, <2>5 DEF CallOK, IterOK, Join
<1>8. ASSUME NEW l \in Lists, EmptyBegins(l)
      PROVE  NodesOK' /\ EndsOK' /\ CallOK' /\ IterOK' /\ OrderOK'
  BY <1>0, <1>8, EmptyFromType DEF EmptyBegins, NodesOK, EndsOK, IterOK, OrderOK, nodes, ends
<1>9. ASSUME NEW l \in Lists, NEW c \in Lists, DupBegins(l, c)
      PROVE  NodesOK' /\ EndsOK' /\ CallOK' /\ IterOK' /\ OrderOK'
  <2>1. CallOK'
    BY <1>0, <1>9 DEF DupBegins, CallOK, EndsOK, NoCall, ListOrNone, NodeOrNull
  <2> QED BY <1>0, <1>9, <2>1 DEF DupBegins, NodesOK, EndsOK, IterOK, OrderOK, nodes, ends
<1>10. ASSUME NEW n \in Nodes, DupNext(n)
       PROVE  NodesOK' /\ EndsOK' /\ CallOK' /\ IterOK' /\ OrderOK'
  <2>1. call.copy \in Lists /\ call.at \in Nodes
    BY <1>0, <1>10 DEF CallOK, CallInv, DupNext, NodeOrNull
  <2>2. value[call.at] \in Values \cup {NoNode} /\ next[call.at] \in NodeOrNull
    BY <1>0, <2>1 DEF NodesOK
  <2>3. NodesOK' /\ EndsOK'
    BY <1>0, <1>10, <2>1, <2>2, AddedType DEF DupNext
  <2>4. Append(order[call.copy], n) \in Seq(Nodes)
    BY <1>0, <2>1, LastInserted DEF Inserted, OrderOK
  <2>5. OrderOK'
    BY <1>0, <1>10, <2>1, <2>4, OrderKept DEF OrderOK, DupNext, AddNodeToTail
  <2>6. CallOK'
    BY <1>0, <1>10, <2>2 DEF DupNext, CallOK
  <2> QED BY <1>0, <1>10, <2>3, <2>5, <2>6 DEF DupNext, IterOK
<1>11. ASSUME EmptyNext
       PROVE  NodesOK' /\ EndsOK' /\ CallOK' /\ IterOK' /\ OrderOK'
  <2>0. call.kind = "empty" /\ call.list \in Lists /\ call.left \in Nat /\ call.left # 0
    BY <1>0, <1>11 DEF EmptyNext, CallInv, CallOK
  <2>1. order[call.list] \in Seq(Nodes) /\ order[call.list] # <<>> /\ call.at = order[call.list][1]
        /\ Tail(order[call.list]) \in Seq(Nodes)
    BY <1>0, <1>11, <2>0, EmptyingGoesOn DEF OrderOK, Removed
  <2>2. call.at \in Nodes
    <3>1. Len(order[call.list]) # 0 /\ Len(order[call.list]) \in Nat
      BY <2>1, InList
    <3> QED BY <3>1, <2>1, InList
  <2>3. next[call.at] \in NodeOrNull /\ NoNode \in NodeOrNull /\ call.left - 1 \in Nat
    BY <1>0, <2>0, <2>2 DEF NodesOK, NodeOrNull
  <2>4. NodesOK'
    BY <1>0, <1>11, <2>3 DEF EmptyNext, NodesOK, Cleared
  <2>5. CallOK'
    BY <1>0, <1>11, <2>3 DEF EmptyNext, CallOK
  <2>6. OrderOK'
    BY <1>0, <1>11, <2>0, <2>1, OrderKept DEF EmptyNext, OrderOK
  <2> QED BY <1>0, <1>11, <2>4, <2>5, <2>6 DEF EmptyNext, EndsOK, IterOK, ends
<1>12. ASSUME EmptyEnds
       PROVE  NodesOK' /\ EndsOK' /\ CallOK' /\ IterOK' /\ OrderOK'
  <2>1. CallOK'
    BY <1>12 DEF EmptyEnds, CallOK, NoCall, ListOrNone, NodeOrNull
  <2>2. EndsOK'
    BY <1>0, <1>12 DEF EmptyEnds, EndsOK, NodeOrNull
  <2> QED BY <1>0, <1>12, <2>1, <2>2 DEF EmptyEnds, NodesOK, IterOK, OrderOK, nodes
<1>13. ASSUME DupFails
       PROVE  NodesOK' /\ EndsOK' /\ CallOK' /\ IterOK' /\ OrderOK'
  <2>1. call.copy \in Lists
    BY <1>13 DEF DupFails, CallInv
  <2> QED BY <1>0, <1>13, <2>1, EmptyFromType DEF DupFails, NodesOK, EndsOK, IterOK, OrderOK, nodes, ends
<1>14. ASSUME DupReturns
       PROVE  NodesOK' /\ EndsOK' /\ CallOK' /\ IterOK' /\ OrderOK'
  <2>1. CallOK'
    BY <1>14 DEF DupReturns, CallOK, NoCall, ListOrNone, NodeOrNull
  <2> QED BY <1>0, <1>14, <2>1 DEF DupReturns, NodesOK, EndsOK, IterOK, OrderOK, nodes, ends
<1>15. ASSUME NEW l \in Lists, NEW forward \in BOOLEAN, GetIterator(l, forward)
       PROVE  NodesOK' /\ EndsOK' /\ CallOK' /\ IterOK' /\ OrderOK'
  <2>1. head[l] \in NodeOrNull /\ tail[l] \in NodeOrNull /\ ToSet(order[l]) \subseteq Nodes
    <3>1. order[l] \in Seq(Nodes)
      BY <1>0 DEF OrderOK
    <3>2. ToSet(order[l]) \subseteq Nodes
      BY <3>1, InList
    <3> QED BY <1>0, <3>2 DEF EndsOK
  <2>2. IterOK'
    BY <1>15, <2>1 DEF GetIterator, IterOK, NothingReturned, ListOrNone, NodeOrNull
  <2> QED BY <1>0, <1>15, <2>2 DEF GetIterator, NodesOK, EndsOK, CallOK, OrderOK, nodes, ends
<1>16. ASSUME ListNextNode
       PROVE  NodesOK' /\ EndsOK' /\ CallOK' /\ IterOK' /\ OrderOK'
  <2>1. iter.next \in Nodes /\ next[iter.next] \in NodeOrNull /\ prev[iter.next] \in NodeOrNull
    BY <1>0, <1>16 DEF ListNextNode, IterOK, NodesOK, NodeOrNull
  <2>2. IterOK'
    <3>1. /\ iter' = [iter EXCEPT !.current = iter.next,
                                 !.next = IF iter.forward THEN next[iter.next] ELSE prev[iter.next]]
          /\ returned' = [returned EXCEPT !.seen = @ \cup {iter.next},
                                          !.twice = @ \/ iter.next \in returned.seen]
      BY <1>16 DEF ListNextNode
    <3>2. iter.next \in NodeOrNull /\ (IF iter.forward THEN next[iter.next] ELSE prev[iter.next]) \in NodeOrNull
      BY <2>1 DEF NodeOrNull
    <3>3. iter' \in [list : ListOrNone, next : NodeOrNull, forward : BOOLEAN, current : NodeOrNull]
      BY <1>0, <3>1, <3>2 DEF IterOK
    <3>4. returned' \in [seen : SUBSET Nodes, since : SUBSET Nodes, twice : BOOLEAN]
      <4>1. returned.seen \cup {iter.next} \in SUBSET Nodes
        BY <1>0, <2>1 DEF IterOK
      <4>2. (returned.twice \/ iter.next \in returned.seen) \in BOOLEAN
        OBVIOUS
      <4> QED BY <1>0, <3>1, <4>1, <4>2, Zenon DEF IterOK
    <3> QED BY <3>3, <3>4 DEF IterOK
  <2> QED BY <1>0, <1>16, <2>2 DEF ListNextNode, NodesOK, EndsOK, CallOK, OrderOK, nodes, ends
<1>17. ASSUME ReleaseIterator
       PROVE  NodesOK' /\ EndsOK' /\ CallOK' /\ IterOK' /\ OrderOK'
  <2>1. IterOK'
    BY <1>17 DEF ReleaseIterator, IterOK, NoIter, NothingReturned, ListOrNone, NodeOrNull
  <2> QED BY <1>0, <1>17, <2>1 DEF ReleaseIterator, NodesOK, EndsOK, CallOK, OrderOK, nodes, ends
<1>18. ASSUME UNCHANGED listVars
       PROVE  NodesOK' /\ EndsOK' /\ CallOK' /\ IterOK' /\ OrderOK'
  BY <1>0, <1>18 DEF listVars, nodes, ends, NodesOK, EndsOK, CallOK, IterOK, OrderOK
<1> QED
  BY <1>1, <1>2, <1>3, <1>5, <1>6, <1>7, <1>8, <1>9, <1>10, <1>11, <1>12, <1>13, <1>14, <1>15,
     <1>16, <1>17, <1>18 DEF ListNext

-----------------------------------------------------------------------------
(* The steps keep the links, ...                                           *)

LEMMA LinkNext ==
  ASSUME JoinHeeded, ListTypeOK, LinkInv, CallInv, [ListNext]_listVars
  PROVE  LinkInv'
<1>0. \A l \in Lists : order[l] \in Seq(Nodes) /\ DOMAIN order[l] = 1..Len(order[l])
  BY InList DEF ListTypeOK
<1>1. ASSUME NEW l \in Lists, NEW n \in Nodes, NEW v \in Values, AddHead(l, n, v)
      PROVE  LinkInv'
  BY <1>1, AddedToHead DEF AddHead, Quiet
<1>2. ASSUME NEW l \in Lists, NEW n \in Nodes, NEW v \in Values, AddTail(l, n, v)
      PROVE  LinkInv'
  BY <1>2, AddedToTail DEF AddTail, Quiet
<1>3. ASSUME NEW l \in Lists, NEW n \in Nodes, NEW v \in Values, NEW after \in BOOLEAN,
             NEW k \in DOMAIN order[l], InsertNode(l, k, n, v, after)
      PROVE  LinkInv'
  BY <1>0, <1>3, InsertedNode
<1>4. ASSUME NEW l \in Lists, NEW k \in DOMAIN order[l], DelNode(l, k), UNCHANGED call, Quiet
      PROVE  LinkInv'
  BY <1>0, <1>4, Removing DEF Quiet
<1>5. ASSUME NEW l \in Lists, PopHead(l) \/ PopTail(l) \/ \E k \in DOMAIN order[l] : DeleteNode(l, k)
      PROVE  LinkInv'
  BY <1>4, <1>5 DEF PopHead, PopTail, DeleteNode
<1>6. ASSUME NEW l \in Lists, Rotate(l)
      PROVE  LinkInv'
  BY <1>6, RotatedList
<1>7. ASSUME NEW l \in Lists, NEW o \in Lists, Join(l, o)
      PROVE  LinkInv'
  BY <1>7, JoinedLists
<1>8. ASSUME NEW l \in Lists, EmptyBegins(l)
      PROVE  LinkInv'
  BY <1>8, EmptyingBegun DEF EmptyBegins, Quiet
<1>9. ASSUME NEW n \in Nodes, DupNext(n)
      PROVE  LinkInv'
  BY <1>9, AddedToTail DEF DupNext, CallInv
<1>10. ASSUME EmptyNext
       PROVE  LinkInv'
  BY <1>10, EmptyingGoesOn DEF EmptyNext, CallInv
<1>11. ASSUME EmptyEnds
       PROVE  LinkInv'
  BY <1>11, EmptyingEnds DEF EmptyEnds, CallInv
<1>12. ASSUME DupFails
       PROVE  LinkInv'
  BY <1>12, EmptyingBegun DEF DupFails, CallInv
<1>13. ASSUME UNCHANGED <<nodes, ends, order>>, call.kind # "empty", call'.kind # "empty"
       PROVE  LinkInv'
  <2>1. /\ prev' = prev /\ next' = next /\ heap' = heap /\ order' = order
        /\ head' = head /\ tail' = tail /\ len' = len
    BY <1>13 DEF nodes, ends
  <2>2. \A l \in Lists : ~ Emptying(l) /\ ~ Emptying(l)'
    BY <1>13 DEF Emptying
  <2> QED BY <2>1, <2>2 DEF LinkInv
<1>14. ASSUME NEW l \in Lists, NEW o \in Lists, DupBegins(l, o)
       PROVE  LinkInv'
  BY <1>13, <1>14 DEF DupBegins, Quiet, NoCall
<1>15. ASSUME DupReturns
       PROVE  LinkInv'
  BY <1>13, <1>15 DEF DupReturns, NoCall
<1>16. ASSUME NEW l \in Lists, NEW forward \in BOOLEAN, GetIterator(l, forward)
       PROVE  LinkInv'
  BY <1>13, <1>16 DEF GetIterator, Quiet
<1>17. ASSUME ListNextNode \/ ReleaseIterator
       PROVE  LinkInv'
  BY <1>13, <1>17 DEF ListNextNode, ReleaseIterator, Quiet
<1>18. ASSUME UNCHANGED listVars
       PROVE  LinkInv'
  <2>1. /\ prev' = prev /\ next' = next /\ heap' = heap /\ order' = order
        /\ head' = head /\ tail' = tail /\ len' = len /\ call' = call
    BY <1>18 DEF listVars, nodes, ends
  <2> QED BY <2>1 DEF LinkInv, Emptying, Half
<1> QED
  BY <1>1, <1>2, <1>3, <1>5, <1>6, <1>7, <1>8, <1>9, <1>10, <1>11, <1>12, <1>14, <1>15,
     <1>16, <1>17, <1>18 DEF ListNext

(* ... what a walk of listEmpty or listDup relies on ...                    *)

LEMMA CallNext ==
  ASSUME JoinHeeded, ListTypeOK, LinkInv, CallInv, [ListNext]_listVars
  PROVE  CallInv'
<1>1. ASSUME call'.kind = "none"
      PROVE  CallInv'
  BY <1>1 DEF CallInv
<1>2. ASSUME Quiet, call' = call
      PROVE  CallInv'
  BY <1>1, <1>2 DEF Quiet
<1>3. ASSUME NEW l \in Lists, EmptyBegins(l)
      PROVE  CallInv'
  BY <1>3 DEF EmptyBegins, EmptyFrom, NoCall, CallInv, Iterating
<1>4. ASSUME DupFails
      PROVE  CallInv'
  BY <1>4 DEF DupFails, EmptyFrom, NoCall, CallInv, Iterating
<1>5. ASSUME EmptyNext
      PROVE  CallInv'
  <2>1. call.kind = "empty" /\ call'.kind = "empty" /\ call'.list = call.list /\ iter' = iter
    BY <1>5 DEF EmptyNext, ListTypeOK
  <2> QED BY <2>1 DEF CallInv, Iterating
<1>6. ASSUME NEW l \in Lists, NEW c \in Lists, DupBegins(l, c)
      PROVE  CallInv'
  <2>1. /\ call'.kind = "dup" /\ call'.list = l /\ call'.copy = c /\ call'.at = head[l]
        /\ l # c /\ ~ Iterating(c) /\ iter' = iter /\ order' = order /\ ~ Emptying(l)
    BY <1>6 DEF DupBegins, NoCall, Quiet, Emptying
  <2>2. head[l] # NoNode => head[l] \in ToSet(order[l])
    BY <2>1, ChainOf
  <2> QED BY <2>1, <2>2 DEF CallInv, Iterating, Holds
<1>7. ASSUME NEW n \in Nodes, DupNext(n)
      PROVE  CallInv'
  <2>1. PICK l \in Lists, c \in Lists : l = call.list /\ c = call.copy /\ l # c /\ ~ Iterating(c) /\ Holds(l, call.at)
    BY <1>7 DEF DupNext, CallInv
  <2>2. /\ call.kind = "dup" /\ call'.kind = "dup" /\ call'.list = l /\ call'.copy = c
        /\ call'.at = next[call.at] /\ iter' = iter
        /\ order'[l] = order[l] /\ ~ Emptying(l)
    BY <1>7, <2>1 DEF DupNext, AddNodeToTail, Emptying, ListTypeOK
  <2> DEFINE s == order[l]
  <2>3. /\ s \in Seq(Nodes) /\ Distinct(s) /\ Chain(s, head[l], tail[l], len[l], prev, next)
        /\ \A k \in 1..Len(s) : s[k] \in ToSet(s)
    BY <2>2, ChainOf
  <2>4. Len(s) \in Nat /\ ToSet(s) = {s[k] : k \in 1..Len(s)}
    BY <2>3, InList
  <2>5. PICK k \in 1..Len(s) : call.at = s[k]
    BY <2>1, <2>4 DEF Holds
  <2> HIDE DEF s
  <2>6. next[s[k]] = IF k = Len(s) THEN NoNode ELSE s[k + 1]
    BY <2>3, Neighbours
  <2>7. k # Len(s) => k + 1 \in 1..Len(s)
    BY <2>4
  <2>8. call'.at # NoNode => call'.at \in ToSet(order'[l])
    BY <2>2, <2>3, <2>5, <2>6, <2>7 DEF s
  <2> QED BY <2>1, <2>2, <2>8 DEF CallInv, Iterating, Holds
<1>8. ASSUME EmptyEnds \/ DupReturns
      PROVE  CallInv'
  BY <1>1, <1>8 DEF EmptyEnds, DupReturns, NoCall
<1>9. ASSUME NEW l \in Lists, \/ \E n \in Nodes, v \in Values : AddHead(l, n, v) \/ AddTail(l, n, v)
                              \/ PopHead(l) \/ PopTail(l) \/ Rotate(l)
                              \/ \E k \in DOMAIN order[l] : DeleteNode(l, k)
                              \/ \E o \in Lists : Join(l, o)
                              \/ \E forward \in BOOLEAN : GetIterator(l, forward)
      PROVE  CallInv'
  BY <1>2, <1>9 DEF AddHead, AddTail, PopHead, PopTail, Rotate, DeleteNode, Join, GetIterator
<1>10. ASSUME NEW l \in Lists, NEW n \in Nodes, NEW v \in Values, NEW after \in BOOLEAN,
              NEW k \in DOMAIN order[l], InsertNode(l, k, n, v, after)
       PROVE  CallInv'
  BY <1>2, <1>10 DEF InsertNode
<1>11. ASSUME ListNextNode \/ ReleaseIterator
       PROVE  CallInv'
  BY <1>2, <1>11 DEF ListNextNode, ReleaseIterator
<1>12. ASSUME UNCHANGED listVars
       PROVE  CallInv'
  BY <1>12 DEF listVars, CallInv, Iterating, Holds
<1> QED
  BY <1>3, <1>4, <1>5, <1>6, <1>7, <1>8, <1>9, <1>10, <1>11, <1>12 DEF ListNext

(* ... and how far an iterator is.                                         *)

\* A step that does not change the list of the iterator
LEMMA IterUntouched ==
  ASSUME ListTypeOK, IterInv, iter' = iter, returned' = returned,
         iter.list # NoNode => order'[iter.list] = order[iter.list]
  PROVE  IterInv'
  BY DEF IterInv

LEMMA IterInserted ==
  ASSUME ListTypeOK, LinkInv, IterInv, iter' = iter, returned' = returned,
         NEW l \in Lists, NEW n \in Nodes, n \notin heap, NEW i \in 1..Len(order[l]) + 1,
         NEW u, Inserted(order[l], i, n, u), order' = [order EXCEPT ![l] = u]
  PROVE  IterInv'
<1>1. CASE iter.list # l
  <2>1. iter.list \in Lists => order'[iter.list] = order[iter.list]
    BY <1>1 DEF ListTypeOK
  <2>2. iter.list \in Lists \cup {NoNode}
    BY DEF ListTypeOK, ListOrNone
  <2> QED BY <2>1, <2>2, IterUntouched
<1>2. CASE iter.list = l
  <2>1. l # NoNode /\ order[l] \in Seq(Nodes) /\ order'[l] = u /\ iter.forward \in BOOLEAN
    BY ListAssumption DEF ListTypeOK
  <2>2. n \notin ToSet(order[l])
    BY DEF LinkInv, Apart
  <2>3. Progress(order[l], iter.next, iter.forward, returned.seen, returned.since)
    BY <1>2, <2>1 DEF IterInv
  <2>4. Progress(u, iter.next, iter.forward, returned.seen, returned.since)
    BY <2>1, <2>2, <2>3, ProgressInserted
  <2> QED BY <1>2, <2>1, <2>4 DEF IterInv
<1> QED BY <1>1, <1>2

LEMMA IterRemoved ==
  ASSUME ListTypeOK, LinkInv, IterInv, iter' = iter, NEW l \in Lists, NEW k \in 1..Len(order[l]),
         DelNode(l, k), MayRemove(l, order[l][k])
  PROVE  IterInv'
<1> DEFINE s == order[l]
           n == s[k]
           u == RemoveAt(s, k)
<1>1. s \in Seq(Nodes) /\ Distinct(s) /\ order' = [order EXCEPT ![l] = u]
  BY DEF DelNode, ListTypeOK, LinkInv, Apart
<1>2. n \in Nodes /\ n \in ToSet(s) /\ n # NoNode /\ Removed(s, k, u)
  BY <1>1, InList, RemoveAtRemoved
<1>3. returned'.seen = returned.seen \ {n} /\ returned'.since = returned.since \ {n} /\ returned'.twice = returned.twice
  BY DEF DelNode, ListTypeOK
<1>4. l # NoNode /\ iter.forward \in BOOLEAN /\ iter.list \in Lists \cup {NoNode}
  BY ListAssumption DEF ListTypeOK, ListOrNone
<1>5. CASE iter.list = l
  <2>1. iter.next # n
    BY <1>2, <1>5 DEF MayRemove, Iterating, IterInv
  <2>2. Progress(s, iter.next, iter.forward, returned.seen, returned.since)
    BY <1>4, <1>5 DEF IterInv
  <2>3. Progress(u, iter.next, iter.forward, returned'.seen, returned'.since)
    <3>1. n = s[k] /\ k \in 1..Len(s)
      OBVIOUS
    <3> HIDE DEF s, u, n
    <3> QED BY <3>1, <1>1, <1>2, <1>3, <1>4, <2>1, <2>2, ProgressRemoved
  <2>4. order'[l] = u
    BY <1>1 DEF ListTypeOK
  <2> QED BY <1>3, <1>4, <1>5, <2>3, <2>4 DEF IterInv
<1>6. CASE iter.list \in Lists /\ iter.list # l
  <2>1. order'[iter.list] = order[iter.list]
    BY <1>1, <1>6 DEF ListTypeOK
  <2>2. n \notin ToSet(order[iter.list])
    BY <1>2, <1>6 DEF LinkInv, Apart
  <2>3. Progress(order[iter.list], iter.next, iter.forward, returned.seen, returned.since)
    BY <1>6, ListAssumption DEF IterInv
  <2>4. returned.seen \ {n} = returned.seen /\ returned.since \ {n} = returned.since
    BY <2>2, <2>3 DEF Progress
  <2> QED BY <1>3, <2>1, <2>3, <2>4 DEF IterInv
<1>7. CASE iter.list = NoNode
  BY <1>3, <1>7 DEF IterInv
<1> QED BY <1>4, <1>5, <1>6, <1>7

LEMMA IterNext ==
  ASSUME JoinHeeded, ListTypeOK, LinkInv, CallInv, IterInv, [ListNext]_listVars
  PROVE  IterInv'
<1>0. /\ \A l \in Lists : order[l] \in Seq(Nodes) /\ DOMAIN order[l] = 1..Len(order[l]) /\ Len(order[l]) \in Nat
      /\ iter.list \in Lists \cup {NoNode}
  BY InList DEF ListTypeOK, ListOrNone
<1>1. ASSUME NEW l \in Lists, NEW n \in Nodes, NEW v \in Values, AddHead(l, n, v)
      PROVE  IterInv'
  <2>1. /\ n \notin heap /\ iter' = iter /\ returned' = returned
        /\ order' = [order EXCEPT ![l] = <<n>> \o order[l]]
    BY <1>1 DEF AddHead, AddNodeToHead, Allocate, ListTypeOK
  <2>2. Inserted(order[l], 1, n, <<n>> \o order[l]) /\ 1 \in 1..Len(order[l]) + 1
    BY <1>0, FirstInserted
  <2> QED BY <2>1, <2>2, IterInserted
<1>2. ASSUME NEW l \in Lists, NEW n \in Nodes, NEW v, AddNodeToTail(l, n, v), UNCHANGED <<iter, returned>>
      PROVE  IterInv'
  <2>1. /\ n \notin heap /\ iter' = iter /\ returned' = returned
        /\ order' = [order EXCEPT ![l] = Append(order[l], n)]
    BY <1>2 DEF AddNodeToTail, Allocate, ListTypeOK
  <2>2. Inserted(order[l], Len(order[l]) + 1, n, Append(order[l], n)) /\ Len(order[l]) + 1 \in 1..Len(order[l]) + 1
    BY <1>0, LastInserted
  <2> QED BY <2>1, <2>2, IterInserted
<1>3. ASSUME NEW l \in Lists, NEW n \in Nodes, NEW v \in Values, NEW after \in BOOLEAN,
             NEW k \in DOMAIN order[l], InsertNode(l, k, n, v, after)
      PROVE  IterInv'
  <2> DEFINE i == IF after THEN k + 1 ELSE k
             u == InsertAt(order[l], i, n)
  <2>1. /\ n \notin heap /\ iter' = iter /\ returned' = returned
        /\ order' = [order EXCEPT ![l] = u]
    BY <1>3 DEF InsertNode, Allocate, ListTypeOK
  <2>2. Inserted(order[l], i, n, u) /\ i \in 1..Len(order[l]) + 1
    BY <1>0, <1>3, InsertedNode
  <2> HIDE DEF i, u
  <2> QED BY <2>1, <2>2, IterInserted
<1>4. ASSUME NEW l \in Lists, NEW n \in Nodes, NEW v \in Values, AddTail(l, n, v)
      PROVE  IterInv'
  BY <1>2, <1>4 DEF AddTail
<1>5. ASSUME NEW n \in Nodes, DupNext(n)
      PROVE  IterInv'
  BY <1>2, <1>5 DEF DupNext, CallInv
<1>6. ASSUME NEW l \in Lists, PopHead(l) \/ PopTail(l) \/ \E k \in DOMAIN order[l] : DeleteNode(l, k)
      PROVE  IterInv'
  <2>1. PICK k \in DOMAIN order[l] : DelNode(l, k) /\ MayRemove(l, order[l][k]) /\ iter' = iter
    BY <1>6 DEF PopHead, PopTail, DeleteNode
  <2> QED BY <1>0, <2>1, IterRemoved
<1>7. ASSUME iter' = iter, returned' = returned, NEW l \in Lists, NEW o \in Lists, ~ Iterating(l), ~ Iterating(o),
             \A g \in Lists : g # l /\ g # o => order'[g] = order[g]
      PROVE  IterInv'
  BY <1>0, <1>7, IterUntouched DEF Iterating
<1>8. ASSUME NEW l \in Lists, Rotate(l)
      PROVE  IterInv'
  <2>1. iter' = iter /\ returned' = returned /\ ~ Iterating(l) /\ \A g \in Lists : g # l => order'[g] = order[g]
    BY <1>8 DEF Rotate, ListTypeOK
  <2> QED BY <2>1, <1>7
<1>9. ASSUME NEW l \in Lists, NEW o \in Lists, Join(l, o)
      PROVE  IterInv'
  <2>1. iter' = iter /\ returned' = returned /\ ~ Iterating(l) /\ ~ Iterating(o)
        /\ \A g \in Lists : g # l /\ g # o => order'[g] = order[g]
    BY <1>9 DEF Join, MayJoin, ListTypeOK
  <2> QED BY <2>1, <1>7
<1>10. ASSUME EmptyNext
       PROVE  IterInv'
  <2>1. PICK l \in Lists : l = call.list /\ ~ Iterating(l)
    BY <1>10 DEF EmptyNext, CallInv
  <2>2. iter' = iter /\ returned' = returned /\ \A g \in Lists : g # l => order'[g] = order[g]
    BY <1>10, <2>1 DEF EmptyNext, ListTypeOK
  <2> QED BY <2>1, <2>2, <1>7
<1>11. ASSUME UNCHANGED <<iter, order, returned>>
       PROVE  IterInv'
  BY <1>11, IterUntouched
<1>12. ASSUME \/ \E l \in Lists : EmptyBegins(l)
              \/ \E l, o \in Lists : DupBegins(l, o)
              \/ EmptyEnds \/ DupFails \/ DupReturns \/ UNCHANGED listVars
       PROVE  IterInv'
  BY <1>11, <1>12 DEF EmptyBegins, DupBegins, EmptyEnds, DupFails, DupReturns, listVars
<1>13. ASSUME NEW l \in Lists, NEW forward \in BOOLEAN, GetIterator(l, forward)
       PROVE  IterInv'
  <2>1. /\ iter'.list = l /\ iter'.next = (IF forward THEN head[l] ELSE tail[l])
        /\ iter'.forward = forward /\ iter'.current = NoNode
        /\ returned'.seen = {} /\ returned'.since = ToSet(order[l]) /\ returned'.twice = FALSE
        /\ order' = order /\ l # NoNode /\ ~ Emptying(l)
    BY <1>13, ListAssumption DEF GetIterator, NothingReturned, Quiet, Emptying
  <2>2. order[l] \in Seq(Nodes) /\ Distinct(order[l]) /\ Chain(order[l], head[l], tail[l], len[l], prev, next)
    BY <2>1, ChainOf
  <2>3. Progress(order[l], iter'.next, forward, {}, ToSet(order[l]))
    BY <2>1, <2>2, ProgressBegins
  <2> QED BY <2>1, <2>3 DEF IterInv
<1>14. ASSUME ListNextNode
       PROVE  IterInv'
  <2>1. PICK l \in Lists : l = iter.list /\ l # NoNode
    BY <1>0, <1>14 DEF ListNextNode
  <2> DEFINE x == iter.next
             y == IF iter.forward THEN next[x] ELSE prev[x]
  <2>2. /\ iter'.list = l /\ iter'.next = y /\ iter'.forward = iter.forward /\ iter'.current = x
        /\ returned'.seen = returned.seen \cup {x} /\ returned'.since = returned.since
        /\ order' = order /\ x # NoNode /\ ~ Emptying(l) /\ iter.forward \in BOOLEAN
    BY <1>14, <2>1 DEF ListNextNode, ListTypeOK, Quiet, Emptying
  <2>3. returned'.twice = (returned.twice \/ x \in returned.seen)
    BY <1>14 DEF ListNextNode, ListTypeOK
  <2>4. order[l] \in Seq(Nodes) /\ Distinct(order[l]) /\ Chain(order[l], head[l], tail[l], len[l], prev, next)
    BY <2>2, ChainOf
  <2>5. Progress(order[l], x, iter.forward, returned.seen, returned.since) /\ ~ returned.twice
    BY <2>1 DEF IterInv
  <2>a. y = Onward(iter.forward, prev, next, x)
    BY DEF Onward
  <2> HIDE DEF x, y
  <2>6. x \notin returned.seen /\ y # x /\ Progress(order[l], y, iter.forward, returned'.seen, returned.since)
    BY <2>2, <2>4, <2>5, <2>a, ProgressGoesOn
  <2>7. ~ returned'.twice
    BY <2>3, <2>5, <2>6, Zenon
  <2> QED BY <2>1, <2>2, <2>6, <2>7 DEF IterInv
<1>15. ASSUME ReleaseIterator
       PROVE  IterInv'
  BY <1>15 DEF ReleaseIterator, NoIter, NothingReturned, IterInv
<1> QED
  BY <1>1, <1>3, <1>4, <1>5, <1>6, <1>8, <1>9, <1>10, <1>12, <1>13, <1>14, <1>15 DEF ListNext

-----------------------------------------------------------------------------
(* All parts together.                                                     *)

ListInv == ListTypeOK /\ LinkInv /\ CallInv /\ IterInv

LEMMA ListInvInit == ListInit => ListInv
<1> SUFFICES ASSUME ListInit PROVE ListInv
  OBVIOUS
<1>1. <<>> \in Seq(Nodes) /\ Len(<<>>) = 0
  BY EmptySeq
<1>2. ListTypeOK
  BY <1>1 DEF ListInit, ListTypeOK, NoCall, NoIter, NothingReturned, NodeOrNull, ListOrNone
<1> DEFINE w == <<>>
<1>3. ToSet(w) = {}
  <2> HIDE DEF w
  <2>1. w \in Seq(Nodes) /\ Len(w) = 0
    BY <1>1 DEF w
  <2>2. ToSet(w) = {w[k] : k \in 1..0}
    BY <2>1, InList
  <2> QED BY <2>2
<1>4. Distinct(w) /\ Chain(w, NoNode, NoNode, 0, prev, next)
  BY <1>1 DEF Distinct, Chain, Links
<1>5. \A l \in Lists : order[l] = w /\ head[l] = NoNode /\ tail[l] = NoNode /\ len[l] = 0 /\ ~ Emptying(l)
  BY DEF ListInit, NoCall, Emptying
<1>6. heap = {}
  BY DEF ListInit
<1> HIDE DEF w
<1>7. LinkInv
  BY <1>3, <1>4, <1>5, <1>6 DEF LinkInv, Apart
<1>8. CallInv /\ IterInv
  BY DEF ListInit, NoCall, NoIter, NothingReturned, CallInv, IterInv
<1> QED BY <1>2, <1>7, <1>8 DEF ListInv

LEMMA ListInvNext ==
  ASSUME JoinHeeded
  PROVE  ListInv /\ [ListNext]_listVars => ListInv'
  BY ListTypeNext, LinkNext, CallNext, IterNext DEF ListInv

LEMMA ListInvComplete ==
  ASSUME ListInv
  PROVE  IterationComplete
<1>1. iter.list \in Lists \cup {NoNode}
  BY DEF ListInv, ListTypeOK, ListOrNone
<1>2. iter.next # NoNode => Holds(iter.list, iter.next)
  <2> SUFFICES ASSUME iter.next # NoNode PROVE Holds(iter.list, iter.next)
    OBVIOUS
  <2>1. iter.list \in Lists /\ iter.list # NoNode
    BY <1>1 DEF ListInv, IterInv
  <2>2. PICK k \in 1..Len(order[iter.list]) : order[iter.list][k] = iter.next
    BY <2>1 DEF ListInv, IterInv, Progress
  <2>3. order[iter.list] \in Seq(Nodes)
    BY <2>1 DEF ListInv, ListTypeOK
  <2> QED BY <2>2, <2>3, InList DEF Holds
<1>3. ~ returned.twice
  BY DEF ListInv, IterInv
<1>4. Exhausted => returned.since \subseteq returned.seen
  BY DEF Exhausted, ListInv, IterInv, Progress
<1> QED BY <1>2, <1>3, <1>4 DEF IterationComplete

-----------------------------------------------------------------------------
(* Lookups.                                                                *)

\* The function that Steps defines by recursion is any that satisfies its
\* equation: two that do agree, since they do not differ first anywhere.
Walk(f, n, i, g) ==
  g = [j \in 0..i |-> IF j = 0 THEN n ELSE IF g[j - 1] = NoNode THEN NoNode ELSE f[g[j - 1]]]

LEMMA WalkUnique ==
  ASSUME NEW f, NEW n, NEW i \in Nat, NEW g, NEW h, Walk(f, n, i, g), Walk(f, n, i, h)
  PROVE  g[i] = h[i]
<1> DEFINE S == {j \in 0..i : g[j] # h[j]}
<1>1. \A j \in 0..i : g[j] = IF j = 0 THEN n ELSE IF g[j - 1] = NoNode THEN NoNode ELSE f[g[j - 1]]
  BY Zenon DEF Walk
<1>2. \A j \in 0..i : h[j] = IF j = 0 THEN n ELSE IF h[j - 1] = NoNode THEN NoNode ELSE f[h[j - 1]]
  BY Zenon DEF Walk
<1>3. S = {}
  <2> SUFFICES ASSUME S # {} PROVE FALSE
    OBVIOUS
  <2>1. PICK x \in S : \A y \in S : x <= y
    <3>1. S \in SUBSET Nat
      OBVIOUS
    <3> HIDE DEF S
    <3> QED BY <3>1, LeastElement
  <2>2. x \in 0..i /\ g[x] # h[x]
    OBVIOUS
  <2>3. x # 0
    BY <2>2, <1>1, <1>2
  <2>4. x - 1 \in 0..i /\ ~ (x <= x - 1)
    BY <2>2, <2>3
  <2>5. g[x - 1] = h[x - 1]
    BY <2>1, <2>4
  <2> QED BY <2>2, <2>3, <2>5, <1>1, <1>2
<1>4. i \in 0..i
  OBVIOUS
<1> QED BY <1>3, <1>4

LEMMA StepsWalk ==
  ASSUME NEW f, NEW n, NEW i \in Nat, NEW g, Walk(f, n, i, g)
  PROVE  Steps(f, n, i) = g[i]
<1> DEFINE at == CHOOSE h : Walk(f, n, i, h)
<1>1. Steps(f, n, i) = at[i]
  BY DEF Steps, Walk
<1>2. Walk(f, n, i, at)
  OBVIOUS
<1> HIDE DEF at
<1> QED BY <1>1, <1>2, WalkUnique

LEMMA StepsForward ==
  ASSUME NEW s \in Seq(Nodes), NEW h, NEW t, NEW m, NEW p, NEW q, Chain(s, h, t, m, p, q), NEW i \in Nat
  PROVE  Steps(q, h, i) = IF i < Len(s) THEN s[i + 1] ELSE NoNode
<1> DEFINE g == [j \in 0..i |-> IF j < Len(s) THEN s[j + 1] ELSE NoNode]
<1>1. /\ Len(s) \in Nat /\ \A k \in 1..Len(s) : s[k] # NoNode
      /\ Len(s) = 0 => h = NoNode
      /\ Len(s) # 0 => h = s[1] /\ q[s[Len(s)]] = NoNode
      /\ \A k \in 1..Len(s) - 1 : q[s[k]] = s[k + 1]
  BY InList DEF Chain, Links
<1>2. \A j \in 0..i : g[j] = IF j < Len(s) THEN s[j + 1] ELSE NoNode
  OBVIOUS
<1>3. DOMAIN g = 0..i /\ g = [j \in DOMAIN g |-> g[j]]
  OBVIOUS
<1> HIDE DEF g
<1>4. ASSUME NEW j \in 0..i
      PROVE  g[j] = IF j = 0 THEN h ELSE IF g[j - 1] = NoNode THEN NoNode ELSE q[g[j - 1]]
  <2>1. CASE j = 0
    BY <2>1, <1>1, <1>2
  <2>2. CASE j # 0
    <3>1. j - 1 \in 0..i /\ (j - 1) + 1 = j
      BY <2>2
    <3>2. g[j - 1] = IF j - 1 < Len(s) THEN s[j] ELSE NoNode
      BY <3>1, <1>2
    <3>3. CASE j < Len(s)
      <4>1. j \in 1..Len(s) - 1 /\ j \in 1..Len(s) /\ j - 1 < Len(s)
        BY <2>2, <3>3, <1>1
      <4> QED BY <2>2, <3>2, <3>3, <4>1, <1>1, <1>2
    <3>4. CASE j = Len(s)
      <4>1. j \in 1..Len(s) /\ j - 1 < Len(s) /\ ~ (j < Len(s))
        BY <2>2, <3>4, <1>1
      <4> QED BY <2>2, <3>2, <3>4, <4>1, <1>1, <1>2
    <3>5. CASE j > Len(s)
      <4>1. ~ (j - 1 < Len(s)) /\ ~ (j < Len(s))
        BY <2>2, <3>5, <1>1
      <4> QED BY <2>2, <3>2, <4>1, <1>2
    <3> QED BY <3>3, <3>4, <3>5, <1>1
  <2> QED BY <2>1, <2>2
<1>5. Walk(q, h, i, g)
  BY <1>3, <1>4, Zenon DEF Walk
<1>6. i \in 0..i
  OBVIOUS
<1> QED BY <1>2, <1>5, <1>6, StepsWalk

LEMMA StepsBackward ==
  ASSUME NEW s \in Seq(Nodes), NEW h, NEW t, NEW m, NEW p, NEW q, Chain(s, h, t, m, p, q), NEW i \in Nat
  PROVE  Steps(p, t, i) = IF i < Len(s) THEN s[Len(s) - i] ELSE NoNode
<1> DEFINE g == [j \in 0..i |-> IF j < Len(s) THEN s[Len(s) - j] ELSE NoNode]
<1>1. /\ Len(s) \in Nat /\ \A k \in 1..Len(s) : s[k] # NoNode
      /\ Len(s) = 0 => t = NoNode
      /\ Len(s) # 0 => t = s[Len(s)] /\ p[s[1]] = NoNode
      /\ \A k \in 1..Len(s) - 1 : p[s[k + 1]] = s[k]
  BY InList DEF Chain, Links
<1>2. \A j \in 0..i : g[j] = IF j < Len(s) THEN s[Len(s) - j] ELSE NoNode
  OBVIOUS
<1>3. DOMAIN g = 0..i /\ g = [j \in DOMAIN g |-> g[j]]
  OBVIOUS
<1> HIDE DEF g
<1>4. ASSUME NEW j \in 0..i
      PROVE  g[j] = IF j = 0 THEN t ELSE IF g[j - 1] = NoNode THEN NoNode ELSE p[g[j - 1]]
  <2>1. CASE j = 0
    BY <2>1, <1>1, <1>2
  <2>2. CASE j # 0
    <3>1. j - 1 \in 0..i /\ Len(s) - (j - 1) = (Len(s) - j) + 1
      BY <2>2, <1>1
    <3>2. g[j - 1] = IF j - 1 < Len(s) THEN s[(Len(s) - j) + 1] ELSE NoNode
      BY <3>1, <1>2
    <3>3. CASE j < Len(s)
      <4>1. Len(s) - j \in 1..Len(s) - 1 /\ (Len(s) - j) + 1 \in 1..Len(s) /\ j - 1 < Len(s)
        BY <2>2, <3>3, <1>1
      <4>2. p[s[(Len(s) - j) + 1]] = s[Len(s) - j] /\ s[(Len(s) - j) + 1] # NoNode
        BY <4>1, <1>1
      <4> QED BY <2>2, <3>2, <3>3, <4>1, <4>2, <1>2
    <3>4. CASE j = Len(s)
      <4>1. 1 \in 1..Len(s) /\ j - 1 < Len(s) /\ ~ (j < Len(s)) /\ (Len(s) - j) + 1 = 1
        BY <2>2, <3>4, <1>1
      <4> QED BY <2>2, <3>2, <3>4, <4>1, <1>1, <1>2
    <3>5. CASE j > Len(s)
      <4>1. ~ (j - 1 < Len(s)) /\ ~ (j < Len(s))
        BY <2>2, <3>5, <1>1
      <4> QED BY <2>2, <3>2, <4>1, <1>2
    <3> QED BY <3>3, <3>4, <3>5, <1>1
  <2> QED BY <2>1, <2>2
<1>5. Walk(p, t, i, g)
  BY <1>3, <1>4, Zenon DEF Walk
<1>6. i \in 0..i
  OBVIOUS
<1> QED BY <1>2, <1>5, <1>6, StepsWalk

LEMMA IndexAgrees ==
  ASSUME ListTypeOK, LinkInv, NEW l \in Lists, ~ Emptying(l), NEW n, n = Len(order[l]), NEW i \in -n - 1..n
  PROVE  ListIndex(l, i) = IF i \in 0..n - 1 THEN order[l][i + 1]
                           ELSE IF i \in -n..-1 THEN order[l][n + i + 1]
                           ELSE NoNode
<1> DEFINE s == order[l]
<1>1. /\ s \in Seq(Nodes) /\ Chain(s, head[l], tail[l], len[l], prev, next)
      /\ n = Len(s) /\ n \in Nat
  BY ChainOf
<1>2. i \in Int
  BY <1>1
<1> HIDE DEF s
<1>3. CASE i >= 0
  <2>1. i \in Nat
    BY <1>2, <1>3
  <2>2. Steps(next, head[l], i) = IF i < Len(s) THEN s[i + 1] ELSE NoNode
    BY <1>1, <2>1, StepsForward
  <2>3. ListIndex(l, i) = Steps(next, head[l], i)
    BY <1>2, <1>3 DEF ListIndex
  <2>4. (i < n <=> i \in 0..n - 1) /\ i \notin -n..-1
    BY <1>1, <1>2, <1>3
  <2> QED BY <1>1, <2>2, <2>3, <2>4 DEF s
<1>4. CASE i < 0
  <2> DEFINE j == (-i) - 1
  <2>1. j \in Nat /\ (j < n <=> i \in -n..-1) /\ i \notin 0..n - 1 /\ n - j = n + i + 1
    BY <1>1, <1>2, <1>4
  <2>2. ListIndex(l, i) = Steps(prev, tail[l], j)
    BY <1>2, <1>4 DEF ListIndex
  <2> HIDE DEF j
  <2>3. Steps(prev, tail[l], j) = IF j < Len(s) THEN s[Len(s) - j] ELSE NoNode
    BY <1>1, <2>1, StepsBackward
  <2> QED BY <1>1, <2>1, <2>2, <2>3 DEF s
<1> QED BY <1>2, <1>3, <1>4

LEMMA SearchAgrees ==
  ASSUME ListTypeOK, LinkInv, NEW l \in Lists, ~ Emptying(l), NEW v \in Values,
         NEW k, k = SelectInSeq(order[l], LAMBDA x : value[x] = v)
  PROVE  SearchKey(l, v) = IF k = 0 THEN NoNode ELSE order[l][k]
<1> DEFINE s    == order[l]
           at(i) == Steps(next, head[l], i)
           hits == {i \in 0..len[l] - 1 : value[at(i)] = v}
           I    == {j \in 1..Len(s) : value[s[j]] = v}
<1>1. /\ s \in Seq(Nodes) /\ Chain(s, head[l], tail[l], len[l], prev, next)
      /\ len[l] = Len(s) /\ Len(s) \in Nat
  BY ChainOf
<1>2. k = IF I # {} THEN Min(I) ELSE 0
  BY DEF SelectInSeq
<1>3. SearchKey(l, v) = IF hits = {} THEN NoNode ELSE at(Min(hits))
  BY DEF SearchKey
<1>4. ASSUME NEW i \in 0..Len(s) - 1 PROVE at(i) = s[i + 1]
  <2>1. i \in Nat /\ i < Len(s)
    BY <1>1
  <2> HIDE DEF s
  <2>2. Steps(next, head[l], i) = IF i < Len(s) THEN s[i + 1] ELSE NoNode
    BY <1>1, <2>1, StepsForward
  <2> QED BY <2>1, <2>2
<1> HIDE DEF s, at
<1>5. /\ \A i \in hits : i \in 0..Len(s) - 1 /\ i + 1 \in I
      /\ \A j \in I : j - 1 \in hits
  <2>1. ASSUME NEW i \in hits PROVE i \in 0..Len(s) - 1 /\ i + 1 \in I
    BY <1>1, <1>4
  <2>2. ASSUME NEW j \in I PROVE j - 1 \in hits
    <3>1. j \in 1..Len(s) /\ value[s[j]] = v
      OBVIOUS
    <3>2. j - 1 \in 0..Len(s) - 1 /\ (j - 1) + 1 = j
      BY <3>1, <1>1
    <3>3. at(j - 1) = s[j]
      BY <3>2, <1>4
    <3> QED BY <3>1, <3>2, <3>3, <1>1
  <2> QED BY <2>1, <2>2
<1>6. hits \in SUBSET Nat /\ I \in SUBSET Nat /\ 0 \notin I
  BY <1>1
<1> HIDE DEF hits, I
<1>7. CASE I = {}
  <2>1. hits = {}
    BY <1>5, <1>7
  <2> QED BY <1>2, <1>3, <1>7, <2>1
<1>8. CASE I # {}
  <2>1. hits # {}
    BY <1>5, <1>8
  <2> DEFINE a == Min(hits)
             b == Min(I)
  <2>2. a \in hits /\ \A y \in hits : a <= y
    BY <1>6, <2>1, MinIsLeast
  <2>3. b \in I /\ \A y \in I : b <= y
    BY <1>6, <1>8, MinIsLeast
  <2> HIDE DEF a, b
  <2>4. b - 1 \in hits /\ a + 1 \in I /\ a \in Nat /\ b \in Nat /\ b # 0
    BY <1>5, <1>6, <2>2, <2>3
  <2>5. a <= b - 1 /\ b <= a + 1
    BY <2>2, <2>3, <2>4
  <2>6. b = a + 1
    BY <2>4, <2>5
  <2>7. at(a) = s[a + 1]
    BY <1>4, <1>5, <2>2
  <2> QED BY <1>2, <1>3, <1>8, <2>1, <2>4, <2>6, <2>7 DEF a, b, s
<1> QED BY <1>7, <1>8

-----------------------------------------------------------------------------
(* The theorems.                                                           *)

\* The variables stay in their ranges: len, which is unsigned long in list.h, is
\* never decremented from zero, ...
THEOREM ListTypeCorrect ==
  ASSUME JoinHeeded
  PROVE  ListSpec => []ListTypeOK
<1>1. ListInv => ListTypeOK
  BY DEF ListInv
<1> QED BY ListInvInit, ListInvNext, <1>1, PTL DEF ListSpec

\* ... whatever is added, inserted, removed, rotated, joined, copied and emptied,
\* the pointers of every list, its ends and its length are those of the nodes it
\* should hold, and no node is in two places, lost or freed while linked, ...
THEOREM LinkedCorrect ==
  ASSUME JoinHeeded
  PROVE  ListSpec => []Linked
<1>1. ListInv => Linked
  BY LinkInvLinked DEF ListInv
<1> QED BY ListInvInit, ListInvNext, <1>1, PTL DEF ListSpec

\* ... an iterator that runs while nodes are added and the current one is removed
\* never stands on a freed node, returns none twice and misses none, ...
THEOREM IterationCorrect ==
  ASSUME JoinHeeded
  PROVE  ListSpec => []IterationComplete
  BY ListInvInit, ListInvNext, ListInvComplete, PTL DEF ListSpec

\* ... and listIndex, from both ends, and listSearchKey find what stands there.
THEOREM LookupsCorrect ==
  ASSUME JoinHeeded
  PROVE  ListSpec => []LookupsAgree
<1>1. ListInv => LookupsAgree
  <2> SUFFICES ASSUME ListInv, Quiet, NEW l \in Lists
               PROVE  LET n == Len(order[l]) IN
                      /\ \A i \in -n - 1..n : ListIndex(l, i) = IF i \in 0..n - 1 THEN order[l][i + 1]
                                                                ELSE IF i \in -n..-1 THEN order[l][n + i + 1]
                                                                ELSE NoNode
                      /\ \A v \in Values :
                           LET k == SelectInSeq(order[l], LAMBDA x : value[x] = v)
                           IN  SearchKey(l, v) = IF k = 0 THEN NoNode ELSE order[l][k]
    BY DEF LookupsAgree
  <2>1. ListTypeOK /\ LinkInv /\ ~ Emptying(l)
    BY DEF ListInv, Quiet, Emptying
  <2>2. \A v \in Values :
           LET k == SelectInSeq(order[l], LAMBDA x : value[x] = v)
           IN  SearchKey(l, v) = IF k = 0 THEN NoNode ELSE order[l][k]
    BY <2>1, SearchAgrees
  <2> QED BY <2>1, <2>2, IndexAgrees
<1> QED BY ListInvInit, ListInvNext, <1>1, PTL DEF ListSpec
=============================================================================
