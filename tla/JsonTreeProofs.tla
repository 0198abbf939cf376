--------------------------- MODULE JsonTreeProofs ---------------------------
(***************************************************************************)
(* Proofs about JsonTree, for any memory and any calls that put no value   *)
(* below itself: what the links of the nodes spell is a list of children   *)
(* for each node, json_foreach walks along it, json_check has nothing to   *)
(* say of it, and the calls are those on a forest.                         *)
(***************************************************************************)
EXTENDS JsonTree, SequenceTheorems, FiniteSetTheorems, WellFoundedInduction, TLAPS

-----------------------------------------------------------------------------
(* What the links spell.                                                   *)

\* A node as the library has it (json.h:41-75).
Cell == [tag : Tags \cup {"freed"}, parent : Nodes \cup {Null}, prev : Nodes \cup {Null},
         next : Nodes \cup {Null}, head : Nodes \cup {Null}, tail : Nodes \cup {Null},
         key : BOOLEAN]

\* The ends of a list s as n has them.
Ends(H, s, n) ==
  /\ s # <<>> => H[n].tag \in {"array", "object"}
  /\ H[n].head = IF s = <<>> THEN Null ELSE s[1]
  /\ H[n].tail = IF s = <<>> THEN Null ELSE s[Len(s)]

\* The child at i of the list s of n (json.c:1346-1368).
LinkedAt(H, s, n, i) ==
  /\ H[s[i]].tag # "freed"
  /\ H[s[i]].parent = n
  /\ H[s[i]].prev = IF i = 1 THEN Null ELSE s[i - 1]
  /\ H[s[i]].next = IF i = Len(s) THEN Null ELSE s[i + 1]
  /\ H[s[i]].key = (H[n].tag = "object")

\* No node is in a list twice.
Once(s) == \A i, j \in 1..Len(s) : s[i] = s[j] => i = j

\* A node without a parent.
Apart(H, c) == H[c].prev = Null /\ H[c].next = Null /\ H[c].key = FALSE

\* The nodes of the memory H are linked as the lists K say: ends, siblings, parents
\* and keys agree with K, and a node that has a parent is in that parent's list.
Lists(H, K) ==
  /\ H \in [Nodes -> Cell]
  /\ K \in [Nodes -> Seq(Nodes)]
  /\ \A n \in Nodes : Ends(H, K[n], n) /\ Once(K[n])
  /\ \A n \in Nodes : \A i \in 1..Len(K[n]) : LinkedAt(H, K[n], n, i)
  /\ \A c \in Nodes : H[c].parent = Null => Apart(H, c)
  /\ \A c \in Nodes : H[c].parent # Null => \E i \in 1..Len(K[H[c].parent]) : K[H[c].parent][i] = c

-----------------------------------------------------------------------------
(* json_foreach walks along the lists (json.h:86-89).                      *)

\* How far a walk may go, and where it can be.
Ks == 0..Cardinality(Nodes)
Slots == Nodes \cup {Null}

\* The equation by which Children walks along next.
Steps(H, w) ==
  [k \in Ks |-> [m \in Slots |->
      IF m = Null \/ k = 0 THEN <<>> ELSE <<m>> \o w[k - 1][H[m].next]]]

\* The walks that Children takes, in the memory H.
Walk(H) == CHOOSE w : w = Steps(H, w)

\* Children is such a walk from the head of the list, now
LEMMA ChildrenWalk == ASSUME NEW n PROVE Children(n) = Walk(node)[Cardinality(Nodes)][node[n].head]
  BY DEF Children, Walk, Steps, Ks, Slots

\* and after a step.
LEMMA ChildrenWalkNext == ASSUME NEW n PROVE Children(n)' = Walk(node')[Cardinality(Nodes)][node'[n].head]
  BY DEF Children, Walk, Steps, Ks, Slots

\* Where m is in the list of p.
At(K, p, m) == CHOOSE i \in 1..Len(K[p]) : K[p][i] = m
Least(i, j) == IF i <= j THEN i ELSE j

\* The first k of what is in K from m on.
From(H, K, m, k) ==
  IF m = Null \/ k = 0 THEN <<>>
  ELSE IF H[m].parent = Null THEN <<m>>
  ELSE LET s == K[H[m].parent]  i == At(K, H[m].parent, m) IN SubSeq(s, i, Least(i + k - 1, Len(s)))

\* The memory is finite.
LEMMA CardNat == Cardinality(Nodes) \in Nat
  BY FS_CardinalityType, NodesAssumption

\* The place of a child is the one it is at.
LEMMA AtIs ==
  ASSUME NEW H, NEW K, Lists(H, K), NEW p \in Nodes, NEW i \in 1..Len(K[p])
  PROVE  At(K, p, K[p][i]) = i
<1>1. Once(K[p])
  BY DEF Lists
<1>2. At(K, p, K[p][i]) \in 1..Len(K[p]) /\ K[p][At(K, p, K[p][i])] = K[p][i]
  BY DEF At
<1> QED
  BY <1>1, <1>2 DEF Once

\* A node with a parent is in the parent's list, at its place.
LEMMA InList ==
  ASSUME NEW H, NEW K, Lists(H, K), NEW m \in Nodes, H[m].parent # Null
  PROVE  /\ H[m].parent \in Nodes
         /\ At(K, H[m].parent, m) \in 1..Len(K[H[m].parent])
         /\ K[H[m].parent][At(K, H[m].parent, m)] = m
<1>1. H[m].parent \in Nodes
  BY DEF Lists, Cell
<1>2. PICK i \in 1..Len(K[H[m].parent]) : K[H[m].parent][i] = m
  BY DEF Lists
<1> QED
  BY <1>1, <1>2 DEF At

\* One step along next takes the first of what is left of the list.
LEMMA FromStep ==
  ASSUME NEW H, NEW K, Lists(H, K), NEW m \in Nodes, NEW k \in Ks, k # 0
  PROVE  /\ H[m].next \in Slots /\ k - 1 \in Ks
         /\ From(H, K, m, k) = <<m>> \o From(H, K, H[m].next, k - 1)
<1>1. H[m].next \in Slots /\ k - 1 \in Ks /\ k \in Nat
  BY CardNat DEF Lists, Cell, Slots, Ks
<1>2. m # Null
  BY NodesAssumption
<1>3. CASE H[m].parent = Null
  <2>1. H[m].next = Null
    BY <1>3 DEF Lists, Apart
  <2>2. From(H, K, H[m].next, k - 1) = <<>>
    BY <2>1 DEF From
  <2>3. From(H, K, m, k) = <<m>>
    BY <1>2, <1>3 DEF From
  <2>4. <<m>> \o <<>> = <<m>>
    OBVIOUS
  <2> QED
    BY <1>1, <2>2, <2>3, <2>4
<1>4. CASE H[m].parent # Null
  <2> DEFINE p == H[m].parent
             s == K[p]
             i == At(K, p, m)
             e == Least(i + k - 1, Len(s))
  <2>1. p \in Nodes /\ i \in 1..Len(s) /\ s[i] = m
    BY <1>4, InList
  <2>2. s \in Seq(Nodes) /\ Len(s) \in Nat
    BY <2>1 DEF Lists
  <2>3. e \in i..Len(s)
    BY <1>1, <2>1, <2>2 DEF Least
  <2>4. LinkedAt(H, s, p, i)
    BY <2>1 DEF Lists
  <2>5. From(H, K, m, k) = SubSeq(s, i, e)
    BY <1>2, <1>4 DEF From
  <2>6. SubSeq(s, i, e) = <<m>> \o SubSeq(s, i + 1, e)
    <3> HIDE DEF p, s, i, e
    <3> QED
      BY <2>1, <2>2, <2>3, SubSeqRecursiveFirst
  <2>7. From(H, K, H[m].next, k - 1) = SubSeq(s, i + 1, e)
    <3>1. CASE i = Len(s)
      <4>1. H[m].next = Null
        BY <2>1, <2>4, <3>1 DEF LinkedAt
      <4>2. SubSeq(s, i + 1, e) = <<>>
        <5>1. i + 1 \in Int /\ e \in Int /\ e < i + 1
          BY <2>1, <2>2, <2>3, <3>1
        <5> HIDE DEF p, s, i, e
        <5> QED
          BY <5>1, SubSeqEmpty
      <4> QED
        BY <4>1, <4>2 DEF From
    <3>2. CASE i # Len(s)
      <4>1. H[m].next = s[i + 1] /\ i + 1 \in 1..Len(s)
        BY <2>1, <2>2, <2>4, <3>2 DEF LinkedAt
      <4>2. H[m].next \in Nodes /\ H[H[m].next].parent = p /\ At(K, p, H[m].next) = i + 1
        <5>1. LinkedAt(H, s, p, i + 1)
          BY <2>1, <4>1 DEF Lists
        <5>2. At(K, p, K[p][i + 1]) = i + 1
          BY <2>1, <4>1, AtIs
        <5> QED
          BY <2>2, <4>1, <5>1, <5>2, ElementOfSeq DEF LinkedAt
      <4>3. CASE k = 1
        <5>1. e = i
          BY <2>1, <2>2, <4>3 DEF Least
        <5>2. SubSeq(s, i + 1, e) = <<>>
          <6>1. i + 1 \in Int /\ e \in Int /\ e < i + 1
            BY <2>1, <2>2, <5>1
          <6> HIDE DEF p, s, i, e
          <6> QED
            BY <6>1, SubSeqEmpty
        <5>3. k - 1 = 0
          BY <4>3
        <5> QED
          BY <5>2, <5>3 DEF From
      <4>4. CASE k # 1
        <5>1. k - 1 # 0
          BY <1>1, <4>4
        <5>2. H[m].next # Null /\ p # Null
          BY <2>1, <4>2, NodesAssumption
        <5>3. (i + 1) + (k - 1) - 1 = i + k - 1
          BY <1>1, <2>1, <2>2
        <5>4. From(H, K, H[m].next, k - 1) = SubSeq(s, i + 1, Least((i + 1) + (k - 1) - 1, Len(s)))
          BY <4>2, <5>1, <5>2 DEF From
        <5> QED
          BY <5>3, <5>4
      <4> QED
        BY <4>3, <4>4
    <3> QED
      BY <3>1, <3>2
  <2> QED
    BY <1>1, <2>5, <2>6, <2>7
<1> QED
  BY <1>3, <1>4

\* A walk of k steps is one node and a walk of k - 1.
LEMMA StepsAt ==
  ASSUME NEW H, NEW w, NEW k \in Ks, NEW m \in Slots
  PROVE  Steps(H, w)[k][m] = IF m = Null \/ k = 0 THEN <<>> ELSE <<m>> \o w[k - 1][H[m].next]
  BY DEF Steps

\* Two walks are one: they could only differ at a least number of steps.
LEMMA OneWalk ==
  ASSUME NEW H, NEW w, NEW r, \A m \in Nodes : H[m].next \in Slots, w = Steps(H, w), r = Steps(H, r)
  PROVE  \A m \in Slots, k \in Ks : w[k][m] = r[k][m]
<1> DEFINE bad == {k \in Ks : \E m \in Slots : w[k][m] # r[k][m]}
<1>1. SUFFICES ASSUME bad # {} PROVE FALSE
  OBVIOUS
<1>2. bad \subseteq Nat
  BY CardNat DEF Ks
<1>3. PICK k \in bad : \A q \in bad : ~(<<q, k>> \in OpToRel(<, Nat))
  <2> HIDE DEF bad
  <2> QED
    BY <1>1, <1>2, NatLessThanWellFounded, WFMin, Zenon
<1>4. PICK m \in Slots : w[k][m] # r[k][m]
  OBVIOUS
<1>5. /\ w[k][m] = IF m = Null \/ k = 0 THEN <<>> ELSE <<m>> \o w[k - 1][H[m].next]
      /\ r[k][m] = IF m = Null \/ k = 0 THEN <<>> ELSE <<m>> \o r[k - 1][H[m].next]
  <2>1. k \in Ks /\ m \in Slots
    OBVIOUS
  <2> QED
    BY <2>1, StepsAt
<1>6. m \in Nodes /\ k # 0
  BY <1>4, <1>5 DEF Slots
<1>7. k - 1 \in Ks /\ k - 1 < k /\ k \in Nat
  BY <1>6, CardNat DEF Ks
<1>8. k - 1 \notin bad
  BY <1>2, <1>3, <1>7 DEF OpToRel
<1>9. w[k - 1][H[m].next] = r[k - 1][H[m].next]
  BY <1>6, <1>7, <1>8
<1> QED
  BY <1>4, <1>5, <1>9

\* What json_foreach visits is the list, whole and once: it is no longer than the
\* memory, because no node is in it twice.
LEMMA WalkIs ==
  ASSUME NEW H, NEW K, Lists(H, K)
  PROVE  \A n \in Nodes : Walk(H)[Cardinality(Nodes)][H[n].head] = K[n]
<1> DEFINE r == [k \in Ks |-> [m \in Slots |-> From(H, K, m, k)]]
<1>1. \A m \in Nodes : H[m].next \in Slots
  BY DEF Lists, Cell, Slots
<1>2. r = Steps(H, r)
  <2>1. ASSUME NEW m \in Slots, NEW k \in Ks
        PROVE  From(H, K, m, k) = IF m = Null \/ k = 0 THEN <<>> ELSE <<m>> \o r[k - 1][H[m].next]
    <3>1. CASE m = Null \/ k = 0
      BY <3>1 DEF From
    <3>2. CASE ~(m = Null \/ k = 0)
      <4>1. m \in Nodes /\ k # 0
        BY <3>2 DEF Slots
      <4>2. /\ H[m].next \in Slots /\ k - 1 \in Ks
            /\ From(H, K, m, k) = <<m>> \o From(H, K, H[m].next, k - 1)
        BY <4>1, FromStep
      <4>3. r[k - 1][H[m].next] = From(H, K, H[m].next, k - 1)
        BY <4>2
      <4> QED
        BY <3>2, <4>2, <4>3
    <3> QED
      BY <3>1, <3>2
  <2> QED
    BY <2>1 DEF Steps
<1>3. Walk(H) = Steps(H, Walk(H))
  BY <1>2 DEF Walk
<1>4. \A m \in Slots, k \in Ks : Walk(H)[k][m] = r[k][m]
  <2> HIDE DEF r
  <2> QED
    BY <1>1, <1>2, <1>3, OneWalk
<1>5. TAKE n \in Nodes
<1>6. H[n].head \in Slots /\ Cardinality(Nodes) \in Ks
  BY CardNat DEF Lists, Cell, Slots, Ks
<1>7. Walk(H)[Cardinality(Nodes)][H[n].head] = From(H, K, H[n].head, Cardinality(Nodes))
  BY <1>4, <1>6
<1>8. K[n] \in Seq(Nodes) /\ Len(K[n]) \in Nat /\ Ends(H, K[n], n) /\ Once(K[n])
  BY DEF Lists
<1>9. CASE K[n] = <<>>
  BY <1>7, <1>8, <1>9 DEF Ends, From
<1>10. CASE K[n] # <<>>
  <2>1. 1 \in 1..Len(K[n]) /\ Len(K[n]) \in 1..Len(K[n])
    BY <1>8, <1>10, EmptySeq
  <2>2. H[n].head = K[n][1] /\ K[n][1] \in Nodes
    BY <1>8, <1>10, <2>1, ElementOfSeq DEF Ends
  <2>3. LinkedAt(H, K[n], n, 1) /\ At(K, n, K[n][1]) = 1
    <3>1. LinkedAt(H, K[n], n, 1)
      BY <2>1 DEF Lists
    <3> QED
      BY <2>1, <3>1, AtIs
  <2>4. Len(K[n]) <= Cardinality(Nodes)
    <3>1. K[n] \in Injection(1..Len(K[n]), Nodes)
      BY <1>8, LenProperties DEF Once, Injection, IsInjective
    <3>2. Cardinality(1..Len(K[n])) <= Cardinality(Nodes)
      BY <3>1, FS_Injection, NodesAssumption
    <3> QED
      <4>1. Len(K[n]) \in Int /\ 1 \in Int /\ ~(1 > Len(K[n]))
        BY <1>8, <2>1
      <4>2. Cardinality(1..Len(K[n])) = Len(K[n]) - 1 + 1
        BY <4>1, FS_Interval
      <4> QED
        BY <1>8, <3>2, <4>2
  <2>5. Cardinality(Nodes) # 0 /\ Least(1 + Cardinality(Nodes) - 1, Len(K[n])) = Len(K[n])
    BY <2>1, <2>4, <1>8, CardNat DEF Least
  <2>6. H[n].head # Null /\ n # Null /\ H[H[n].head].parent = n
    BY <2>2, <2>3, NodesAssumption DEF LinkedAt
  <2>7. From(H, K, H[n].head, Cardinality(Nodes)) = SubSeq(K[n], 1, Len(K[n]))
    BY <2>2, <2>3, <2>5, <2>6 DEF From
  <2> QED
    BY <1>7, <1>8, <2>7, SubSeqFull
<1> QED
  BY <1>9, <1>10

-----------------------------------------------------------------------------
(* The assignments of the operations, and what each leaves alone.           *)

\* Several links at once, as the operations write them, or one.
Placed(H, a, u, v, w) == [H EXCEPT ![a].parent = u, ![a].prev = v, ![a].next = w]
Ended(H, a, u, v) == [H EXCEPT ![a].head = u, ![a].tail = v]
Followed(H, a, b, u, v) == [H EXCEPT ![a].next = u, ![b].tail = v]
Preceded(H, a, b, u, v) == [H EXCEPT ![a].prev = u, ![b].head = v]
Keyed(H, a, u) == [H EXCEPT ![a].key = u]
SetPrev(H, a, u) == [H EXCEPT ![a].prev = u]
SetNext(H, a, u) == [H EXCEPT ![a].next = u]
SetHead(H, a, u) == [H EXCEPT ![a].head = u]
SetTail(H, a, u) == [H EXCEPT ![a].tail = u]
SetParent(H, a, u) == [H EXCEPT ![a].parent = u]

\* What each assignment changes, and that it changes nothing else.
LEMMA SetParentIs ==
  ASSUME NEW H \in [Nodes -> Cell], NEW a \in Nodes, NEW u \in Slots
  PROVE  LET G == SetParent(H, a, u) IN
         /\ G \in [Nodes -> Cell]
         /\ \A x \in Nodes :
              /\ G[x].tag = H[x].tag /\ G[x].key = H[x].key /\ G[x].head = H[x].head
              /\ G[x].tail = H[x].tail /\ G[x].prev = H[x].prev /\ G[x].next = H[x].next
              /\ G[x].parent = IF x = a THEN u ELSE H[x].parent
  BY DEF SetParent, Cell, Slots

\* The last child a is followed by u, the new end of b.
LEMMA FollowedIs ==
  ASSUME NEW H \in [Nodes -> Cell], NEW a \in Nodes, NEW b \in Nodes, NEW u \in Slots, NEW v \in Slots
  PROVE  LET G == Followed(H, a, b, u, v) IN
         /\ G \in [Nodes -> Cell]
         /\ \A x \in Nodes :
              /\ G[x].tag = H[x].tag /\ G[x].key = H[x].key /\ G[x].head = H[x].head
              /\ G[x].parent = H[x].parent /\ G[x].prev = H[x].prev
              /\ G[x].next = IF x = a THEN u ELSE H[x].next
              /\ G[x].tail = IF x = b THEN v ELSE H[x].tail
  BY DEF Followed, Cell, Slots

\* The first child a is preceded by u, the new head of b.
LEMMA PrecededIs ==
  ASSUME NEW H \in [Nodes -> Cell], NEW a \in Nodes, NEW b \in Nodes, NEW u \in Slots, NEW v \in Slots
  PROVE  LET G == Preceded(H, a, b, u, v) IN
         /\ G \in [Nodes -> Cell]
         /\ \A x \in Nodes :
              /\ G[x].tag = H[x].tag /\ G[x].key = H[x].key /\ G[x].tail = H[x].tail
              /\ G[x].parent = H[x].parent /\ G[x].next = H[x].next
              /\ G[x].prev = IF x = a THEN u ELSE H[x].prev
              /\ G[x].head = IF x = b THEN v ELSE H[x].head
  BY DEF Preceded, Cell, Slots

\* What a memory G has that differs from H in the key of a.
KeyedAs(G, H, a, u) ==
  /\ G \in [Nodes -> Cell]
  /\ \A x \in Nodes :
       /\ G[x].tag = H[x].tag /\ G[x].head = H[x].head /\ G[x].tail = H[x].tail
       /\ G[x].parent = H[x].parent /\ G[x].prev = H[x].prev /\ G[x].next = H[x].next
       /\ G[x].key = IF x = a THEN u ELSE H[x].key

\* The key.
LEMMA KeyedIs ==
  ASSUME NEW H \in [Nodes -> Cell], NEW a \in Nodes, NEW u \in BOOLEAN
  PROVE  KeyedAs(Keyed(H, a, u), H, a, u)
  BY DEF KeyedAs, Keyed, Cell, Slots

\* The link to the sibling before.
LEMMA SetPrevIs ==
  ASSUME NEW H \in [Nodes -> Cell], NEW a \in Nodes, NEW u \in Slots
  PROVE  LET G == SetPrev(H, a, u) IN
         /\ G \in [Nodes -> Cell]
         /\ \A x \in Nodes :
              /\ G[x].tag = H[x].tag /\ G[x].key = H[x].key /\ G[x].head = H[x].head
              /\ G[x].tail = H[x].tail /\ G[x].parent = H[x].parent /\ G[x].next = H[x].next
              /\ G[x].prev = IF x = a THEN u ELSE H[x].prev
  BY DEF SetPrev, Cell, Slots

\* The link to the sibling after.
LEMMA SetNextIs ==
  ASSUME NEW H \in [Nodes -> Cell], NEW a \in Nodes, NEW u \in Slots
  PROVE  LET G == SetNext(H, a, u) IN
         /\ G \in [Nodes -> Cell]
         /\ \A x \in Nodes :
              /\ G[x].tag = H[x].tag /\ G[x].key = H[x].key /\ G[x].head = H[x].head
              /\ G[x].tail = H[x].tail /\ G[x].parent = H[x].parent /\ G[x].prev = H[x].prev
              /\ G[x].next = IF x = a THEN u ELSE H[x].next
  BY DEF SetNext, Cell, Slots

\* What a memory G has that differs from H in the head of a.
SetHeadAs(G, H, a, u) ==
  /\ G \in [Nodes -> Cell]
  /\ \A x \in Nodes :
       /\ G[x].tag = H[x].tag /\ G[x].key = H[x].key /\ G[x].tail = H[x].tail
       /\ G[x].parent = H[x].parent /\ G[x].prev = H[x].prev /\ G[x].next = H[x].next
       /\ G[x].head = IF x = a THEN u ELSE H[x].head

\* The first child.
LEMMA SetHeadIs ==
  ASSUME NEW H \in [Nodes -> Cell], NEW a \in Nodes, NEW u \in Slots
  PROVE  SetHeadAs(SetHead(H, a, u), H, a, u)
  BY DEF SetHeadAs, SetHead, Cell, Slots

\* The last child.
LEMMA SetTailIs ==
  ASSUME NEW H \in [Nodes -> Cell], NEW a \in Nodes, NEW u \in Slots
  PROVE  LET G == SetTail(H, a, u) IN
         /\ G \in [Nodes -> Cell]
         /\ \A x \in Nodes :
              /\ G[x].tag = H[x].tag /\ G[x].key = H[x].key /\ G[x].head = H[x].head
              /\ G[x].parent = H[x].parent /\ G[x].prev = H[x].prev /\ G[x].next = H[x].next
              /\ G[x].tail = IF x = a THEN u ELSE H[x].tail
  BY DEF SetTail, Cell, Slots

\* What a memory G has in which only a has new links to its parent and siblings.
PlacedAs(G, H, a, u, v, w) ==
  /\ G \in [Nodes -> Cell]
  /\ \A x \in Nodes :
       /\ G[x].tag = H[x].tag /\ G[x].key = H[x].key /\ G[x].head = H[x].head
       /\ G[x].tail = H[x].tail
       /\ G[x].parent = IF x = a THEN u ELSE H[x].parent
       /\ G[x].prev = IF x = a THEN v ELSE H[x].prev
       /\ G[x].next = IF x = a THEN w ELSE H[x].next

\* All links of a child are the three of them.
LEMMA PlacedIs ==
  ASSUME NEW H \in [Nodes -> Cell], NEW a \in Nodes, NEW u \in Slots, NEW v \in Slots, NEW w \in Slots
  PROVE  PlacedAs(Placed(H, a, u, v, w), H, a, u, v, w)
<1> DEFINE A == SetParent(H, a, u)
           B == SetPrev(A, a, v)
           C == SetNext(B, a, w)
<1>1. Placed(H, a, u, v, w) = C
  BY DEF Placed, SetParent, SetPrev, SetNext
<1>2. A \in [Nodes -> Cell] /\ \A x \in Nodes :
        /\ A[x].tag = H[x].tag /\ A[x].key = H[x].key /\ A[x].head = H[x].head
        /\ A[x].tail = H[x].tail /\ A[x].prev = H[x].prev /\ A[x].next = H[x].next
        /\ A[x].parent = IF x = a THEN u ELSE H[x].parent
  BY SetParentIs
<1> HIDE DEF A
<1>3. B \in [Nodes -> Cell] /\ \A x \in Nodes :
        /\ B[x].tag = A[x].tag /\ B[x].key = A[x].key /\ B[x].head = A[x].head
        /\ B[x].tail = A[x].tail /\ B[x].parent = A[x].parent /\ B[x].next = A[x].next
        /\ B[x].prev = IF x = a THEN v ELSE A[x].prev
  BY <1>2, SetPrevIs
<1> HIDE DEF B
<1>4. C \in [Nodes -> Cell] /\ \A x \in Nodes :
        /\ C[x].tag = B[x].tag /\ C[x].key = B[x].key /\ C[x].head = B[x].head
        /\ C[x].tail = B[x].tail /\ C[x].parent = B[x].parent /\ C[x].prev = B[x].prev
        /\ C[x].next = IF x = a THEN w ELSE B[x].next
  BY <1>3, SetNextIs
<1> HIDE DEF C
<1> QED
  BY <1>1, <1>2, <1>3, <1>4 DEF PlacedAs

\* Both ends of a list of one child.
LEMMA EndedIs ==
  ASSUME NEW H \in [Nodes -> Cell], NEW a \in Nodes, NEW u \in Slots, NEW v \in Slots
  PROVE  LET G == Ended(H, a, u, v) IN
         /\ G \in [Nodes -> Cell]
         /\ \A x \in Nodes :
              /\ G[x].tag = H[x].tag /\ G[x].key = H[x].key /\ G[x].parent = H[x].parent
              /\ G[x].prev = H[x].prev /\ G[x].next = H[x].next
              /\ G[x].head = IF x = a THEN u ELSE H[x].head
              /\ G[x].tail = IF x = a THEN v ELSE H[x].tail
<1> DEFINE A == SetHead(H, a, u)
           B == SetTail(A, a, v)
<1>1. Ended(H, a, u, v) = B
  BY DEF Ended, SetHead, SetTail
<1>2. SetHeadAs(A, H, a, u)
  BY SetHeadIs
<1> HIDE DEF A
<1>3. B \in [Nodes -> Cell] /\ \A x \in Nodes :
        /\ B[x].tag = A[x].tag /\ B[x].key = A[x].key /\ B[x].head = A[x].head
        /\ B[x].parent = A[x].parent /\ B[x].prev = A[x].prev /\ B[x].next = A[x].next
        /\ B[x].tail = IF x = a THEN v ELSE A[x].tail
  BY <1>2, SetTailIs DEF SetHeadAs
<1> HIDE DEF B
<1> QED
  BY <1>1, <1>2, <1>3 DEF SetHeadAs

-----------------------------------------------------------------------------
(* What the calls do to the lists.                                         *)

\* A child has its parent, and is nobody else's.
LEMMA ChildIs ==
  ASSUME NEW H, NEW K, Lists(H, K), NEW n \in Nodes, NEW i \in 1..Len(K[n])
  PROVE  /\ K[n][i] \in Nodes /\ H[K[n][i]].parent = n /\ H[K[n][i]].parent # Null
         /\ LinkedAt(H, K[n], n, i)
         /\ K[n] \in Seq(Nodes) /\ Len(K[n]) \in Nat /\ K[n] # <<>>
<1>1. K[n] \in Seq(Nodes) /\ Len(K[n]) \in Nat /\ LinkedAt(H, K[n], n, i)
  BY DEF Lists
<1>2. K[n][i] \in Nodes
  BY <1>1, ElementOfSeq
<1>3. K[n] # <<>>
  BY <1>1, EmptySeq
<1> QED
  BY <1>1, <1>2, <1>3, NodesAssumption DEF LinkedAt

\* The tail is the last child, the head the first, and null for an empty list.
LEMMA LastIs ==
  ASSUME NEW H, NEW K, Lists(H, K), NEW p \in Nodes
  PROVE  /\ K[p] \in Seq(Nodes) /\ Len(K[p]) \in Nat
         /\ H[p].tail = Null <=> K[p] = <<>>
         /\ H[p].head = Null <=> K[p] = <<>>
         /\ K[p] = <<>> <=> Len(K[p]) = 0
         /\ K[p] # <<>> => /\ Len(K[p]) \in 1..Len(K[p]) /\ 1 \in 1..Len(K[p])
                           /\ H[p].tail = K[p][Len(K[p])] /\ H[p].tail \in Nodes
                           /\ H[p].head = K[p][1] /\ H[p].head \in Nodes
<1>1. K[p] \in Seq(Nodes) /\ Len(K[p]) \in Nat /\ Ends(H, K[p], p)
  BY DEF Lists
<1>2. K[p] = <<>> <=> Len(K[p]) = 0
  BY <1>1, EmptySeq
<1>3. K[p] # <<>> => Len(K[p]) \in 1..Len(K[p]) /\ 1 \in 1..Len(K[p])
  BY <1>1, <1>2
<1>4. K[p] # <<>> => K[p][1] \in Nodes /\ K[p][Len(K[p])] \in Nodes
  BY <1>1, <1>3, ElementOfSeq
<1> QED
  BY <1>1, <1>2, <1>3, <1>4, NodesAssumption DEF Ends

\* Only c has another parent, p, and no node another tag.
Hung(G, H, c, p) ==
  \A x \in Nodes : G[x].tag = H[x].tag /\ G[x].parent = IF x = c THEN p ELSE H[x].parent

\* append_node (json.c:536-547) with the key of a member.
Appended(p, c) == [AppendNode(p, c) EXCEPT ![c].key = node[p].tag = "object"]

\* json_append_element, json_append_member (json.c:562-599): the child is at the
\* end of its parent's list.  That it has no parent yet is what keeps it in one list.
LEMMA AppendLists ==
  ASSUME NEW K, Lists(node, K), NEW p \in Nodes, NEW c \in Nodes, May(p, c)
  PROVE  /\ Lists(Appended(p, c), [K EXCEPT ![p] = Append(@, c)])
         /\ Hung(Appended(p, c), node, c, p)
<1> DEFINE G == Appended(p, c)
           L == [K EXCEPT ![p] = Append(@, c)]
           s == K[p]
           last == node[p].tail
<1>1. node \in [Nodes -> Cell] /\ K \in [Nodes -> Seq(Nodes)]
  BY DEF Lists
<1>2. /\ node[p].tag \in {"array", "object"} /\ node[c].tag # "freed" /\ node[c].parent = Null
      /\ Apart(node, c)
  BY DEF May, Inner, Live, Lists
<1>3. /\ s \in Seq(Nodes) /\ Len(s) \in Nat /\ (last = Null <=> s = <<>>) /\ (s = <<>> <=> Len(s) = 0)
      /\ s # <<>> => /\ Len(s) \in 1..Len(s) /\ 1 \in 1..Len(s) /\ last = s[Len(s)] /\ last \in Nodes
                     /\ node[p].head = s[1]
  BY LastIs
<1>4. last # Null => node[last].parent = p /\ last # c
  BY <1>2, <1>3, ChildIs
<1>5. /\ L \in [Nodes -> Seq(Nodes)] /\ L[p] = Append(s, c) /\ \A n \in Nodes \ {p} : L[n] = K[n]
      /\ Len(L[p]) = Len(s) + 1 /\ L[p][Len(s) + 1] = c /\ \A i \in 1..Len(s) : L[p][i] = s[i]
  BY <1>1, <1>3, AppendProperties
<1>6. /\ G \in [Nodes -> Cell]
      /\ \A x \in Nodes :
           /\ G[x].tag = node[x].tag
           /\ G[x].parent = IF x = c THEN p ELSE node[x].parent
           /\ G[x].prev = IF x = c THEN last ELSE node[x].prev
           /\ G[x].next = IF x = c THEN Null ELSE IF x = last THEN c ELSE node[x].next
           /\ G[x].head = IF x = p /\ last = Null THEN c ELSE node[x].head
           /\ G[x].tail = IF x = p THEN c ELSE node[x].tail
           /\ G[x].key = IF x = c THEN node[p].tag = "object" ELSE node[x].key
  <2> DEFINE A == Placed(node, c, p, last, Null)
             B == IF last = Null THEN Ended(A, p, c, c)
                  ELSE Followed(A, last, p, c, c)
  <2>1. G = Keyed(B, c, node[p].tag = "object")
    BY DEF AppendNode, Linked, Placed, Ended, Appended, Followed, Keyed
  <2>2. p \in Slots /\ c \in Slots /\ last \in Slots /\ Null \in Slots /\ (last # Null => last \in Nodes)
    BY <1>3 DEF Slots
  <2>8. /\ A = Placed(node, c, p, last, Null)
        /\ last = Null => B = Ended(A, p, c, c)
        /\ last # Null => B = Followed(A, last, p, c, c)
    OBVIOUS
  <2> HIDE DEF A, B, G, L, last, s
  <2>3. /\ A \in [Nodes -> Cell]
        /\ \A x \in Nodes :
             /\ A[x].tag = node[x].tag /\ A[x].key = node[x].key
             /\ A[x].head = node[x].head /\ A[x].tail = node[x].tail
             /\ A[x].parent = IF x = c THEN p ELSE node[x].parent
             /\ A[x].prev = IF x = c THEN last ELSE node[x].prev
             /\ A[x].next = IF x = c THEN Null ELSE node[x].next
    <3>1. node \in [Nodes -> Cell] /\ p \in Slots /\ last \in Slots /\ Null \in Slots
      BY <1>1, <2>2
    <3>2. A = Placed(node, c, p, last, Null)
      BY <2>8
    <3>3. PlacedAs(A, node, c, p, last, Null)
      BY <3>1, <3>2, PlacedIs
    <3> QED
      BY <3>3 DEF PlacedAs
  <2>4. /\ B \in [Nodes -> Cell]
        /\ \A x \in Nodes :
             /\ B[x].tag = A[x].tag /\ B[x].key = A[x].key
             /\ B[x].parent = A[x].parent /\ B[x].prev = A[x].prev
             /\ B[x].next = IF x = last /\ last # Null THEN c ELSE A[x].next
             /\ B[x].head = IF x = p /\ last = Null THEN c ELSE A[x].head
             /\ B[x].tail = IF x = p THEN c ELSE A[x].tail
    <3>1. CASE last = Null
      BY <2>2, <2>3, <2>8, <3>1, EndedIs
    <3>2. CASE last # Null
      <4>1. last \in Nodes /\ c \in Slots /\ B = Followed(A, last, p, c, c)
        BY <2>2, <2>8, <3>2
      <4>2. /\ B \in [Nodes -> Cell]
            /\ \A x \in Nodes :
                 /\ B[x].tag = A[x].tag /\ B[x].key = A[x].key
                 /\ B[x].parent = A[x].parent /\ B[x].prev = A[x].prev
                 /\ B[x].next = IF x = last THEN c ELSE A[x].next
                 /\ B[x].head = A[x].head
                 /\ B[x].tail = IF x = p THEN c ELSE A[x].tail
        BY <2>3, <4>1, FollowedIs
      <4> QED
        BY <3>2, <4>2
    <3> QED
      BY <3>1, <3>2
  <2>5. /\ G \in [Nodes -> Cell]
        /\ \A x \in Nodes :
             /\ G[x].tag = B[x].tag /\ G[x].prev = B[x].prev /\ G[x].head = B[x].head
             /\ G[x].next = B[x].next /\ G[x].tail = B[x].tail /\ G[x].parent = B[x].parent
             /\ G[x].key = IF x = c THEN node[p].tag = "object" ELSE B[x].key
    <3> DEFINE u == (node[p].tag = "object")
    <3>1. u \in BOOLEAN
      OBVIOUS
    <3> HIDE DEF u
    <3>2. G = Keyed(B, c, u)
      BY <2>1 DEF u
    <3>4. KeyedAs(G, B, c, u)
      BY <2>4, <3>1, <3>2, KeyedIs
    <3>3. /\ G \in [Nodes -> Cell]
          /\ \A x \in Nodes :
             /\ G[x].tag = B[x].tag /\ G[x].prev = B[x].prev /\ G[x].head = B[x].head
             /\ G[x].next = B[x].next /\ G[x].tail = B[x].tail /\ G[x].parent = B[x].parent
             /\ G[x].key = IF x = c THEN u ELSE B[x].key
      BY <3>4 DEF KeyedAs
    <3> QED
      BY <3>3 DEF u
  <2>6. last = Null => last \notin Nodes
    BY NodesAssumption
  <2>7. \A x \in Nodes : G[x].next = IF x = c THEN Null ELSE IF x = last THEN c ELSE node[x].next
    BY <1>4, <2>3, <2>4, <2>5, <2>6
  <2> QED
    BY <2>3, <2>4, <2>5, <2>7
<1>0. Len(L[p]) \in 1..Len(L[p]) /\ L[p] # <<>>
  BY <1>3, <1>5, AppendProperties
<1> HIDE DEF G, L
<1>7. ASSUME NEW n \in Nodes PROVE Ends(G, L[n], n)
  <2>1. Ends(node, K[n], n)
    BY DEF Lists
  <2>2. CASE n = p
    <3>1. L[p] # <<>> /\ G[p].tail = L[p][Len(L[p])] /\ G[p].tag \in {"array", "object"}
      BY <1>0, <1>2, <1>5, <1>6
    <3>2. G[p].head = L[p][1]
      BY <1>3, <1>5, <1>6
    <3> QED
      BY <2>2, <3>1, <3>2 DEF Ends
  <2>3. CASE n # p
    BY <1>5, <1>6, <2>1, <2>3 DEF Ends
  <2> QED
    BY <2>2, <2>3
<1>8. ASSUME NEW n \in Nodes, NEW i \in 1..Len(K[n])
      PROVE  /\ K[n][i] \in Nodes /\ K[n][i] # c
             /\ K[n][i] = last <=> n = p /\ i = Len(s)
  <2>1. K[n][i] \in Nodes /\ node[K[n][i]].parent = n /\ K[n][i] # c
    BY <1>2, ChildIs
  <2>2. K[n][i] = last => n = p
    <3>1. K[n][i] # Null
      BY <2>1, NodesAssumption
    <3> QED
      BY <1>4, <2>1, <3>1
  <2>3. n = p => (K[n][i] = last <=> i = Len(s))
    <3>1. Once(K[p])
      BY DEF Lists
    <3> QED
      BY <1>3, <2>1, <3>1, EmptySeq DEF Once
  <2> QED
    BY <2>1, <2>2, <2>3
<1>9. ASSUME NEW n \in Nodes PROVE Once(L[n])
  <2>1. Once(K[n])
    BY DEF Lists
  <2>2. CASE n = p
    <3>1. \A i \in 1..Len(s) : L[p][i] = s[i] /\ s[i] # c
      BY <1>5, <1>8
    <3>2. ASSUME NEW i \in 1..Len(s) + 1, NEW j \in 1..Len(s) + 1, L[p][i] = L[p][j] PROVE i = j
      <4>1. (i \in 1..Len(s) \/ i = Len(s) + 1) /\ (j \in 1..Len(s) \/ j = Len(s) + 1)
        BY <1>3
      <4> QED
        BY <1>5, <2>1, <2>2, <3>1, <3>2, <4>1 DEF Once
    <3> QED
      BY <1>5, <2>2, <3>2 DEF Once
  <2>3. CASE n # p
    BY <1>5, <2>1, <2>3
  <2> QED
    BY <2>2, <2>3
<1>10. ASSUME NEW n \in Nodes, NEW i \in 1..Len(L[n]) PROVE LinkedAt(G, L[n], n, i)
  <2>1. CASE n # p
    <3>1. L[n] = K[n] /\ i \in 1..Len(K[n])
      BY <1>5, <2>1
    <3>2. LinkedAt(node, K[n], n, i) /\ K[n][i] \in Nodes /\ K[n][i] # c /\ K[n][i] # last
      BY <1>8, <2>1, <3>1, ChildIs
    <3> QED
      BY <1>6, <3>1, <3>2 DEF LinkedAt
  <2>2. CASE n = p /\ i = Len(s) + 1
    <3>1. L[p][i] = c /\ i = Len(L[p]) /\ (i = 1 <=> s = <<>>)
      BY <1>3, <1>5, <2>2
    <3>2. s # <<>> => L[p][i - 1] = last
      <4>1. i - 1 = Len(s)
        BY <1>3, <2>2
      <4> QED
        BY <1>3, <1>5, <4>1
    <3> QED
      BY <1>2, <1>3, <1>6, <2>2, <3>1, <3>2 DEF LinkedAt
  <2>3. CASE n = p /\ i # Len(s) + 1
    <3>1. i \in 1..Len(s) /\ L[p][i] = s[i]
      BY <1>3, <1>5, <2>3
    <3>2. LinkedAt(node, s, p, i) /\ s[i] \in Nodes /\ s[i] # c /\ (s[i] = last <=> i = Len(s))
      BY <1>8, <2>3, <3>1, ChildIs
    <3>3. i # 1 => L[p][i - 1] = s[i - 1]
      BY <1>3, <1>5, <3>1
    <3>4. L[p][i + 1] = IF i = Len(s) THEN c ELSE s[i + 1]
      <4>1. i # Len(s) => i + 1 \in 1..Len(s)
        BY <1>3, <3>1
      <4> QED
        BY <1>5, <3>1, <4>1
    <3>5. i # Len(L[p])
      BY <1>5, <2>3
    <3>6. node[s[i]].prev = G[s[i]].prev /\ G[s[i]].parent = p
      BY <1>6, <3>2 DEF LinkedAt
    <3>7. G[s[i]].next = L[p][i + 1]
      BY <1>6, <3>2, <3>4 DEF LinkedAt
    <3>8. G[s[i]].prev = IF i = 1 THEN Null ELSE L[p][i - 1]
      BY <3>2, <3>3, <3>6 DEF LinkedAt
    <3>9. G[s[i]].tag # "freed" /\ G[s[i]].key = (G[p].tag = "object")
      BY <1>6, <3>2 DEF LinkedAt
    <3> QED
      BY <2>3, <3>1, <3>5, <3>6, <3>7, <3>8, <3>9 DEF LinkedAt
  <2> QED
    BY <2>1, <2>2, <2>3
<1>11. ASSUME NEW x \in Nodes, G[x].parent = Null PROVE Apart(G, x)
  <2>1. x # c /\ node[x].parent = Null /\ x # last
    BY <1>3, <1>4, <1>6, <1>11, NodesAssumption
  <2>2. Apart(node, x)
    BY <2>1 DEF Lists
  <2> QED
    BY <1>6, <2>1, <2>2 DEF Apart
<1>12. ASSUME NEW x \in Nodes, G[x].parent # Null
       PROVE  \E i \in 1..Len(L[G[x].parent]) : L[G[x].parent][i] = x
  <2>1. CASE x = c
    <3>1. G[x].parent = p /\ Len(s) + 1 \in 1..Len(L[p]) /\ L[p][Len(s) + 1] = x
      BY <1>3, <1>5, <1>6, <2>1
    <3> QED
      BY <3>1
  <2>2. CASE x # c
    <3>1. node[x].parent # Null /\ G[x].parent = node[x].parent
      BY <1>6, <1>12, <2>2
    <3>2. PICK i \in 1..Len(K[node[x].parent]) : K[node[x].parent][i] = x
      BY <3>1 DEF Lists
    <3>3. node[x].parent \in Nodes
      BY <1>1, <3>1 DEF Cell
    <3>4. i \in 1..Len(L[node[x].parent]) /\ L[node[x].parent][i] = x
      <4>1. CASE node[x].parent = p
        <5>1. i \in 1..Len(s) /\ s[i] = x
          BY <3>2, <4>1
        <5>2. i \in 1..Len(L[p])
          BY <1>3, <1>5, <5>1
        <5> QED
          BY <1>5, <4>1, <5>1, <5>2
      <4>2. CASE node[x].parent # p
        BY <1>5, <3>2, <3>3, <4>2
      <4> QED
        BY <4>1, <4>2
    <3> QED
      BY <3>1, <3>4
  <2> QED
    BY <2>1, <2>2
<1>13. Lists(G, L)
  BY <1>5, <1>6, <1>7, <1>9, <1>10, <1>11, <1>12 DEF Lists
<1> QED
  BY <1>6, <1>13 DEF G, L, Hung

\* prepend_node (json.c:549-560) with the key of a member.
Prepended(p, c) == [PrependNode(p, c) EXCEPT ![c].key = node[p].tag = "object"]

\* json_prepend_element, json_prepend_member (json.c:562-599): the child is at the
\* head of its parent's list.
LEMMA PrependLists ==
  ASSUME NEW K, Lists(node, K), NEW p \in Nodes, NEW c \in Nodes, May(p, c)
  PROVE  /\ Lists(Prepended(p, c), [K EXCEPT ![p] = <<c>> \o @])
         /\ Hung(Prepended(p, c), node, c, p)
<1> DEFINE G == Prepended(p, c)
           L == [K EXCEPT ![p] = <<c>> \o @]
           s == K[p]
           first == node[p].head
<1>1. node \in [Nodes -> Cell] /\ K \in [Nodes -> Seq(Nodes)]
  BY DEF Lists
<1>2. /\ node[p].tag \in {"array", "object"} /\ node[c].tag # "freed" /\ node[c].parent = Null
      /\ Apart(node, c)
  BY DEF May, Inner, Live, Lists
<1>3. /\ s \in Seq(Nodes) /\ Len(s) \in Nat /\ (first = Null <=> s = <<>>) /\ (s = <<>> <=> Len(s) = 0)
      /\ s # <<>> => /\ Len(s) \in 1..Len(s) /\ 1 \in 1..Len(s) /\ first = s[1] /\ first \in Nodes
                     /\ node[p].tail = s[Len(s)]
  BY LastIs
<1>4. first # Null => node[first].parent = p /\ first # c
  BY <1>2, <1>3, ChildIs
<1>5. /\ L \in [Nodes -> Seq(Nodes)] /\ L[p] = <<c>> \o s /\ \A n \in Nodes \ {p} : L[n] = K[n]
      /\ Len(L[p]) = Len(s) + 1 /\ L[p][1] = c /\ \A i \in 1..Len(s) : L[p][i + 1] = s[i]
  <2>1. <<c>> \in Seq(Nodes) /\ Len(<<c>>) = 1 /\ <<c>>[1] = c
    OBVIOUS
  <2>2. /\ <<c>> \o s \in Seq(Nodes) /\ Len(<<c>> \o s) = 1 + Len(s)
        /\ \A i \in 1..(1 + Len(s)) : (<<c>> \o s)[i] = IF i <= 1 THEN <<c>>[i] ELSE s[i - 1]
    BY <1>3, <2>1, ConcatProperties
  <2>3. L \in [Nodes -> Seq(Nodes)] /\ L[p] = <<c>> \o s /\ \A n \in Nodes \ {p} : L[n] = K[n]
    BY <1>1, <2>2
  <2>4. L[p][1] = c /\ \A i \in 1..Len(s) : L[p][i + 1] = s[i]
    <3> HIDE DEF L, s
    <3>1. 1 \in 1..(1 + Len(s))
      BY <1>3
    <3>2. L[p][1] = c
      BY <2>1, <2>2, <2>3, <3>1
    <3>3. ASSUME NEW i \in 1..Len(s) PROVE L[p][i + 1] = s[i]
      <4>1. i + 1 \in 1..(1 + Len(s)) /\ ~(i + 1 <= 1) /\ (i + 1) - 1 = i
        BY <1>3
      <4> QED
        BY <2>2, <2>3, <4>1
    <3> QED
      BY <3>2, <3>3
  <2> QED
    BY <1>3, <2>2, <2>3, <2>4
<1>6. /\ G \in [Nodes -> Cell]
      /\ \A x \in Nodes :
           /\ G[x].tag = node[x].tag
           /\ G[x].parent = IF x = c THEN p ELSE node[x].parent
           /\ G[x].prev = IF x = c THEN Null ELSE IF x = first THEN c ELSE node[x].prev
           /\ G[x].next = IF x = c THEN first ELSE node[x].next
           /\ G[x].head = IF x = p THEN c ELSE node[x].head
           /\ G[x].tail = IF x = p /\ first = Null THEN c ELSE node[x].tail
           /\ G[x].key = IF x = c THEN node[p].tag = "object" ELSE node[x].key
  <2> DEFINE A == Placed(node, c, p, Null, first)
             B == IF first = Null THEN Ended(A, p, c, c)
                  ELSE Preceded(A, first, p, c, c)
  <2>1. G = Keyed(B, c, node[p].tag = "object")
    BY DEF PrependNode, Linked, Placed, Ended, Prepended, Preceded, Keyed
  <2>2. p \in Slots /\ c \in Slots /\ first \in Slots /\ Null \in Slots /\ (first # Null => first \in Nodes)
    BY <1>3 DEF Slots
  <2>8. /\ A = Placed(node, c, p, Null, first)
        /\ first = Null => B = Ended(A, p, c, c)
        /\ first # Null => B = Preceded(A, first, p, c, c)
    OBVIOUS
  <2> HIDE DEF A, B, G, L, first, s
  <2>3. /\ A \in [Nodes -> Cell]
        /\ \A x \in Nodes :
             /\ A[x].tag = node[x].tag /\ A[x].key = node[x].key
             /\ A[x].head = node[x].head /\ A[x].tail = node[x].tail
             /\ A[x].parent = IF x = c THEN p ELSE node[x].parent
             /\ A[x].prev = IF x = c THEN Null ELSE node[x].prev
             /\ A[x].next = IF x = c THEN first ELSE node[x].next
    <3>1. node \in [Nodes -> Cell] /\ p \in Slots /\ first \in Slots /\ Null \in Slots
      BY <1>1, <2>2
    <3>2. A = Placed(node, c, p, Null, first)
      BY <2>8
    <3> QED
      <4>1. PlacedAs(A, node, c, p, Null, first)
        BY <3>1, <3>2, PlacedIs
      <4> QED
        BY <4>1 DEF PlacedAs
  <2>4. /\ B \in [Nodes -> Cell]
        /\ \A x \in Nodes :
             /\ B[x].tag = A[x].tag /\ B[x].key = A[x].key
             /\ B[x].parent = A[x].parent /\ B[x].next = A[x].next
             /\ B[x].prev = IF x = first /\ first # Null THEN c ELSE A[x].prev
             /\ B[x].head = IF x = p THEN c ELSE A[x].head
             /\ B[x].tail = IF x = p /\ first = Null THEN c ELSE A[x].tail
    <3>1. CASE first = Null
      BY <2>2, <2>3, <2>8, <3>1, EndedIs
    <3>2. CASE first # Null
      <4>1. first \in Nodes /\ c \in Slots /\ B = Preceded(A, first, p, c, c)
        BY <2>2, <2>8, <3>2
      <4>2. /\ B \in [Nodes -> Cell]
            /\ \A x \in Nodes :
                 /\ B[x].tag = A[x].tag /\ B[x].key = A[x].key
                 /\ B[x].parent = A[x].parent /\ B[x].next = A[x].next
                 /\ B[x].prev = IF x = first THEN c ELSE A[x].prev
                 /\ B[x].head = IF x = p THEN c ELSE A[x].head
                 /\ B[x].tail = A[x].tail
        BY <2>3, <4>1, PrecededIs
      <4> QED
        BY <3>2, <4>2
    <3> QED
      BY <3>1, <3>2
  <2>5. /\ G \in [Nodes -> Cell]
        /\ \A x \in Nodes :
             /\ G[x].tag = B[x].tag /\ G[x].prev = B[x].prev /\ G[x].head = B[x].head
             /\ G[x].next = B[x].next /\ G[x].tail = B[x].tail /\ G[x].parent = B[x].parent
             /\ G[x].key = IF x = c THEN node[p].tag = "object" ELSE B[x].key
    <3> DEFINE u == (node[p].tag = "object")
    <3>1. u \in BOOLEAN
      OBVIOUS
    <3> HIDE DEF u
    <3>2. G = Keyed(B, c, u)
      BY <2>1 DEF u
    <3>4. KeyedAs(G, B, c, u)
      BY <2>4, <3>1, <3>2, KeyedIs
    <3>3. /\ G \in [Nodes -> Cell]
          /\ \A x \in Nodes :
             /\ G[x].tag = B[x].tag /\ G[x].prev = B[x].prev /\ G[x].head = B[x].head
             /\ G[x].next = B[x].next /\ G[x].tail = B[x].tail /\ G[x].parent = B[x].parent
             /\ G[x].key = IF x = c THEN u ELSE B[x].key
      BY <3>4 DEF KeyedAs
    <3> QED
      BY <3>3 DEF u
  <2>6. first = Null => first \notin Nodes
    BY NodesAssumption
  <2>7. \A x \in Nodes : G[x].prev = IF x = c THEN Null ELSE IF x = first THEN c ELSE node[x].prev
    BY <1>4, <2>3, <2>4, <2>5, <2>6
  <2> QED
    BY <2>3, <2>4, <2>5, <2>7
<1>0. Len(L[p]) \in 1..Len(L[p]) /\ L[p] # <<>>
  BY <1>3, <1>5, EmptySeq
<1> HIDE DEF G, L
<1>7. ASSUME NEW n \in Nodes PROVE Ends(G, L[n], n)
  <2>1. Ends(node, K[n], n)
    BY DEF Lists
  <2>2. CASE n = p
    <3>1. L[p] # <<>> /\ G[p].head = L[p][1] /\ G[p].tag \in {"array", "object"}
      BY <1>0, <1>2, <1>5, <1>6
    <3>2. G[p].tail = L[p][Len(L[p])]
      BY <1>3, <1>5, <1>6
    <3> QED
      BY <2>2, <3>1, <3>2 DEF Ends
  <2>3. CASE n # p
    BY <1>5, <1>6, <2>1, <2>3 DEF Ends
  <2> QED
    BY <2>2, <2>3
<1>8. ASSUME NEW n \in Nodes, NEW i \in 1..Len(K[n])
      PROVE  /\ K[n][i] \in Nodes /\ K[n][i] # c
             /\ K[n][i] = first <=> n = p /\ i = 1
  <2>1. K[n][i] \in Nodes /\ node[K[n][i]].parent = n /\ K[n][i] # c
    BY <1>2, ChildIs
  <2>2. K[n][i] = first => n = p
    <3>1. K[n][i] # Null
      BY <2>1, NodesAssumption
    <3> QED
      BY <1>4, <2>1, <3>1
  <2>3. n = p => (K[n][i] = first <=> i = 1)
    <3>1. Once(K[p])
      BY DEF Lists
    <3> QED
      BY <1>3, <2>1, <3>1, EmptySeq DEF Once
  <2> QED
    BY <2>1, <2>2, <2>3
<1>9. ASSUME NEW n \in Nodes PROVE Once(L[n])
  <2>1. Once(K[n])
    BY DEF Lists
  <2>2. CASE n = p
    <3>1. \A i \in 1..Len(s) : L[p][i + 1] = s[i] /\ s[i] # c
      BY <1>5, <1>8
    <3>2. ASSUME NEW i \in 1..Len(s) + 1, NEW j \in 1..Len(s) + 1, L[p][i] = L[p][j] PROVE i = j
      <4>1. /\ i = 1 \/ (i - 1 \in 1..Len(s) /\ L[p][i] = s[i - 1])
            /\ j = 1 \/ (j - 1 \in 1..Len(s) /\ L[p][j] = s[j - 1])
        <5>1. i = 1 \/ (i - 1 \in 1..Len(s) /\ (i - 1) + 1 = i)
          BY <1>3
        <5>2. j = 1 \/ (j - 1 \in 1..Len(s) /\ (j - 1) + 1 = j)
          BY <1>3
        <5> QED
          BY <3>1, <5>1, <5>2
      <4>2. i = 1 <=> j = 1
        BY <1>5, <3>1, <3>2, <4>1
      <4>3. i # 1 => i - 1 = j - 1
        BY <2>1, <2>2, <3>2, <4>1, <4>2 DEF Once
      <4> QED
        BY <4>2, <4>3
    <3> QED
      BY <1>5, <2>2, <3>2 DEF Once
  <2>3. CASE n # p
    BY <1>5, <2>1, <2>3
  <2> QED
    BY <2>2, <2>3
<1>10. ASSUME NEW n \in Nodes, NEW i \in 1..Len(L[n]) PROVE LinkedAt(G, L[n], n, i)
  <2>1. CASE n # p
    <3>1. L[n] = K[n] /\ i \in 1..Len(K[n])
      BY <1>5, <2>1
    <3>2. LinkedAt(node, K[n], n, i) /\ K[n][i] \in Nodes /\ K[n][i] # c /\ K[n][i] # first
      BY <1>8, <2>1, <3>1, ChildIs
    <3> QED
      BY <1>6, <3>1, <3>2 DEF LinkedAt
  <2>2. CASE n = p /\ i = 1
    <3>1. L[p][i] = c /\ (i = Len(L[p]) <=> s = <<>>)
      BY <1>3, <1>5, <2>2
    <3>2. s # <<>> => L[p][i + 1] = first
      BY <1>3, <1>5, <2>2
    <3> QED
      BY <1>2, <1>3, <1>6, <2>2, <3>1, <3>2 DEF LinkedAt
  <2>3. CASE n = p /\ i # 1
    <3> DEFINE m == i - 1
    <3>1. m \in 1..Len(s) /\ m + 1 = i /\ L[p][i] = s[m]
      <4>1. m \in 1..Len(s) /\ m + 1 = i
        BY <1>3, <1>5, <2>3
      <4> QED
        BY <1>5, <4>1
    <3> HIDE DEF m
    <3>2. LinkedAt(node, s, p, m) /\ s[m] \in Nodes /\ s[m] # c /\ (s[m] = first <=> m = 1)
      BY <1>8, <2>3, <3>1, ChildIs
    <3>3. L[p][i - 1] = IF m = 1 THEN c ELSE s[m - 1]
      <4>1. m # 1 => m - 1 \in 1..Len(s) /\ (m - 1) + 1 = i - 1
        BY <1>3, <3>1
      <4>2. m = 1 => i - 1 = 1
        BY <3>1
      <4> QED
        BY <1>5, <4>1, <4>2
    <3>4. m # Len(s) => L[p][i + 1] = s[m + 1]
      <4>1. m # Len(s) => m + 1 \in 1..Len(s) /\ (m + 1) + 1 = i + 1
        BY <1>3, <3>1
      <4> QED
        BY <1>5, <4>1
    <3>5. i = Len(L[p]) <=> m = Len(s)
      <4>1. m \in Nat /\ i = m + 1 /\ Len(L[p]) = Len(s) + 1 /\ Len(s) \in Nat
        BY <1>3, <1>5, <3>1
      <4> HIDE DEF s
      <4> QED
        BY <4>1
    <3>6. node[s[m]].next = G[s[m]].next /\ G[s[m]].parent = p
      BY <1>6, <3>2 DEF LinkedAt
    <3>7. G[s[m]].prev = L[p][i - 1]
      BY <1>6, <3>2, <3>3 DEF LinkedAt
    <3>8. G[s[m]].next = IF i = Len(L[p]) THEN Null ELSE L[p][i + 1]
      BY <3>2, <3>4, <3>5, <3>6 DEF LinkedAt
    <3>9. G[s[m]].tag # "freed" /\ G[s[m]].key = (G[p].tag = "object")
      BY <1>6, <3>2 DEF LinkedAt
    <3> QED
      BY <2>3, <3>1, <3>6, <3>7, <3>8, <3>9 DEF LinkedAt
  <2> QED
    BY <2>1, <2>2, <2>3
<1>11. ASSUME NEW x \in Nodes, G[x].parent = Null PROVE Apart(G, x)
  <2>1. x # c /\ node[x].parent = Null /\ x # first
    BY <1>3, <1>4, <1>6, <1>11, NodesAssumption
  <2>2. Apart(node, x)
    BY <2>1 DEF Lists
  <2> QED
    BY <1>6, <2>1, <2>2 DEF Apart
<1>12. ASSUME NEW x \in Nodes, G[x].parent # Null
       PROVE  \E i \in 1..Len(L[G[x].parent]) : L[G[x].parent][i] = x
  <2>1. CASE x = c
    <3>1. G[x].parent = p /\ 1 \in 1..Len(L[p]) /\ L[p][1] = x
      BY <1>3, <1>5, <1>6, <2>1
    <3> QED
      BY <3>1
  <2>2. CASE x # c
    <3>1. node[x].parent # Null /\ G[x].parent = node[x].parent
      BY <1>6, <1>12, <2>2
    <3>2. PICK i \in 1..Len(K[node[x].parent]) : K[node[x].parent][i] = x
      BY <3>1 DEF Lists
    <3>3. node[x].parent \in Nodes
      BY <1>1, <3>1 DEF Cell
    <3>4. \E m \in 1..Len(L[node[x].parent]) : L[node[x].parent][m] = x
      <4>1. CASE node[x].parent = p
        <5>1. i \in 1..Len(s) /\ s[i] = x
          BY <3>2, <4>1
        <5>2. i + 1 \in 1..Len(L[p]) /\ L[p][i + 1] = x
          BY <1>3, <1>5, <5>1
        <5> QED
          BY <4>1, <5>2
      <4>2. CASE node[x].parent # p
        BY <1>5, <3>2, <3>3, <4>2
      <4> QED
        BY <4>1, <4>2
    <3> QED
      BY <3>1, <3>4
  <2> QED
    BY <2>1, <2>2
<1>13. Lists(G, L)
  BY <1>5, <1>6, <1>7, <1>9, <1>10, <1>11, <1>12 DEF Lists
<1> QED
  BY <1>6, <1>13 DEF G, L, Hung

\* What RemoveAt returns.
LEMMA RemoveAtIs ==
  ASSUME NEW S, NEW s \in Seq(S), NEW k \in 1..Len(s)
  PROVE  /\ RemoveAt(s, k) \in Seq(S) /\ Len(RemoveAt(s, k)) = Len(s) - 1
         /\ \A i \in 1..(Len(s) - 1) : RemoveAt(s, k)[i] = IF i < k THEN s[i] ELSE s[i + 1]
<1>1. Len(s) \in Nat /\ k \in Nat /\ k - 1 \in Int /\ k + 1 \in Int /\ Len(s) \in Int /\ 1 \in Int
  OBVIOUS
<1>2. /\ SubSeq(s, 1, k - 1) \in Seq(S) /\ Len(SubSeq(s, 1, k - 1)) = k - 1
      /\ \A i \in 1..(k - 1) : SubSeq(s, 1, k - 1)[i] = s[i]
  <2>1. \A i \in 1..(k - 1) : s[i] \in S
    BY ElementOfSeq
  <2>2. /\ SubSeq(s, 1, k - 1) \in Seq(S)
        /\ Len(SubSeq(s, 1, k - 1)) = IF 1 <= k - 1 THEN (k - 1) - 1 + 1 ELSE 0
        /\ \A i \in 1..((k - 1) - 1 + 1) : SubSeq(s, 1, k - 1)[i] = s[1 + i - 1]
    BY <1>1, <2>1, SubSeqProperties
  <2> QED
    BY <1>1, <2>2
<1>3. /\ SubSeq(s, k + 1, Len(s)) \in Seq(S) /\ Len(SubSeq(s, k + 1, Len(s))) = Len(s) - k
      /\ \A i \in 1..(Len(s) - k) : SubSeq(s, k + 1, Len(s))[i] = s[k + i]
  <2>1. \A i \in (k + 1)..Len(s) : s[i] \in S
    BY ElementOfSeq
  <2>2. /\ SubSeq(s, k + 1, Len(s)) \in Seq(S)
        /\ Len(SubSeq(s, k + 1, Len(s))) = IF k + 1 <= Len(s) THEN Len(s) - (k + 1) + 1 ELSE 0
        /\ \A i \in 1..(Len(s) - (k + 1) + 1) : SubSeq(s, k + 1, Len(s))[i] = s[(k + 1) + i - 1]
    BY <1>1, <2>1, SubSeqProperties
  <2>3. Len(s) - (k + 1) + 1 = Len(s) - k /\ \A i \in Int : (k + 1) + i - 1 = k + i
    BY <1>1
  <2>4. \A i \in 1..(Len(s) - k) : SubSeq(s, k + 1, Len(s))[i] = s[k + i]
    BY <2>2, <2>3
  <2>5. Len(SubSeq(s, k + 1, Len(s))) = Len(s) - k
    BY <1>1, <2>2
  <2> QED
    BY <2>2, <2>4, <2>5
<1> DEFINE a == SubSeq(s, 1, k - 1)
           b == SubSeq(s, k + 1, Len(s))
<1>4. RemoveAt(s, k) = a \o b
  BY DEF RemoveAt
<1> HIDE DEF a, b
<1>5. /\ a \o b \in Seq(S) /\ Len(a \o b) = Len(a) + Len(b)
      /\ \A i \in 1..(Len(a) + Len(b)) : (a \o b)[i] = IF i <= Len(a) THEN a[i] ELSE b[i - Len(a)]
  BY <1>2, <1>3, ConcatProperties DEF a, b
<1>6. Len(a) = k - 1 /\ Len(b) = Len(s) - k
  BY <1>2, <1>3 DEF a, b
<1>7. Len(a) + Len(b) = Len(s) - 1
  BY <1>1, <1>6
<1>8. ASSUME NEW i \in 1..(Len(s) - 1) PROVE (a \o b)[i] = IF i < k THEN s[i] ELSE s[i + 1]
  <2>1. CASE i < k
    <3>1. i \in 1..(k - 1) /\ i <= Len(a)
      BY <1>1, <1>6, <2>1
    <3>2. a[i] = s[i]
      BY <1>2, <3>1 DEF a
    <3> QED
      BY <1>5, <1>7, <2>1, <3>1, <3>2
  <2>2. CASE ~(i < k)
    <3>1. /\ ~(i <= Len(a)) /\ i - Len(a) \in 1..(Len(s) - k) /\ k + (i - Len(a)) = i + 1
      BY <1>1, <1>6, <2>2
    <3>2. b[i - Len(a)] = s[i + 1]
      BY <1>3, <3>1 DEF b
    <3> QED
      BY <1>5, <1>7, <2>2, <3>1, <3>2
  <2> QED
    BY <2>1, <2>2
<1> QED
  BY <1>4, <1>5, <1>7, <1>8

\* The lists without c, as JsonForest has it.
Taken(K, c) ==
  [q \in Nodes |-> IF c \in ToSet(K[q])
                   THEN RemoveAt(K[q], CHOOSE i \in DOMAIN K[q] : K[q][i] = c)
                   ELSE K[q]]

\* What is in a sequence.
LEMMA InSet ==
  ASSUME NEW s \in Seq(Nodes), NEW c
  PROVE  c \in ToSet(s) <=> \E i \in 1..Len(s) : s[i] = c
<1>1. DOMAIN s = 1..Len(s)
  OBVIOUS
<1> QED
  BY <1>1 DEF ToSet

\* The nodes of a list are those whose parent has it.
LEMMA ParentIs ==
  ASSUME NEW H, NEW K, Lists(H, K), NEW q \in Nodes, NEW c
  PROVE  c \in ToSet(K[q]) <=> c \in Nodes /\ H[c].parent = q
<1>0. c \in ToSet(K[q]) <=> \E i \in 1..Len(K[q]) : K[q][i] = c
  <2>1. K[q] \in Seq(Nodes)
    BY DEF Lists
  <2> QED
    BY <2>1, InSet
<1>1. ASSUME c \in ToSet(K[q]) PROVE c \in Nodes /\ H[c].parent = q
  <2>1. PICK i \in 1..Len(K[q]) : K[q][i] = c
    BY <1>0, <1>1, Zenon
  <2> QED
    BY <2>1, ChildIs
<1>2. ASSUME c \in Nodes, H[c].parent = q PROVE c \in ToSet(K[q])
  <2>1. H[c].parent # Null
    BY <1>2, NodesAssumption
  <2>2. \E i \in 1..Len(K[q]) : K[q][i] = c
    BY <1>2, <2>1 DEF Lists
  <2> QED
    BY <1>0, <2>2, Zenon
<1> QED
  BY <1>1, <1>2

\* Which lists there are without c.
LEMMA TakenIs ==
  ASSUME NEW H, NEW K, Lists(H, K), NEW c \in Nodes
  PROVE  /\ H[c].parent = Null => Taken(K, c) = K
         /\ H[c].parent # Null =>
              Taken(K, c) = [K EXCEPT ![H[c].parent] = RemoveAt(@, At(K, H[c].parent, c))]
<1>1. K \in [Nodes -> Seq(Nodes)] /\ \A q \in Nodes : DOMAIN K[q] = 1..Len(K[q])
  BY LenProperties DEF Lists
<1>2. ASSUME NEW q \in Nodes PROVE c \in ToSet(K[q]) => H[c].parent = q
  BY ParentIs
<1>3. CASE H[c].parent = Null
  <2>1. \A q \in Nodes : c \notin ToSet(K[q])
    BY <1>2, <1>3, NodesAssumption
  <2> QED
    BY <1>1, <1>3, <2>1 DEF Taken
<1>4. CASE H[c].parent # Null
  <2> DEFINE p == H[c].parent
  <2>1. p \in Nodes /\ c \in ToSet(K[p])
    BY <1>4, InList, ParentIs
  <2>2. \A q \in Nodes \ {p} : c \notin ToSet(K[q])
    BY <1>2
  <2>3. (CHOOSE i \in DOMAIN K[p] : K[p][i] = c) = At(K, p, c)
    BY <1>1, <2>1 DEF At
  <2> HIDE DEF p
  <2>4. Taken(K, c) = [K EXCEPT ![p] = RemoveAt(@, At(K, p, c))]
    <3>1. Taken(K, c) = [q \in Nodes |-> Taken(K, c)[q]]
      BY DEF Taken
    <3>2. Taken(K, c)[p] = RemoveAt(K[p], CHOOSE i \in DOMAIN K[p] : K[p][i] = c)
      BY <2>1 DEF Taken
    <3>3. Taken(K, c)[p] = RemoveAt(K[p], At(K, p, c))
      BY <2>3, <3>2
    <3>4. ASSUME NEW q \in Nodes, q # p PROVE Taken(K, c)[q] = K[q]
      <4>1. c \notin ToSet(K[q])
        BY <2>2, <3>4
      <4> QED
        BY <4>1 DEF Taken
    <3> QED
      BY <1>1, <2>1, <3>1, <3>3, <3>4
  <2> QED
    BY <1>4, <2>4 DEF p
<1> QED
  BY <1>3, <1>4

\* json_remove_from_parent (json.c:601-621): the siblings, or the ends of the list,
\* are linked around the child, whether it was first, last, both or neither.
LEMMA RemovedLists ==
  ASSUME NEW K, Lists(node, K), NEW n \in Nodes
  PROVE  /\ Lists(Removed(n), Taken(K, n))
         /\ Removed(n)[n].parent = Null
         /\ Hung(Removed(n), node, n, Null)
<1>1. node \in [Nodes -> Cell] /\ K \in [Nodes -> Seq(Nodes)]
  BY DEF Lists
<1>2. CASE node[n].parent = Null
  <2>1. Removed(n) = node /\ Taken(K, n) = K
    BY <1>2, TakenIs DEF Removed
  <2> QED
    BY <1>2, <2>1 DEF Hung
<1>3. CASE node[n].parent # Null
  <2> DEFINE p == node[n].parent
             s == K[p]
             k == At(K, p, n)
             G == Removed(n)
             L == Taken(K, n)
             before == node[n].prev
             after == node[n].next
  <2>1. p \in Nodes /\ k \in 1..Len(s) /\ s[k] = n
    BY <1>3, InList
  <2>2. /\ s \in Seq(Nodes) /\ Len(s) \in Nat /\ LinkedAt(node, s, p, k) /\ Once(s) /\ Ends(node, s, p)
        /\ s # <<>>
    BY <2>1, ChildIs DEF Lists
  <2>3. /\ before = IF k = 1 THEN Null ELSE s[k - 1]
        /\ after = IF k = Len(s) THEN Null ELSE s[k + 1]
    BY <2>1, <2>2 DEF LinkedAt
  <2>4. /\ k # 1 => k - 1 \in 1..Len(s) /\ k - 1 # k
        /\ k # Len(s) => k + 1 \in 1..Len(s) /\ k + 1 # k
    BY <2>1, <2>2
  <2>5. /\ k # 1 => before \in Nodes /\ before # n
        /\ k # Len(s) => after \in Nodes /\ after # n
    BY <2>1, <2>2, <2>3, <2>4, ElementOfSeq DEF Once
  <2>6. before \in Slots /\ after \in Slots /\ Null \in Slots
    BY <2>3, <2>5 DEF Slots
  <2>7. /\ before # Null <=> k # 1
        /\ after # Null <=> k # Len(s)
    BY <2>3, <2>5, NodesAssumption
  <2> DEFINE A == IF before # Null THEN SetNext(node, before, after) ELSE SetHead(node, p, after)
             B == IF after # Null THEN SetPrev(A, after, before) ELSE SetTail(A, p, before)
             C == Placed(B, n, Null, Null, Null)
  <2>8. G = Keyed(C, n, FALSE)
    BY <1>3 DEF Removed, Placed, Keyed, SetNext, SetHead, SetPrev, SetTail
  <2>9. /\ L = [K EXCEPT ![p] = RemoveAt(@, k)]
    BY <1>3, TakenIs
  <2>10. /\ before # Null => A = SetNext(node, before, after)
         /\ before = Null => A = SetHead(node, p, after)
         /\ after # Null => B = SetPrev(A, after, before)
         /\ after = Null => B = SetTail(A, p, before)
         /\ C = Placed(B, n, Null, Null, Null)
    OBVIOUS
  <2> HIDE DEF A, B, C, G, L, before, after, s, k, p
  <2>11. /\ A \in [Nodes -> Cell]
         /\ \A x \in Nodes :
              /\ A[x].tag = node[x].tag /\ A[x].key = node[x].key
              /\ A[x].parent = node[x].parent /\ A[x].prev = node[x].prev /\ A[x].tail = node[x].tail
              /\ A[x].next = IF before # Null /\ x = before THEN after ELSE node[x].next
              /\ A[x].head = IF before = Null /\ x = p THEN after ELSE node[x].head
    <3>1. CASE before # Null
      <4>1. before \in Nodes
        BY <2>6, <3>1 DEF Slots
      <4>2. A = SetNext(node, before, after)
        BY <2>10, <3>1
      <4>3. /\ A \in [Nodes -> Cell]
            /\ \A x \in Nodes :
                 /\ A[x].tag = node[x].tag /\ A[x].key = node[x].key /\ A[x].head = node[x].head
                 /\ A[x].tail = node[x].tail /\ A[x].parent = node[x].parent /\ A[x].prev = node[x].prev
                 /\ A[x].next = IF x = before THEN after ELSE node[x].next
        BY <1>1, <2>6, <4>1, <4>2, SetNextIs
      <4> QED
        BY <3>1, <4>3
    <3>2. CASE before = Null
      <4>1. A = SetHead(node, p, after)
        BY <2>10, <3>2
      <4>2. /\ A \in [Nodes -> Cell]
            /\ \A x \in Nodes :
                 /\ A[x].tag = node[x].tag /\ A[x].key = node[x].key /\ A[x].tail = node[x].tail
                 /\ A[x].parent = node[x].parent /\ A[x].prev = node[x].prev /\ A[x].next = node[x].next
                 /\ A[x].head = IF x = p THEN after ELSE node[x].head
        <5>1. SetHeadAs(A, node, p, after)
          BY <1>1, <2>1, <2>6, <4>1, SetHeadIs
        <5> QED
          BY <5>1 DEF SetHeadAs
      <4> QED
        BY <3>2, <4>2
    <3> QED
      BY <3>1, <3>2
  <2>12. /\ B \in [Nodes -> Cell]
         /\ \A x \in Nodes :
              /\ B[x].tag = A[x].tag /\ B[x].key = A[x].key
              /\ B[x].parent = A[x].parent /\ B[x].next = A[x].next /\ B[x].head = A[x].head
              /\ B[x].prev = IF after # Null /\ x = after THEN before ELSE A[x].prev
              /\ B[x].tail = IF after = Null /\ x = p THEN before ELSE A[x].tail
    <3>1. CASE after # Null
      <4>1. after \in Nodes
        BY <2>6, <3>1 DEF Slots
      <4>2. B = SetPrev(A, after, before)
        BY <2>10, <3>1
      <4>3. /\ B \in [Nodes -> Cell]
            /\ \A x \in Nodes :
                 /\ B[x].tag = A[x].tag /\ B[x].key = A[x].key /\ B[x].head = A[x].head
                 /\ B[x].tail = A[x].tail /\ B[x].parent = A[x].parent /\ B[x].next = A[x].next
                 /\ B[x].prev = IF x = after THEN before ELSE A[x].prev
        BY <2>6, <2>11, <4>1, <4>2, SetPrevIs
      <4> QED
        BY <3>1, <4>3
    <3>2. CASE after = Null
      <4>1. B = SetTail(A, p, before)
        BY <2>10, <3>2
      <4>2. /\ B \in [Nodes -> Cell]
            /\ \A x \in Nodes :
                 /\ B[x].tag = A[x].tag /\ B[x].key = A[x].key /\ B[x].head = A[x].head
                 /\ B[x].parent = A[x].parent /\ B[x].prev = A[x].prev /\ B[x].next = A[x].next
                 /\ B[x].tail = IF x = p THEN before ELSE A[x].tail
        BY <2>1, <2>6, <2>11, <4>1, SetTailIs
      <4> QED
        BY <3>2, <4>2
    <3> QED
      BY <3>1, <3>2
  <2>13. PlacedAs(C, B, n, Null, Null, Null)
    BY <2>6, <2>10, <2>12, PlacedIs
  <2>14. /\ G \in [Nodes -> Cell]
         /\ \A x \in Nodes :
              /\ G[x].tag = C[x].tag /\ G[x].head = C[x].head /\ G[x].tail = C[x].tail
              /\ G[x].parent = C[x].parent /\ G[x].prev = C[x].prev /\ G[x].next = C[x].next
              /\ G[x].key = IF x = n THEN FALSE ELSE C[x].key
    <3>1. C \in [Nodes -> Cell] /\ FALSE \in BOOLEAN
      BY <2>13 DEF PlacedAs
    <3>2. KeyedAs(G, C, n, FALSE)
      BY <2>8, <3>1, KeyedIs
    <3> QED
      BY <3>2 DEF KeyedAs
  <2>15. /\ G \in [Nodes -> Cell]
         /\ \A x \in Nodes :
              /\ G[x].tag = node[x].tag
              /\ G[x].parent = IF x = n THEN Null ELSE node[x].parent
              /\ G[x].prev = IF x = n THEN Null ELSE IF after # Null /\ x = after THEN before ELSE node[x].prev
              /\ G[x].next = IF x = n THEN Null ELSE IF before # Null /\ x = before THEN after ELSE node[x].next
              /\ G[x].head = IF before = Null /\ x = p THEN after ELSE node[x].head
              /\ G[x].tail = IF after = Null /\ x = p THEN before ELSE node[x].tail
              /\ G[x].key = IF x = n THEN FALSE ELSE node[x].key
    <3>1. \A x \in Nodes :
            /\ C[x].tag = B[x].tag /\ C[x].key = B[x].key /\ C[x].head = B[x].head /\ C[x].tail = B[x].tail
            /\ C[x].parent = IF x = n THEN Null ELSE B[x].parent
            /\ C[x].prev = IF x = n THEN Null ELSE B[x].prev
            /\ C[x].next = IF x = n THEN Null ELSE B[x].next
      BY <2>13 DEF PlacedAs
    <3>2. ASSUME NEW x \in Nodes
          PROVE  /\ G[x].tag = node[x].tag
                 /\ G[x].parent = IF x = n THEN Null ELSE node[x].parent
                 /\ G[x].key = IF x = n THEN FALSE ELSE node[x].key
      <4>1. A[x].tag = node[x].tag /\ A[x].key = node[x].key /\ A[x].parent = node[x].parent
        BY <2>11
      <4>2. B[x].tag = A[x].tag /\ B[x].key = A[x].key /\ B[x].parent = A[x].parent
        BY <2>12
      <4>3. /\ G[x].tag = C[x].tag /\ G[x].parent = C[x].parent
            /\ G[x].key = IF x = n THEN FALSE ELSE C[x].key
        BY <2>14
      <4> QED
        BY <3>1, <4>1, <4>2, <4>3
    <3>3. ASSUME NEW x \in Nodes
          PROVE  /\ G[x].head = IF before = Null /\ x = p THEN after ELSE node[x].head
                 /\ G[x].tail = IF after = Null /\ x = p THEN before ELSE node[x].tail
      <4>1. /\ A[x].tail = node[x].tail
            /\ A[x].head = IF before = Null /\ x = p THEN after ELSE node[x].head
        BY <2>11
      <4>2. /\ B[x].head = A[x].head
            /\ B[x].tail = IF after = Null /\ x = p THEN before ELSE A[x].tail
        BY <2>12
      <4>3. G[x].head = C[x].head /\ G[x].tail = C[x].tail
        BY <2>14
      <4> QED
        BY <3>1, <4>1, <4>2, <4>3
    <3>4. ASSUME NEW x \in Nodes
          PROVE  /\ G[x].prev = IF x = n THEN Null ELSE IF after # Null /\ x = after THEN before ELSE node[x].prev
                 /\ G[x].next = IF x = n THEN Null ELSE IF before # Null /\ x = before THEN after ELSE node[x].next
      <4>1. /\ A[x].prev = node[x].prev
            /\ A[x].next = IF before # Null /\ x = before THEN after ELSE node[x].next
        BY <2>11
      <4>2. /\ B[x].next = A[x].next
            /\ B[x].prev = IF after # Null /\ x = after THEN before ELSE A[x].prev
        BY <2>12
      <4>3. G[x].prev = C[x].prev /\ G[x].next = C[x].next
        BY <2>14
      <4> QED
        BY <3>1, <4>1, <4>2, <4>3
    <3> QED
      BY <2>14, <3>2, <3>3, <3>4
  <2>16. /\ RemoveAt(s, k) \in Seq(Nodes) /\ Len(RemoveAt(s, k)) = Len(s) - 1
         /\ \A i \in 1..(Len(s) - 1) : RemoveAt(s, k)[i] = IF i < k THEN s[i] ELSE s[i + 1]
    BY <2>1, <2>2, RemoveAtIs
  <2>17. /\ L \in [Nodes -> Seq(Nodes)] /\ L[p] = RemoveAt(s, k) /\ \A q \in Nodes \ {p} : L[q] = K[q]
    <3>1. L = [K EXCEPT ![p] = RemoveAt(s, k)]
      BY <2>9 DEF s
    <3> QED
      BY <1>1, <2>1, <2>16, <3>1
  <2>18. Len(L[p]) = Len(s) - 1 /\ \A i \in 1..(Len(s) - 1) : L[p][i] = IF i < k THEN s[i] ELSE s[i + 1]
    BY <2>16, <2>17
  <2>19. ASSUME NEW q \in Nodes, q # p, NEW i \in 1..Len(K[q])
         PROVE  /\ K[q][i] \in Nodes /\ K[q][i] # n
                /\ K[q][i] # before /\ K[q][i] # after
                /\ LinkedAt(node, K[q], q, i)
    <3>1. K[q][i] \in Nodes /\ node[K[q][i]].parent = q /\ LinkedAt(node, K[q], q, i) /\ K[q][i] # Null
      BY ChildIs, NodesAssumption
    <3>2. \A m \in 1..Len(s) : node[s[m]].parent = p
      BY <2>1, ChildIs DEF s
    <3>3. /\ k # 1 => node[before].parent = p
          /\ k # Len(s) => node[after].parent = p
          /\ node[n].parent = p
      BY <2>1, <2>3, <2>4, <3>2
    <3> QED
      BY <2>3, <2>19, <3>1, <3>3
  <2>20. ASSUME NEW m \in 1..Len(s), m # k
         PROVE  /\ s[m] \in Nodes /\ s[m] # n /\ LinkedAt(node, s, p, m)
                /\ (after # Null /\ s[m] = after) <=> m = k + 1
                /\ (before # Null /\ s[m] = before) <=> m = k - 1
    <3>1. s[m] \in Nodes /\ LinkedAt(node, s, p, m)
      BY <2>1, ChildIs DEF s
    <3>2. s[m] # n
      BY <2>1, <2>2, <2>20 DEF Once
    <3>3. (after # Null /\ s[m] = after) <=> m = k + 1
      <4>1. CASE k = Len(s)
        BY <2>3, <2>2, <4>1
      <4>2. CASE k # Len(s)
        BY <2>2, <2>3, <2>4, <2>7, <4>2 DEF Once
      <4> QED
        BY <4>1, <4>2
    <3>4. (before # Null /\ s[m] = before) <=> m = k - 1
      <4>1. CASE k = 1
        BY <2>3, <2>2, <4>1
      <4>2. CASE k # 1
        BY <2>2, <2>3, <2>4, <2>7, <4>2 DEF Once
      <4> QED
        BY <4>1, <4>2
    <3> QED
      BY <3>1, <3>2, <3>3, <3>4
  <2>21. ASSUME NEW q \in Nodes PROVE Ends(G, L[q], q)
    <3>1. CASE q # p
      <4>1. Ends(node, K[q], q)
        BY DEF Lists
      <4> QED
        BY <2>15, <2>17, <3>1, <4>1 DEF Ends
    <3>2. CASE q = p
      <4>1. L[p] = <<>> <=> Len(s) = 1
        <5>1. L[p] \in Seq(Nodes) /\ Len(L[p]) = Len(s) - 1 /\ Len(s) \in Nat
          BY <2>2, <2>16, <2>17
        <5>2. L[p] = <<>> <=> Len(L[p]) = 0
          BY <5>1, EmptySeq
        <5> QED
          BY <5>1, <5>2
      <4>2. G[p].head = IF L[p] = <<>> THEN Null ELSE L[p][1]
        <5>1. CASE k = 1
          <6>1. before = Null /\ G[p].head = after
            BY <2>1, <2>3, <2>15, <5>1
          <6>2. Len(s) # 1 => 1 \in 1..(Len(s) - 1) /\ k # Len(s)
            <7>1. Len(s) \in Nat /\ 1 <= Len(s)
              BY <2>1, <2>2
            <7>4. \A l \in Nat : 1 <= l /\ l # 1 => 1 \in 1..(l - 1)
              OBVIOUS
            <7>2. Len(s) # 1 => 1 \in 1..(Len(s) - 1)
              BY <7>1, <7>4
            <7>3. Len(s) # 1 => k # Len(s)
              BY <5>1
            <7> QED
              BY <7>2, <7>3
          <6>3. Len(s) # 1 => L[p][1] = s[k + 1]
            BY <2>18, <5>1, <6>2
          <6> QED
            BY <2>3, <4>1, <5>1, <6>1, <6>2, <6>3
        <5>2. CASE k # 1
          <6>1. before # Null /\ G[p].head = node[p].head
            BY <2>1, <2>7, <2>15, <5>2
          <6>2. Len(s) # 1 /\ 1 \in 1..(Len(s) - 1) /\ 1 < k
            BY <2>1, <2>2, <5>2
          <6>3. L[p][1] = s[1]
            BY <2>18, <6>2
          <6> QED
            BY <2>2, <4>1, <6>1, <6>2, <6>3 DEF Ends
        <5> QED
          BY <5>1, <5>2
      <4>3. G[p].tail = IF L[p] = <<>> THEN Null ELSE L[p][Len(L[p])]
        <5>1. CASE k = Len(s)
          <6>1. after = Null /\ G[p].tail = before
            BY <2>1, <2>3, <2>15, <5>1
          <6>2. /\ Len(s) # 1 => Len(s) - 1 \in 1..(Len(s) - 1) /\ Len(s) - 1 < k /\ k # 1
                /\ Len(s) - 1 = k - 1
            BY <2>1, <2>2, <5>1
          <6>3. Len(s) # 1 => L[p][Len(L[p])] = s[k - 1]
            BY <2>18, <6>2
          <6> QED
            BY <2>3, <4>1, <5>1, <6>1, <6>2, <6>3
        <5>2. CASE k # Len(s)
          <6>0. after # Null
            BY <2>7, <5>2
          <6>1. G[p].tail = node[p].tail
            BY <2>1, <2>15, <6>0, Zenon
          <6>2. Len(s) # 1 /\ Len(s) - 1 \in 1..(Len(s) - 1) /\ ~(Len(s) - 1 < k) /\ (Len(s) - 1) + 1 = Len(s)
            <7> DEFINE j == Len(s)
            <7>1. k \in 1..j /\ j \in Nat /\ k # j
              BY <2>1, <2>2, <5>2
            <7> HIDE DEF j
            <7>2. j # 1 /\ j - 1 \in 1..(j - 1) /\ ~(j - 1 < k) /\ (j - 1) + 1 = j
              BY <7>1
            <7> QED
              BY <7>2 DEF j
          <6>3. L[p][Len(L[p])] = s[Len(s)]
            <7>1. Len(L[p]) = Len(s) - 1 /\ L[p][Len(s) - 1] = s[(Len(s) - 1) + 1]
              BY <2>18, <6>2, Zenon
            <7> QED
              BY <6>2, <7>1, Zenon
          <6> QED
            BY <2>2, <4>1, <6>1, <6>2, <6>3 DEF Ends
        <5> QED
          BY <5>1, <5>2
      <4>4. G[p].tag \in {"array", "object"}
        BY <2>1, <2>2, <2>15 DEF Ends
      <4> QED
        BY <3>2, <4>2, <4>3, <4>4 DEF Ends
    <3> QED
      BY <3>1, <3>2
  <2>22. ASSUME NEW i \in 1..Len(L[p])
         PROVE  \E m \in 1..Len(s) : /\ m # k /\ m = IF i < k THEN i ELSE i + 1
                                     /\ L[p][i] = s[m]
    <3> DEFINE m == IF i < k THEN i ELSE i + 1
    <3>1. i \in 1..(Len(s) - 1)
      BY <2>18
    <3>2. m \in 1..Len(s) /\ m # k
      BY <2>1, <2>2, <3>1
    <3>3. L[p][i] = s[m]
      BY <2>18, <3>1
    <3> QED
      BY <3>2, <3>3
  <2>23. ASSUME NEW q \in Nodes PROVE Once(L[q])
    <3>1. CASE q # p
      BY <2>17, <3>1 DEF Lists
    <3>2. CASE q = p
      <4>1. ASSUME NEW i \in 1..Len(L[p]), NEW e \in 1..Len(L[p]), L[p][i] = L[p][e] PROVE i = e
        <5>1. PICK m \in 1..Len(s) : m # k /\ m = (IF i < k THEN i ELSE i + 1) /\ L[p][i] = s[m]
          BY <2>22
        <5>2. PICK r \in 1..Len(s) : r # k /\ r = (IF e < k THEN e ELSE e + 1) /\ L[p][e] = s[r]
          BY <2>22
        <5>3. m = r
          BY <2>2, <4>1, <5>1, <5>2 DEF Once
        <5>4. i \in Int /\ e \in Int /\ k \in Int
          BY <2>1
        <5> QED
          BY <5>1, <5>2, <5>3, <5>4
      <4> QED
        BY <3>2, <4>1 DEF Once
    <3> QED
      BY <3>1, <3>2
  <2>24. ASSUME NEW q \in Nodes, NEW i \in 1..Len(L[q]) PROVE LinkedAt(G, L[q], q, i)
    <3>1. CASE q # p
      <4>1. L[q] = K[q]
        BY <2>17, <3>1
      <4>2. /\ K[q][i] \in Nodes /\ K[q][i] # n /\ K[q][i] # before /\ K[q][i] # after
            /\ LinkedAt(node, K[q], q, i)
        BY <2>19, <3>1, <4>1
      <4> DEFINE x == K[q][i]
      <4>3. /\ G[x].tag = node[x].tag /\ G[x].parent = node[x].parent /\ G[x].prev = node[x].prev
            /\ G[x].next = node[x].next /\ G[x].key = node[x].key /\ G[q].tag = node[q].tag
        <5> HIDE DEF x
        <5> QED
          BY <2>15, <4>2 DEF x
      <4> QED
        BY <4>1, <4>2, <4>3 DEF LinkedAt
    <3>2. CASE q = p
      <4>1. PICK m \in 1..Len(s) : m # k /\ m = (IF i < k THEN i ELSE i + 1) /\ L[p][i] = s[m]
        BY <2>22, <3>2
      <4>2. /\ s[m] \in Nodes /\ s[m] # n /\ LinkedAt(node, s, p, m)
            /\ (after # Null /\ s[m] = after) <=> m = k + 1
            /\ (before # Null /\ s[m] = before) <=> m = k - 1
        BY <2>20, <4>1
      <4>3. i \in 1..(Len(s) - 1) /\ i \in Int /\ k \in Int /\ Len(s) \in Int /\ Len(L[p]) = Len(s) - 1
        BY <2>1, <2>2, <2>18, <3>2
      <4>4. G[s[m]].prev = IF i = 1 THEN Null ELSE L[p][i - 1]
        <5>1. G[s[m]].prev = IF m = k + 1 THEN before ELSE node[s[m]].prev
          BY <2>15, <4>2
        <5>2. node[s[m]].prev = IF m = 1 THEN Null ELSE s[m - 1]
          BY <4>2 DEF LinkedAt
        <5>3. CASE m = k + 1
          <6>1. i = k /\ (k # 1 => i - 1 \in 1..(Len(s) - 1) /\ i - 1 < k)
            BY <4>1, <4>3, <5>3
          <6> QED
            BY <2>3, <2>18, <5>1, <5>3, <6>1
        <5>4. CASE m # k + 1
          <6>1. CASE i < k
            <7>1. m = i /\ (i # 1 => i - 1 \in 1..(Len(s) - 1) /\ i - 1 < k)
              BY <4>1, <4>3, <6>1
            <7> QED
              BY <2>18, <5>1, <5>2, <5>4, <7>1
          <6>2. CASE ~(i < k)
            <7>1. m = i + 1 /\ i # 1 /\ i - 1 \in 1..(Len(s) - 1) /\ ~(i - 1 < k) /\ (i - 1) + 1 = m - 1 /\ m # 1
              BY <2>1, <4>1, <4>3, <5>4, <6>2
            <7> QED
              BY <2>18, <5>1, <5>2, <5>4, <7>1
          <6> QED
            BY <6>1, <6>2
        <5> QED
          BY <5>3, <5>4
      <4>5. G[s[m]].next = IF i = Len(L[p]) THEN Null ELSE L[p][i + 1]
        <5>1. G[s[m]].next = IF m = k - 1 THEN after ELSE node[s[m]].next
          BY <2>15, <4>2
        <5>2. node[s[m]].next = IF m = Len(s) THEN Null ELSE s[m + 1]
          BY <4>2 DEF LinkedAt
        <5>3. CASE m = k - 1
          <6>1. /\ i = k - 1 /\ (i = Len(L[p]) <=> k = Len(s))
                /\ i # Len(L[p]) => i + 1 \in 1..(Len(s) - 1) /\ ~(i + 1 < k) /\ (i + 1) + 1 = k + 1
            BY <4>1, <4>3, <5>3
          <6> QED
            BY <2>3, <2>18, <5>1, <5>3, <6>1
        <5>4. CASE m # k - 1
          <6>1. CASE i < k
            <7>1. /\ m = i /\ i + 1 < k /\ i + 1 \in 1..(Len(s) - 1) /\ i # Len(L[p]) /\ m # Len(s)
              BY <2>1, <4>1, <4>3, <5>4, <6>1
            <7> QED
              BY <2>18, <5>1, <5>2, <5>4, <7>1
          <6>2. CASE ~(i < k)
            <7>1. /\ m = i + 1 /\ (i = Len(L[p]) <=> m = Len(s))
                  /\ i # Len(L[p]) => i + 1 \in 1..(Len(s) - 1) /\ ~(i + 1 < k) /\ (i + 1) + 1 = m + 1
              BY <4>1, <4>3, <6>2
            <7> QED
              BY <2>18, <5>1, <5>2, <5>4, <7>1
          <6> QED
            BY <6>1, <6>2
        <5> QED
          BY <5>3, <5>4
      <4>6. /\ G[s[m]].tag # "freed" /\ G[s[m]].parent = p /\ G[s[m]].key = (G[p].tag = "object")
        BY <2>1, <2>15, <4>2 DEF LinkedAt
      <4> QED
        BY <3>2, <4>1, <4>4, <4>5, <4>6 DEF LinkedAt
    <3> QED
      BY <3>1, <3>2
  <2>25. ASSUME NEW x \in Nodes, G[x].parent = Null PROVE Apart(G, x)
    <3>1. CASE x = n
      BY <2>15, <3>1 DEF Apart
    <3>2. CASE x # n
      <4>1. node[x].parent = Null
        BY <2>15, <2>25, <3>2
      <4>2. Apart(node, x)
        BY <4>1 DEF Lists
      <4>3. \A m \in 1..Len(s) : node[s[m]].parent = p /\ p # Null
        BY <2>1, ChildIs, NodesAssumption DEF s
      <4>4. ~(after # Null /\ x = after) /\ ~(before # Null /\ x = before)
        BY <2>3, <2>4, <2>7, <4>1, <4>3
      <4> QED
        BY <2>15, <3>2, <4>2, <4>4 DEF Apart
    <3> QED
      BY <3>1, <3>2
  <2>26. ASSUME NEW x \in Nodes, G[x].parent # Null
         PROVE  \E i \in 1..Len(L[G[x].parent]) : L[G[x].parent][i] = x
    <3>1. x # n /\ node[x].parent # Null /\ G[x].parent = node[x].parent
      BY <2>15, <2>26
    <3>2. PICK m \in 1..Len(K[node[x].parent]) : K[node[x].parent][m] = x
      BY <3>1 DEF Lists
    <3>3. node[x].parent \in Nodes
      BY <1>1, <3>1 DEF Cell
    <3>4. CASE node[x].parent # p
      BY <2>17, <3>1, <3>2, <3>3, <3>4
    <3>5. CASE node[x].parent = p
      <4>1. m \in 1..Len(s) /\ s[m] = x
        BY <3>2, <3>5 DEF s
      <4>2. m # k
        BY <2>1, <3>1, <4>1
      <4> DEFINE i == IF m < k THEN m ELSE m - 1
      <4>3. i \in 1..Len(L[p]) /\ i \in 1..(Len(s) - 1) /\ (IF i < k THEN i ELSE i + 1) = m
        <5>1. m \in Int /\ k \in Int /\ Len(s) \in Int /\ Len(L[p]) = Len(s) - 1
          BY <2>1, <2>2, <2>18
        <5> QED
          BY <2>1, <4>1, <4>2, <5>1
      <4> HIDE DEF i
      <4>4. L[p][i] = s[m]
        BY <2>18, <4>3
      <4> QED
        BY <3>1, <3>5, <4>1, <4>3, <4>4
    <3> QED
      BY <3>4, <3>5
  <2>27. Lists(G, L)
    BY <2>15, <2>17, <2>21, <2>23, <2>24, <2>25, <2>26 DEF Lists
  <2> QED
    BY <2>15, <2>27 DEF G, L, Hung
<1> QED
  BY <1>2, <1>3

\* The lists are what json_foreach visits.
Kids == [n \in Nodes |-> Children(n)]

\* A memory linked as some lists is linked as those json_foreach visits.
LEMMA KidsAre ==
  ASSUME NEW K
  PROVE  /\ Lists(node, K) => Kids = K
         /\ Lists(node', K) => Kids' = K
<1>1. ASSUME Lists(node, K) PROVE Kids = K
  <2>1. \A n \in Nodes : Children(n) = K[n]
    BY <1>1, WalkIs, ChildrenWalk
  <2>2. K = [n \in Nodes |-> K[n]]
    BY <1>1 DEF Lists
  <2> QED
    BY <2>1, <2>2 DEF Kids
<1>2. ASSUME Lists(node', K) PROVE Kids' = K
  <2>1. ASSUME NEW n \in Nodes PROVE Children(n)' = K[n]
    <3>1. Walk(node')[Cardinality(Nodes)][node'[n].head] = K[n]
      BY <1>2, WalkIs
    <3>2. Children(n)' = Walk(node')[Cardinality(Nodes)][node'[n].head]
      BY ChildrenWalkNext
    <3> QED
      BY <3>1, <3>2
  <2>2. K = [n \in Nodes |-> K[n]]
    BY <1>2 DEF Lists
  <2>3. Kids' = [n \in Nodes |-> Children(n)']
    BY DEF Kids
  <2> QED
    BY <2>1, <2>2, <2>3
<1> QED
  BY <1>1, <1>2

\* mknode (json.c:486-534): a freed node is in no list and has none; it is linked to
\* nothing, as calloc leaves it.
LEMMA MadeLists ==
  ASSUME NEW K, Lists(node, K), NEW n \in Nodes, NEW tag \in Tags, node[n].tag = "freed"
  PROVE  Lists([node EXCEPT ![n] = [Freed EXCEPT !.tag = tag]], K) /\ K[n] = <<>>
<1> DEFINE cell == [Freed EXCEPT !.tag = tag]
           G == [node EXCEPT ![n] = cell]
<1>1. node \in [Nodes -> Cell] /\ K \in [Nodes -> Seq(Nodes)]
  BY DEF Lists
<1>2. /\ cell \in Cell /\ cell.tag = tag /\ cell.parent = Null /\ cell.prev = Null /\ cell.next = Null
      /\ cell.head = Null /\ cell.tail = Null /\ cell.key = FALSE
  BY DEF Freed, Cell
<1> HIDE DEF cell
<1>3. /\ G \in [Nodes -> Cell] /\ G[n] = cell
      /\ \A x \in Nodes : x # n => G[x] = node[x]
  BY <1>1, <1>2
<1> HIDE DEF G
<1>4. K[n] = <<>>
  <2>1. Ends(node, K[n], n)
    BY DEF Lists
  <2> QED
    BY <2>1 DEF Ends
<1>5. \A q \in Nodes : \A i \in 1..Len(K[q]) : K[q][i] \in Nodes /\ K[q][i] # n /\ q # n
  BY <1>4, ChildIs DEF LinkedAt
<1>6. ASSUME NEW q \in Nodes PROVE Ends(G, K[q], q) /\ Once(K[q])
  <2>1. Ends(node, K[q], q) /\ Once(K[q])
    BY DEF Lists
  <2>2. CASE q = n
    BY <1>2, <1>3, <1>4, <2>1, <2>2 DEF Ends
  <2>3. CASE q # n
    BY <1>3, <2>1, <2>3 DEF Ends
  <2> QED
    BY <2>2, <2>3
<1>7. ASSUME NEW q \in Nodes, NEW i \in 1..Len(K[q]) PROVE LinkedAt(G, K[q], q, i)
  <2>1. G[K[q][i]] = node[K[q][i]] /\ G[q] = node[q]
    BY <1>3, <1>5
  <2>2. LinkedAt(node, K[q], q, i)
    BY DEF Lists
  <2> QED
    BY <2>1, <2>2 DEF LinkedAt
<1>8. ASSUME NEW c \in Nodes, G[c].parent = Null PROVE Apart(G, c)
  BY <1>2, <1>3, <1>8 DEF Lists, Apart
<1>9. ASSUME NEW c \in Nodes, G[c].parent # Null
      PROVE  \E i \in 1..Len(K[G[c].parent]) : K[G[c].parent][i] = c
  <2>1. c # n /\ G[c] = node[c]
    BY <1>2, <1>3, <1>9
  <2> QED
    BY <1>9, <2>1 DEF Lists
<1>10. Lists(G, K)
  BY <1>1, <1>3, <1>6, <1>7, <1>8, <1>9 DEF Lists
<1> QED
  BY <1>4, <1>10 DEF G, cell

\* A memory in which the nodes of B have been freed, and their lists are gone.
Purged(H, B) == [x \in Nodes |-> IF x \in B THEN Freed ELSE H[x]]
Emptied(K, B) == [q \in Nodes |-> IF q \in B THEN <<>> ELSE K[q]]

\* To free a set of nodes leaves the other lists as they were if, with a node, its
\* children are in it, and with a child, its parent (json.c:407-431).
LEMMA FreedLists ==
  ASSUME NEW H, NEW K, Lists(H, K), NEW B \in SUBSET Nodes,
         \A x \in Nodes : H[x].parent # Null => (x \in B <=> H[x].parent \in B)
  PROVE  Lists(Purged(H, B), Emptied(K, B))
<1> DEFINE G == Purged(H, B)
           L == Emptied(K, B)
<1>1. H \in [Nodes -> Cell] /\ K \in [Nodes -> Seq(Nodes)]
  BY DEF Lists
<1>2. /\ Freed \in Cell /\ Freed.parent = Null /\ Freed.prev = Null /\ Freed.next = Null
      /\ Freed.head = Null /\ Freed.tail = Null /\ Freed.key = FALSE
  BY DEF Freed, Cell
<1>3. /\ G \in [Nodes -> Cell] /\ L \in [Nodes -> Seq(Nodes)]
      /\ \A x \in Nodes : x \in B => G[x] = Freed /\ L[x] = <<>>
      /\ \A x \in Nodes : x \notin B => G[x] = H[x] /\ L[x] = K[x]
  BY <1>1, <1>2 DEF Purged, Emptied
<1>4. Len(<<>>) = 0 /\ \A i \in 1..0 : FALSE
  OBVIOUS
<1> HIDE DEF G, L
<1>5. ASSUME NEW q \in Nodes PROVE Ends(G, L[q], q) /\ Once(L[q])
  <2>1. Ends(H, K[q], q) /\ Once(K[q])
    BY DEF Lists
  <2>2. CASE q \in B
    BY <1>2, <1>3, <1>4, <2>2 DEF Ends, Once
  <2>3. CASE q \notin B
    BY <1>3, <2>1, <2>3 DEF Ends
  <2> QED
    BY <2>2, <2>3
<1>6. ASSUME NEW q \in Nodes, NEW i \in 1..Len(L[q]) PROVE LinkedAt(G, L[q], q, i)
  <2>1. q \notin B
    BY <1>3, <1>4
  <2>2. L[q] = K[q] /\ G[q] = H[q]
    BY <1>3, <2>1
  <2>3. LinkedAt(H, K[q], q, i) /\ K[q][i] \in Nodes /\ H[K[q][i]].parent = q /\ q # Null
    BY <2>2, ChildIs
  <2>4. G[K[q][i]] = H[K[q][i]]
    BY <1>3, <2>1, <2>3
  <2> QED
    BY <2>2, <2>3, <2>4 DEF LinkedAt
<1>7. ASSUME NEW c \in Nodes, G[c].parent = Null PROVE Apart(G, c)
  <2>1. CASE c \in B
    BY <1>2, <1>3, <2>1 DEF Apart
  <2>2. CASE c \notin B
    <3>1. G[c] = H[c] /\ Apart(H, c)
      BY <1>3, <1>7, <2>2 DEF Lists
    <3> QED
      BY <3>1 DEF Apart
  <2> QED
    BY <2>1, <2>2
<1>8. ASSUME NEW c \in Nodes, G[c].parent # Null
      PROVE  \E i \in 1..Len(L[G[c].parent]) : L[G[c].parent][i] = c
  <2>1. c \notin B /\ G[c] = H[c]
    BY <1>2, <1>3, <1>8
  <2>2. H[c].parent \notin B /\ H[c].parent \in Nodes
    BY <1>1, <1>8, <2>1 DEF Cell
  <2>3. L[G[c].parent] = K[H[c].parent]
    BY <1>3, <2>1, <2>2
  <2> QED
    BY <1>8, <2>1, <2>3 DEF Lists
<1>9. Lists(G, L)
  BY <1>3, <1>5, <1>6, <1>7, <1>8 DEF Lists
<1> QED
  BY <1>9 DEF G, L

\* What is below a node is closed under children, and all but the node is some
\* child of what is below it; the forest has the same nodes below.
LEMMA BelowIs ==
  ASSUME NEW n \in Nodes
  PROVE  /\ Below(n) \subseteq Nodes /\ n \in Below(n)
         /\ \A q \in Below(n) : ToSet(Kids[q]) \cap Nodes \subseteq Below(n)
         /\ (\A q \in Nodes : ToSet(Kids[q]) \subseteq Nodes) =>
              \A m \in Below(n) : m # n => \E q \in Below(n) : m \in ToSet(Kids[q])
         /\ F!Below(n) = Below(n)
<1>1. \A q \in Nodes : Kids[q] = Children(q)
  BY DEF Kids
<1>2. Below(n) = {m \in Nodes : \A S \in SUBSET Nodes :
                    n \in S /\ (\A q \in S : ToSet(Kids[q]) \subseteq S) => m \in S}
  BY <1>1 DEF Below
<1>3. F!Below(n) = {m \in Nodes : \A S \in SUBSET Nodes :
                    n \in S /\ (\A q \in S : ToSet(Kids[q]) \subseteq S) => m \in S}
  BY DEF F!Below, F!ToSet, ToSet, Kids
<1>4. ASSUME NEW q \in Below(n) PROVE ToSet(Kids[q]) \cap Nodes \subseteq Below(n)
  BY <1>2
<1>5. ASSUME \A q \in Nodes : ToSet(Kids[q]) \subseteq Nodes, NEW m \in Below(n), m # n,
             \A q \in Below(n) : m \notin ToSet(Kids[q])
      PROVE  FALSE
  <2> DEFINE S == Below(n) \ {m}
  <2>1. S \in SUBSET Nodes /\ n \in S
    BY <1>2, <1>5
  <2>2. ASSUME NEW q \in S PROVE ToSet(Kids[q]) \subseteq S
    <3>1. q \in Below(n) /\ q \in Nodes
      BY <1>2
    <3>2. ToSet(Kids[q]) \subseteq Below(n)
      BY <1>4, <1>5, <3>1
    <3> QED
      BY <1>5, <3>1, <3>2
  <2>3. m \in S
    BY <1>2, <2>1, <2>2
  <2> QED
    BY <2>3
<1> QED
  BY <1>2, <1>3, <1>4, <1>5

-----------------------------------------------------------------------------
(* The inductive invariant and the steps.                                  *)

\* The nodes are linked as the lists that json_foreach visits.  As long as no value
\* was put below itself none is its own parent; a loop may be longer than that, and
\* the lists are lists in it all the same.
Inv ==
  /\ Lists(node, Kids)
  /\ looped \in BOOLEAN
  /\ ~looped => \A n \in Nodes : node[n].parent # n

\* The set of a list.
LEMMA SetOf ==
  ASSUME NEW s \in Seq(Nodes)
  PROVE  ToSet(s) \subseteq Nodes /\ ToSet(s) = {s[i] : i \in 1..Len(s)}
<1>1. DOMAIN s = 1..Len(s)
  OBVIOUS
<1>2. ToSet(s) = {s[i] : i \in 1..Len(s)}
  BY <1>1 DEF ToSet
<1> QED
  BY <1>2, ElementOfSeq

\* At first every node is freed, and the forest is empty.
LEMMA InitInv == ASSUME Init PROVE Inv /\ F!Init
<1> DEFINE K == [n \in Nodes |-> <<>>]
<1>1. /\ Freed \in Cell /\ Freed.parent = Null /\ Freed.prev = Null /\ Freed.next = Null
      /\ Freed.head = Null /\ Freed.tail = Null /\ Freed.key = FALSE /\ Freed.tag = "freed"
  BY DEF Freed, Cell
<1>2. node \in [Nodes -> Cell] /\ K \in [Nodes -> Seq(Nodes)] /\ \A n \in Nodes : node[n] = Freed /\ K[n] = <<>>
  BY <1>1 DEF Init
<1>3. Len(<<>>) = 0 /\ (\A i \in 1..0 : FALSE) /\ ToSet(<<>>) = {}
  BY DEF ToSet
<1> HIDE DEF K
<1>4. \A n \in Nodes : Ends(node, K[n], n) /\ Once(K[n]) /\ Apart(node, n)
  BY <1>1, <1>2, <1>3 DEF Ends, Once, Apart
<1>5. Lists(node, K)
  BY <1>1, <1>2, <1>3, <1>4 DEF Lists
<1>6. Kids = K
  BY <1>5, KidsAre
<1>7. Live = {}
  BY <1>1, <1>2 DEF Live
<1>8. F!Init
  BY <1>6, <1>7 DEF F!Init, Kids, K
<1> QED
  <2>1. \A n \in Nodes : node[n].parent # n
    BY <1>1, <1>2, NodesAssumption
  <2> QED
    BY <1>5, <1>6, <1>8, <2>1 DEF Inv, Init

\* json_mknull and the like (json.c:486-534): a value of its own.
LEMMA MakeStep ==
  ASSUME Inv, NEW n \in Nodes, NEW tag \in Tags, Make(n, tag)
  PROVE  Inv' /\ F!Make(n)
<1>1. Lists(node', Kids) /\ Kids[n] = <<>>
  BY MadeLists DEF Inv, Make
<1>2. Kids' = Kids
  BY <1>1, KidsAre
<1>4. node \in [Nodes -> Cell] /\ tag # "freed"
  BY DEF Inv, Lists, Tags
<1>5. /\ \A x \in Nodes : x # n => node'[x] = node[x]
      /\ node'[n].tag = tag /\ node'[n].parent = Null
  BY <1>4 DEF Make, Freed
<1>3. ~looped => \A x \in Nodes : node'[x].parent # x
  BY <1>5, NodesAssumption DEF Inv
<1>6. n \notin Live /\ Live' = Live \cup {n}
  BY <1>4, <1>5 DEF Live, Make
<1>7. Kids = [Kids EXCEPT ![n] = <<>>]
  BY <1>1 DEF Kids
<1>8. F!Make(n)
  BY <1>2, <1>6, <1>7 DEF F!Make, Kids
<1> QED
  BY <1>1, <1>2, <1>3, <1>8 DEF Inv, Make

\* json_append_element and the like (json.c:562-599): as the forest attaches.
LEMMA AddStep ==
  ASSUME Inv, NEW p \in Nodes, NEW c \in Nodes, ~looped, Add(p, c)
  PROVE  Inv' /\ F!Attach(p, c)
<1>1. Lists(node, Kids) /\ May(p, c) /\ Kids \in [Nodes -> Seq(Nodes)]
  BY DEF Inv, Add, Lists
<1>2. node' = Appended(p, c) \/ node' = Prepended(p, c)
  BY DEF Add, Appended, Prepended
<1>3. p \in Live /\ c \in Live /\ node[c].parent = Null
  BY <1>1 DEF May, Inner, Live
<1>4. \A q \in Nodes : c \notin ToSet(Kids[q])
  BY <1>1, <1>3, ParentIs, NodesAssumption
<1>5. F!Orphan(c)
  BY <1>4 DEF F!Orphan, F!ToSet, ToSet, Kids, Live
<1>6. \E K \in {[Kids EXCEPT ![p] = Append(@, c)], [Kids EXCEPT ![p] = <<c>> \o @]} : Lists(node', K)
  <2>1. CASE node' = Appended(p, c)
    BY <1>1, <2>1, AppendLists
  <2>2. CASE node' = Prepended(p, c)
    BY <1>1, <2>2, PrependLists
  <2> QED
    BY <1>2, <2>1, <2>2
<1>7. PICK K \in {[Kids EXCEPT ![p] = Append(@, c)], [Kids EXCEPT ![p] = <<c>> \o @]} : Lists(node', K)
  BY <1>6
<1>8. Kids' = K
  BY <1>7, KidsAre
<1>9. \A x \in Nodes : /\ node'[x].tag = node[x].tag
                       /\ node'[x].parent = IF x = c THEN p ELSE node[x].parent
  <2>1. CASE node' = Appended(p, c)
    <3>1. Hung(Appended(p, c), node, c, p)
      BY <1>1, AppendLists
    <3> QED
      BY <2>1, <3>1 DEF Hung
  <2>2. CASE node' = Prepended(p, c)
    <3>1. Hung(Prepended(p, c), node, c, p)
      BY <1>1, PrependLists
    <3> QED
      BY <2>2, <3>1 DEF Hung
  <2> QED
    BY <1>2, <2>1, <2>2
<1>10. Live' = Live
  BY <1>9 DEF Live
<1>11. F!Attach(p, c)
  <2>1. F!AppendKid(p, c) \/ F!PrependKid(p, c)
    BY <1>7, <1>8 DEF F!AppendKid, F!PrependKid, Kids
  <2> QED
    BY <1>3, <1>5, <1>10, <2>1 DEF F!Attach
<1>12. looped' \in BOOLEAN /\ (~looped' => p # c)
  <2>1. c \in Below(c)
    BY BelowIs
  <2> QED
    BY <2>1 DEF Add
<1>13. ~looped' => \A n \in Nodes : node'[n].parent # n
  BY <1>9, <1>12 DEF Inv
<1> QED
  BY <1>7, <1>8, <1>11, <1>12, <1>13 DEF Inv

\* The forest takes a child from the lists as the nodes do.
LEMMA WithoutIs ==
  ASSUME NEW c
  PROVE  F!Without(c) = Taken(Kids, c)
<1>1. ASSUME NEW q \in Nodes, NEW S PROVE Kids[q] = Children(q)
  BY DEF Kids
<1> QED
  BY DEF F!Without, F!RemoveAt, RemoveAt, F!ToSet, ToSet, Taken, Kids

\* json_remove_from_parent (json.c:601-621): as the forest detaches.
LEMMA RemoveStep ==
  ASSUME Inv, NEW n \in Nodes, RemoveFromParent(n)
  PROVE  Inv' /\ F!Detach(n)
<1>1. Lists(node, Kids) /\ n \in Live /\ ~looped /\ node' = Removed(n) /\ looped' = looped
  BY DEF Inv, RemoveFromParent
<1>2. /\ Lists(node', Taken(Kids, n))
      /\ Hung(node', node, n, Null)
  BY <1>1, RemovedLists
<1>3. Kids' = Taken(Kids, n)
  BY <1>2, KidsAre
<1>4. Live' = Live
  BY <1>2 DEF Live, Hung
<1>5. F!Detach(n)
  BY <1>1, <1>3, <1>4, WithoutIs DEF F!Detach, Kids
<1>6. \A x \in Nodes : node'[x].parent # x
  BY <1>1, <1>2, NodesAssumption DEF Inv, Hung
<1> QED
  BY <1>1, <1>2, <1>3, <1>5, <1>6 DEF Inv

\* json_delete (json.c:407-431): as the forest deletes.
LEMMA DeleteStep ==
  ASSUME Inv, NEW n \in Nodes, Delete(n)
  PROVE  Inv' /\ F!Delete(n)
<1> DEFINE H == Removed(n)
           K == Taken(Kids, n)
           B == Below(n)
           G == Purged(H, B)
           L == Emptied(K, B)
<1>1. Lists(node, Kids) /\ n \in Live /\ ~looped /\ looped' = looped /\ node' = G
  BY DEF Inv, Delete, Purged
<1>2. /\ Lists(H, K) /\ H[n].parent = Null
      /\ \A x \in Nodes : /\ H[x].tag = node[x].tag
                          /\ H[x].parent = IF x = n THEN Null ELSE node[x].parent
  <2>1. Lists(H, K) /\ H[n].parent = Null /\ Hung(H, node, n, Null)
    BY <1>1, RemovedLists
  <2> QED
    BY <2>1 DEF Hung
<1>3. /\ B \subseteq Nodes /\ n \in B
      /\ \A q \in B : ToSet(Kids[q]) \cap Nodes \subseteq B
      /\ (\A q \in Nodes : ToSet(Kids[q]) \subseteq Nodes) =>
            \A m \in B : m # n => \E q \in B : m \in ToSet(Kids[q])
      /\ F!Below(n) = B
  BY BelowIs
<1> HIDE DEF H, K, B
<1>4. \A q \in Nodes : ToSet(Kids[q]) \subseteq Nodes
  BY <1>1, ParentIs
<1>5. ASSUME NEW x \in Nodes, H[x].parent # Null PROVE x \in B <=> H[x].parent \in B
  <2>1. x # n /\ H[x].parent = node[x].parent /\ node[x].parent \in Nodes
    BY <1>1, <1>2, <1>5, InList
  <2>2. \A q \in Nodes : x \in ToSet(Kids[q]) <=> node[x].parent = q
    BY <1>1, ParentIs
  <2>3. ASSUME x \in B PROVE node[x].parent \in B
    BY <1>3, <1>4, <2>1, <2>2, <2>3
  <2>4. ASSUME node[x].parent \in B PROVE x \in B
    BY <1>3, <2>1, <2>2, <2>4
  <2> QED
    BY <2>1, <2>3, <2>4
<1>6. Lists(G, L)
  BY <1>2, <1>3, <1>5, FreedLists
<1>7. Kids' = L
  BY <1>1, <1>6, KidsAre
<1>8. \A x \in Nodes : /\ node'[x].tag = IF x \in B THEN "freed" ELSE node[x].tag
                       /\ node'[x].parent # x
  <2>1. Freed.tag = "freed" /\ Freed.parent = Null
    BY DEF Freed
  <2>2. \A x \in Nodes : node'[x] = IF x \in B THEN Freed ELSE H[x]
    BY <1>1 DEF Purged
  <2> QED
    BY <1>1, <1>2, <2>1, <2>2, NodesAssumption DEF Inv
<1>9. Live' = Live \ B
  BY <1>8 DEF Live
<1>10. Kids' = [p \in Nodes |-> IF p \in F!Below(n) THEN <<>> ELSE F!Without(n)[p]]
  BY <1>3, <1>7, WithoutIs DEF K, Emptied
<1>11. F!Delete(n)
  BY <1>1, <1>3, <1>9, <1>10 DEF F!Delete, Kids
<1> QED
  BY <1>1, <1>6, <1>7, <1>8, <1>11 DEF Inv

\* A step of the tree keeps its lists, and is one of the forest.
LEMMA NextInv ==
  ASSUME Inv, [Next]_treeVars
  PROVE  Inv' /\ [F!Next]_<<Live, Kids>>
<1>1. CASE UNCHANGED treeVars
  <2>1. node' = node /\ looped' = looped
    BY <1>1 DEF treeVars
  <2>2. Kids' = Kids
    BY <2>1, KidsAre DEF Inv
  <2>3. Live' = Live
    BY <2>1 DEF Live
  <2> QED
    BY <2>1, <2>2, <2>3 DEF Inv
<1>2. ASSUME NEW n \in Nodes, RemoveFromParent(n) PROVE Inv' /\ F!Next
  BY <1>2, RemoveStep DEF F!Next
<1>3. ASSUME NEW n \in Nodes, Delete(n) PROVE Inv' /\ F!Next
  BY <1>3, DeleteStep DEF F!Next
<1>4. ASSUME NEW n \in Nodes, NEW tag \in Tags, Make(n, tag) PROVE Inv' /\ F!Next
  BY <1>4, MakeStep DEF F!Next
<1>5. ASSUME NEW p \in Nodes, NEW c \in Nodes, ~looped, Add(p, c) PROVE Inv' /\ F!Next
  BY <1>5, AddStep DEF F!Next
<1> QED
  BY <1>1, <1>2, <1>3, <1>4, <1>5 DEF Next

\* What json_check asks of the list of a node (json.c:1340-1381).
LEMMA ListChecks ==
  ASSUME Inv, ~looped, NEW n \in Live
  PROVE  Check(n)
<1> DEFINE s == Kids[n]
<1>1. n \in Nodes /\ Lists(node, Kids) /\ node[n].parent # n /\ Children(n) = s
  BY DEF Live, Inv, Kids
<1>2. node[n].tag \in Tags
  BY <1>1 DEF Lists, Cell, Live
<1>3. CASE s = <<>>
  BY <1>1, <1>2, <1>3, LastIs DEF Check
<1>4. CASE s # <<>>
  <2>1. /\ s \in Seq(Nodes) /\ Len(s) \in 1..Len(s) /\ 1 \in 1..Len(s)
        /\ node[n].tail = s[Len(s)] /\ node[n].head = s[1]
        /\ node[n].head # Null /\ node[n].tail # Null /\ Once(s)
    <3>1. Once(s)
      BY <1>1 DEF Lists
    <3>2. /\ s \in Seq(Nodes) /\ Len(s) \in 1..Len(s) /\ 1 \in 1..Len(s)
          /\ node[n].tail = s[Len(s)] /\ node[n].head = s[1]
          /\ node[n].head # Null /\ node[n].tail # Null
      BY <1>1, <1>4, LastIs
    <3> QED
      BY <3>1, <3>2
  <2>2. \A i \in 1..Len(s) : LinkedAt(node, s, n, i) /\ s[i] \in Nodes /\ s[i] # Null
    BY <1>1, ChildIs, NodesAssumption
  <2>3. node[node[n].head].prev = Null
    BY <2>1, <2>2 DEF LinkedAt
  <2>4. ASSUME NEW c \in ToSet(s)
        PROVE  /\ c # n /\ node[c].next \notin {c, node[n].head}
               /\ node[c].parent = n
               /\ node[c].next # Null => node[node[c].next].prev = c
               /\ node[c].key = (node[n].tag = "object")
    <3>1. PICK i \in 1..Len(s) : s[i] = c
      BY <2>1, SetOf
    <3>2. /\ node[c].parent = n /\ node[c].key = (node[n].tag = "object")
          /\ node[c].next = IF i = Len(s) THEN Null ELSE s[i + 1]
      BY <2>2, <3>1 DEF LinkedAt
    <3>3. CASE i = Len(s)
      BY <1>1, <2>1, <2>2, <3>1, <3>2, <3>3
    <3>4. CASE i # Len(s)
      <4>1. i + 1 \in 1..Len(s) /\ i + 1 # i /\ i + 1 # 1
        BY <2>1, <3>4
      <4>2. node[c].next = s[i + 1] /\ s[i + 1] # s[i] /\ s[i + 1] # s[1]
        BY <2>1, <3>2, <3>4, <4>1 DEF Once
      <4>3. node[s[i + 1]].prev = s[i]
        <5>1. (i + 1) - 1 = i
          BY <4>1
        <5> QED
          BY <2>2, <4>1, <5>1 DEF LinkedAt
      <4> QED
        BY <1>1, <2>1, <3>1, <3>2, <4>2, <4>3
    <3> QED
      BY <3>3, <3>4
  <2> QED
    BY <1>1, <1>2, <2>1, <2>3, <2>4 DEF Check
<1> QED
  BY <1>3, <1>4

\* A list has live nodes, and only an array or an object has one.
LEMMA ListsLive ==
  ASSUME Inv, NEW q \in Nodes, Kids[q] # <<>>
  PROVE  q \in Live /\ \A i \in 1..Len(Kids[q]) : Kids[q][i] \in Live
<1>1. Lists(node, Kids)
  BY DEF Inv
<1>2. Ends(node, Kids[q], q)
  BY <1>1 DEF Lists
<1>3. q \in Live
  BY <1>2 DEF Ends, Live
<1>4. ASSUME NEW i \in 1..Len(Kids[q]) PROVE Kids[q][i] \in Live
  BY <1>1, ChildIs DEF LinkedAt, Live
<1> QED
  BY <1>3, <1>4

\* Nodes linked as lists check out (json.c:1313-1381).
LEMMA InvChecksOut ==
  ASSUME Inv
  PROVE  ChecksOut
<1>1. SUFFICES ASSUME ~looped, NEW n \in Live
               PROVE  /\ Check(n)
                      /\ {node[n].parent, node[n].prev, node[n].next, node[n].head, node[n].tail}
                             \subseteq Live \cup {Null}
                      /\ node[n].parent = Null => ~node[n].key /\ node[n].prev = Null /\ node[n].next = Null
  BY DEF ChecksOut
<1>2. n \in Nodes /\ Lists(node, Kids)
  BY DEF Live, Inv
<1>3. node[n].parent = Null => ~node[n].key /\ node[n].prev = Null /\ node[n].next = Null
  BY <1>2 DEF Lists, Apart
<1>4. node[n].head \in Live \cup {Null} /\ node[n].tail \in Live \cup {Null}
  <2>1. CASE Kids[n] = <<>>
    BY <1>2, <2>1, LastIs
  <2>2. CASE Kids[n] # <<>>
    BY <1>2, <2>2, LastIs, ListsLive
  <2> QED
    BY <2>1, <2>2
<1>5. node[n].parent # Null =>
        node[n].parent \in Live /\ node[n].prev \in Live \cup {Null} /\ node[n].next \in Live \cup {Null}
  <2>1. SUFFICES ASSUME node[n].parent # Null
                 PROVE  /\ node[n].parent \in Live
                        /\ node[n].prev \in Live \cup {Null} /\ node[n].next \in Live \cup {Null}
    OBVIOUS
  <2> DEFINE q == node[n].parent
             s == Kids[q]
             i == At(Kids, q, n)
  <2>2. q \in Nodes /\ i \in 1..Len(s) /\ s[i] = n
    BY <1>2, <2>1, InList
  <2>3. LinkedAt(node, s, q, i) /\ s # <<>> /\ Len(s) \in Nat
    BY <1>2, <2>2, ChildIs
  <2>4. q \in Live /\ \A k \in 1..Len(s) : s[k] \in Live
    BY <2>2, <2>3, ListsLive
  <2>5. /\ node[n].prev = IF i = 1 THEN Null ELSE s[i - 1]
        /\ node[n].next = IF i = Len(s) THEN Null ELSE s[i + 1]
    BY <2>2, <2>3 DEF LinkedAt
  <2>6. /\ i # 1 => i - 1 \in 1..Len(s)
        /\ i # Len(s) => i + 1 \in 1..Len(s)
    BY <2>2, <2>3
  <2> QED
    BY <2>4, <2>5, <2>6
<1> QED
  <2>1. Check(n)
    BY <1>1, ListChecks
  <2>2. node[n].parent = Null => node[n].prev \in Live \cup {Null} /\ node[n].next \in Live \cup {Null}
    BY <1>3
  <2> QED
    BY <1>3, <1>4, <1>5, <2>1, <2>2

\* The links are lists at every state.
LEMMA SpecInv == Spec => []Inv
<1>1. Init => Inv
  BY InitInv
<1>2. Inv /\ [Next]_treeVars => Inv'
  BY NextInv
<1> QED
  BY <1>1, <1>2, PTL DEF Spec

\* json_check has nothing to say of any value, no link leads to freed memory, and a
\* value without a parent has no key and no siblings, for any memory and any calls
\* that put no value below itself (json.c:1313-1381, :407-621).
THEOREM TreeChecksOut == Spec => []ChecksOut
<1>1. Inv => ChecksOut
  BY InvChecksOut
<1> QED
  BY <1>1, SpecInv, PTL

\* The calls on the linked nodes are the calls on a forest of ordered children that
\* json.h promises, for any memory: making, attaching at either end, detaching and
\* deleting with everything below (json.c:407-621).
THEOREM TreeIsForest == Spec => ImplementsForest
<1>1. Init => F!Init
  BY InitInv
<1>2. Inv /\ [Next]_treeVars => [F!Next]_<<Live, Kids>>
  BY NextInv
<1>3. Inv /\ [Next]_treeVars => [F!Next]_<<Live, [n \in Nodes |-> Children(n)]>>
  BY <1>2 DEF Kids
<1> QED
  BY <1>1, <1>3, SpecInv, PTL DEF Spec, ImplementsForest, F!Spec
=============================================================================
