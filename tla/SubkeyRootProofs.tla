-------------------------- MODULE SubkeyRootProofs --------------------------
(***************************************************************************)
(* The root of SubkeyMerkle commits to the whole list of subkeys, for      *)
(* every list: merkle_root computes the root of the tree RefRoot describes *)
(* by its shape, and two lists with one root are one list.                 *)
(*                                                                         *)
(* The argument is by induction on the height of the tree.  The induction  *)
(* is over sets of numbers: a set that holds 0 and, with each number, the  *)
(* next one, holds every number; it rests on the fact of the library that  *)
(* < is well-founded on Nat.                                               *)
(***************************************************************************)
EXTENDS SubkeyMerkleProofs, WellFoundedInduction

-----------------------------------------------------------------------------
(* Induction, and the two recursive functions of RefRoot.                  *)

\* A set of natural numbers that is not empty has a least member.
LEMMA LeastNumber ==
  ASSUME NEW T, T \subseteq Nat, T # {}
  PROVE  \E x \in T : \A y \in T : x <= y
  <1>1. PICK x \in T : \A y \in T : ~ (<<y, x>> \in OpToRel(<, Nat))
    BY NatLessThanWellFounded, WFMin
  <1>2. \A y \in T : ~ (y < x)
    BY <1>1 DEF OpToRel
  <1>. QED BY <1>2

\* Induction over the natural numbers.
LEMMA SetInduction ==
  ASSUME NEW T, 0 \in T, \A n \in Nat : n \in T => n + 1 \in T
  PROVE  Nat \subseteq T
  <1>. SUFFICES ASSUME ~ (Nat \subseteq T) PROVE FALSE
    OBVIOUS
  <1>1. PICK x \in Nat \ T : \A y \in Nat \ T : x <= y
    BY LeastNumber
  <1>2. x # 0 /\ x - 1 \in Nat /\ (x - 1) + 1 = x
    BY <1>1
  <1>3. x - 1 \in T
    BY <1>1, <1>2
  <1>. QED BY <1>1, <1>2, <1>3

\* LastAt is the function its definition describes.
LEMMA LastAtRec ==
  ASSUME NEW c, Cardinality(DOMAIN c) \in Nat \ {0}
  PROVE  /\ LastAt(c)[0] = Cardinality(DOMAIN c) - 1
         /\ \A d \in Nat : LastAt(c)[d] \in Nat /\ LastAt(c)[d + 1] = LastAt(c)[d] \div 2
  <1>. DEFINE first == Cardinality(DOMAIN c) - 1
              Upto(k, g) == /\ g[0] = first
                            /\ \A d \in 0 .. k : g[d] \in Nat
                            /\ \A d \in 1 .. k : g[d] = g[d - 1] \div 2
              Has == {k \in Nat : \E g : Upto(k, g)}
  <1>1. first \in Nat
    OBVIOUS
  <1>. HIDE DEF first
  <1>2. \A k \in Nat : \E g : Upto(k, g)
    <2>1. 0 \in Has
      <3>1. Upto(0, [d \in Nat |-> first])
        BY <1>1
      <3>. QED BY <3>1
    <2>2. ASSUME NEW k \in Nat, k \in Has PROVE k + 1 \in Has
      <3>1. PICK g : Upto(k, g)
        BY <2>2
      <3>. DEFINE h == [d \in Nat |-> IF d = k + 1 THEN g[k] \div 2 ELSE g[d]]
      <3>2. Upto(k + 1, h)
        BY <3>1
      <3>. HIDE DEF h, Upto
      <3>3. \E f : Upto(k + 1, f)
        BY <3>2, Zenon
      <3>. QED BY <3>3
    <2>. HIDE DEF Has
    <2>3. Nat \subseteq Has
      BY <2>1, <2>2, SetInduction
    <2>. QED BY <2>3 DEF Has
  <1>. DEFINE G(k) == CHOOSE g : Upto(k, g)
              Same == {d \in Nat : \A k, l \in Nat : d <= k /\ d <= l => G(k)[d] = G(l)[d]}
              F == [d \in Nat |-> G(d)[d]]
  <1>3. \A k \in Nat : Upto(k, G(k))
    BY <1>2
  <1>. HIDE DEF G
  <1>4. Nat \subseteq Same
    <2>1. 0 \in Same
      BY <1>3
    <2>2. ASSUME NEW d \in Nat, d \in Same PROVE d + 1 \in Same
      <3>. SUFFICES ASSUME NEW k \in Nat, NEW l \in Nat, d + 1 <= k, d + 1 <= l
                    PROVE  G(k)[d + 1] = G(l)[d + 1]
        OBVIOUS
      <3>1. G(k)[d] = G(l)[d]
        BY <2>2
      <3>2. d + 1 \in 1 .. k /\ d + 1 \in 1 .. l /\ (d + 1) - 1 = d
        OBVIOUS
      <3>. QED BY <1>3, <3>1, <3>2
    <2>. HIDE DEF Same
    <2>. QED BY <2>1, <2>2, SetInduction
  <1>5. F = [d \in Nat |-> IF d = 0 THEN first ELSE F[d - 1] \div 2]
    <2>1. ASSUME NEW d \in Nat, d # 0 PROVE G(d)[d] = G(d - 1)[d - 1] \div 2
      <3>1. d - 1 \in Nat /\ d \in 1 .. d
        BY <2>1
      <3>2. G(d)[d - 1] = G(d - 1)[d - 1]
        BY <3>1, <1>4
      <3>. QED BY <1>3, <3>1, <3>2
    <2>2. G(0)[0] = first
      BY <1>3
    <2>. QED BY <2>1, <2>2
  <1>6. LastAt(c) = CHOOSE f : f = [d \in Nat |-> IF d = 0 THEN first ELSE f[d - 1] \div 2]
    BY DEF LastAt, first
  <1>. HIDE DEF F
  <1>7. LastAt(c) = [d \in Nat |-> IF d = 0 THEN first ELSE LastAt(c)[d - 1] \div 2]
    BY <1>5, <1>6
  <1>8. /\ LastAt(c)[0] = first
        /\ \A d \in Nat : LastAt(c)[d + 1] = LastAt(c)[d] \div 2
    BY <1>7
  <1>. DEFINE Typed == {d \in Nat : LastAt(c)[d] \in Nat}
  <1>9. Nat \subseteq Typed
    <2>1. 0 \in Typed
      BY <1>1, <1>8
    <2>2. \A d \in Nat : d \in Typed => d + 1 \in Typed
      BY <1>8
    <2>. HIDE DEF Typed
    <2>. QED BY <2>1, <2>2, SetInduction
  <1>. QED BY <1>8, <1>9 DEF first
\* NodeAt is the function its definition describes: the nodes of a height are
\* made from those of the height below, the same way at every height.
NodesAbove(below, last) ==
  [i \in Nat |-> HashNode(below[2 * i], below[IF 2 * i < last THEN 2 * i + 1 ELSE last])]

LEMMA NodeAtRec ==
  ASSUME NEW c
  PROVE  /\ \A i \in Nat : NodeAt(c)[0][i] = SubkeyLeaf(c[i])
         /\ \A d \in Nat : NodeAt(c)[d + 1] = NodesAbove(NodeAt(c)[d], LastAt(c)[d])
  <1>. DEFINE first == [i \in Nat |-> SubkeyLeaf(c[i])]
              Upto(k, g) == /\ g[0] = first
                            /\ \A d \in 1 .. k : g[d] = NodesAbove(g[d - 1], LastAt(c)[d - 1])
              Has == {k \in Nat : \E g : Upto(k, g)}
  <1>. HIDE DEF first
  <1>2. \A k \in Nat : \E g : Upto(k, g)
    <2>1. 0 \in Has
      <3>1. Upto(0, [d \in Nat |-> first])
        OBVIOUS
      <3>. QED BY <3>1
    <2>2. ASSUME NEW k \in Nat, k \in Has PROVE k + 1 \in Has
      <3>1. PICK g : Upto(k, g)
        BY <2>2
      <3>. DEFINE top == NodesAbove(g[k], LastAt(c)[k])
                  h == [d \in Nat |-> IF d = k + 1 THEN top ELSE g[d]]
      <3>. HIDE DEF top
      <3>2. /\ h[k + 1] = top /\ h[0] = first
            /\ \A d \in 0 .. k : h[d] = g[d]
        BY <3>1
      <3>. HIDE DEF h
      <3>3. ASSUME NEW d \in 1 .. k + 1
            PROVE  h[d] = NodesAbove(h[d - 1], LastAt(c)[d - 1])
        <4>1. CASE d = k + 1
          BY <3>2, <4>1 DEF top
        <4>2. CASE d # k + 1
          <5>1. d \in 1 .. k /\ d - 1 \in 0 .. k /\ d \in 0 .. k
            BY <4>2
          <5>. QED BY <3>1, <3>2, <5>1
        <4>. QED BY <4>1, <4>2
      <3>4. Upto(k + 1, h)
        BY <3>2, <3>3
      <3>. HIDE DEF Upto
      <3>5. \E f : Upto(k + 1, f)
        BY <3>4, Zenon
      <3>. QED BY <3>5
    <2>. HIDE DEF Has
    <2>3. Nat \subseteq Has
      BY <2>1, <2>2, SetInduction
    <2>. QED BY <2>3 DEF Has
  <1>. DEFINE G(k) == CHOOSE g : Upto(k, g)
              Same == {d \in Nat : \A k, l \in Nat : d <= k /\ d <= l => G(k)[d] = G(l)[d]}
              F == [d \in Nat |-> G(d)[d]]
  <1>3. \A k \in Nat : Upto(k, G(k))
    <2>. HIDE DEF Upto
    <2>. QED BY <1>2
  <1>. HIDE DEF G
  <1>4. Nat \subseteq Same
    <2>1. 0 \in Same
      BY <1>3
    <2>2. ASSUME NEW d \in Nat, d \in Same PROVE d + 1 \in Same
      <3>. SUFFICES ASSUME NEW k \in Nat, NEW l \in Nat, d + 1 <= k, d + 1 <= l
                    PROVE  G(k)[d + 1] = G(l)[d + 1]
        OBVIOUS
      <3>1. G(k)[d] = G(l)[d]
        BY <2>2
      <3>2. d + 1 \in 1 .. k /\ d + 1 \in 1 .. l /\ (d + 1) - 1 = d
        OBVIOUS
      <3>. QED BY <1>3, <3>1, <3>2
    <2>. HIDE DEF Same
    <2>. QED BY <2>1, <2>2, SetInduction
  <1>5. F[0] = first /\ \A d \in Nat \ {0} : F[d] = NodesAbove(F[d - 1], LastAt(c)[d - 1])
    <2>1. ASSUME NEW d \in Nat, d # 0
          PROVE  G(d)[d] = NodesAbove(G(d - 1)[d - 1], LastAt(c)[d - 1])
      <3>1. d - 1 \in Nat /\ d \in 1 .. d
        BY <2>1
      <3>2. G(d)[d - 1] = G(d - 1)[d - 1]
        BY <3>1, <1>4
      <3>. QED BY <1>3, <3>1, <3>2
    <2>2. G(0)[0] = first
      BY <1>3
    <2>. QED BY <2>1, <2>2
  <1>. DEFINE Described(f) == [d \in Nat |->
                [i \in Nat |->
                   IF d = 0 THEN SubkeyLeaf(c[i])
                   ELSE HashNode(f[d - 1][2 * i],
                                 f[d - 1][IF 2 * i < LastAt(c)[d - 1] THEN 2 * i + 1
                                                                      ELSE LastAt(c)[d - 1]])]]
  <1>6. F = Described(F)
    <2>1. F = [d \in Nat |-> F[d]]
      OBVIOUS
    <2>. HIDE DEF F
    <2>2. Described(F)[0] = F[0]
      BY <1>5 DEF first
    <2>3. ASSUME NEW d \in Nat \ {0} PROVE Described(F)[d] = F[d]
      BY <1>5 DEF NodesAbove
    <2>4. Described(F) = [d \in Nat |-> Described(F)[d]]
      OBVIOUS
    <2>. HIDE DEF Described
    <2>5. \A d \in Nat : Described(F)[d] = F[d]
      BY <2>2, <2>3
    <2>. QED BY <2>1, <2>4, <2>5
  <1>7. NodeAt(c) = CHOOSE f : f = Described(f)
    BY DEF NodeAt
  <1>. HIDE DEF F, Described
  <1>8. NodeAt(c) = Described(NodeAt(c))
    BY <1>6, <1>7
  <1>9. ASSUME NEW d \in Nat PROVE NodeAt(c)[d + 1] = NodesAbove(NodeAt(c)[d], LastAt(c)[d])
    <2>. DEFINE N == NodeAt(c)
    <2>1. N = Described(N) /\ d + 1 \in Nat /\ d + 1 # 0 /\ (d + 1) - 1 = d
      BY <1>8
    <2>. HIDE DEF N
    <2>2. Described(N)[d + 1] = NodesAbove(N[d], LastAt(c)[d])
      BY <2>1 DEF Described, NodesAbove
    <2>3. N[d + 1] = NodesAbove(N[d], LastAt(c)[d])
      <3>. HIDE DEF Described
      <3>. QED BY <2>1, <2>2, Zenon
    <2>. QED BY <2>3 DEF N
  <1>10. ASSUME NEW i \in Nat PROVE NodeAt(c)[0][i] = SubkeyLeaf(c[i])
    BY <1>8 DEF Described
  <1>. QED BY <1>9, <1>10

-----------------------------------------------------------------------------
(* The shape of the tree of one ceremony.                                  *)

\* A ceremony that committed something is a Vec of Cardinality(DOMAIN c) subkeys.
LEMMA CeremonyVec ==
  ASSUME NEW c \in Ceremonies, DOMAIN c # {}
  PROVE  /\ Cardinality(DOMAIN c) \in Nat \ {0}
         /\ DOMAIN c = 0 .. Cardinality(DOMAIN c) - 1
         /\ 0 \in DOMAIN c
         /\ DOMAIN c = 0 .. LastAt(c)[0]
  <1>1. Cardinality(DOMAIN c) \in Nat /\ DOMAIN c = 0 .. Cardinality(DOMAIN c) - 1
    BY CeremoniesAssumption, FS_CardinalityType
  <1>2. Cardinality(DOMAIN c) # 0
    BY <1>1
  <1>. QED BY <1>1, <1>2, LastAtRec

\* Each height has at most one node less than the one below it has, so that
\* within DOMAIN c there is a first height of one node.
LEMMA HeightExists ==
  ASSUME NEW c \in Ceremonies, DOMAIN c # {}
  PROVE  /\ Height(c) \in Nat /\ LastAt(c)[Height(c)] = 0
         /\ Height(c) = 0 \/ LastAt(c)[Height(c) - 1] # 0
  <1>. DEFINE n == Cardinality(DOMAIN c)
              L == LastAt(c)
              Low == {d \in Nat : L[d] = 0 \/ L[d] + d <= n - 1}
  <1>1. n \in Nat \ {0} /\ DOMAIN c = 0 .. n - 1
    BY CeremonyVec
  <1>2. L[0] = n - 1 /\ \A d \in Nat : L[d] \in Nat /\ L[d + 1] = L[d] \div 2
    BY <1>1, LastAtRec
  <1>. HIDE DEF n, L
  <1>3. Nat \subseteq Low
    <2>1. 0 \in Low
      <3>1. n - 1 \in Nat /\ (n - 1) + 0 <= n - 1
        BY <1>1
      <3>. QED BY <1>2, <3>1
    <2>2. ASSUME NEW d \in Nat, d \in Low PROVE d + 1 \in Low
      <3>1. L[d] \in Nat /\ L[d + 1] = L[d] \div 2
        BY <1>2
      <3>2. CASE L[d] = 0
        BY <3>1, <3>2
      <3>3. CASE L[d] # 0
        <4>1. L[d] \div 2 <= L[d] - 1 /\ L[d] \div 2 \in Nat
          BY <3>1, <3>3
        <4>. QED BY <1>1, <2>2, <3>1, <3>3, <4>1
      <3>. QED BY <3>2, <3>3
    <2>. HIDE DEF Low
    <2>. QED BY <2>1, <2>2, SetInduction
  <1>4. PICK d \in {e \in Nat : L[e] = 0} : \A e \in {x \in Nat : L[x] = 0} : d <= e
    <2>1. n \in {e \in Nat : L[e] = 0}
      <3>1. L[n] = 0 \/ L[n] + n <= n - 1
        BY <1>1, <1>3
      <3>2. n \in Nat /\ L[n] \in Nat
        BY <1>1, <1>2
      <3>3. L[n] = 0
        BY <3>1, <3>2
      <3>. QED BY <3>2, <3>3
    <2>. QED BY <2>1, LeastNumber
  <1>5. d = 0 \/ (d - 1 \in Nat /\ L[d - 1] # 0)
    BY <1>4
  <1>6. d \in 0 .. n - 1
    <2>1. CASE d = 0
      BY <1>1, <2>1
    <2>2. CASE d # 0
      <3>1. d - 1 \in Nat /\ L[d - 1] \in Nat \ {0}
        BY <1>2, <1>5, <2>2
      <3>2. L[d - 1] + (d - 1) <= n - 1
        BY <1>3, <3>1
      <3>. QED BY <1>1, <3>1, <3>2
    <2>. QED BY <2>1, <2>2
  <1>7. \E e \in DOMAIN c : LastAt(c)[e] = 0 /\ (e = 0 \/ LastAt(c)[e - 1] # 0)
    BY <1>1, <1>4, <1>5, <1>6 DEF L
  <1>8. /\ Height(c) \in DOMAIN c /\ LastAt(c)[Height(c)] = 0
        /\ Height(c) = 0 \/ LastAt(c)[Height(c) - 1] # 0
    BY <1>7, Zenon DEF Height
  <1>. QED BY <1>1, <1>8

\* Every height up to Height(c) but the last has two nodes or more.
LEMMA BelowHeight ==
  ASSUME NEW c \in Ceremonies, DOMAIN c # {}
  PROVE  /\ \A d \in Nat : d < Height(c) => LastAt(c)[d] # 0
         /\ \A d \in Nat : d >= Height(c) => LastAt(c)[d] = 0
  <1>. DEFINE L == LastAt(c)
              Zero == {d \in Nat : \A e \in Nat : e <= d /\ L[e] = 0 => L[d] = 0}
  <1>1. \A d \in Nat : L[d] \in Nat /\ L[d + 1] = L[d] \div 2
    BY CeremonyVec, LastAtRec
  <1>2. /\ Height(c) \in Nat /\ L[Height(c)] = 0
        /\ Height(c) = 0 \/ L[Height(c) - 1] # 0
    BY HeightExists
  <1>. HIDE DEF L
  <1>3. Nat \subseteq Zero
    <2>1. 0 \in Zero
      OBVIOUS
    <2>2. ASSUME NEW d \in Nat, d \in Zero PROVE d + 1 \in Zero
      <3>. SUFFICES ASSUME NEW e \in Nat, e <= d + 1, L[e] = 0 PROVE L[d + 1] = 0
        OBVIOUS
      <3>1. CASE e <= d
        <4>1. L[d] = 0
          BY <2>2, <3>1
        <4>. QED BY <1>1, <4>1
      <3>2. CASE e = d + 1
        BY <3>2
      <3>. QED BY <3>1, <3>2
    <2>. HIDE DEF Zero
    <2>. QED BY <2>1, <2>2, SetInduction
  <1>4. ASSUME NEW d \in Nat, d < Height(c) PROVE L[d] # 0
    <2>1. Height(c) - 1 \in Nat /\ d <= Height(c) - 1
      BY <1>2, <1>4
    <2>2. L[d] = 0 => L[Height(c) - 1] = 0
      BY <1>3, <2>1
    <2>. QED BY <1>2, <2>1, <2>2
  <1>5. ASSUME NEW d \in Nat, d >= Height(c) PROVE L[d] = 0
    BY <1>2, <1>3, <1>5
  <1>. QED BY <1>4, <1>5 DEF L

\* The children of a node: both are nodes of the height below, the left one is
\* 2 * i; the right one of the last node is the last node below.
LEMMA Children ==
  ASSUME NEW c \in Ceremonies, DOMAIN c # {}, NEW d \in Nat, NEW i \in 0 .. LastAt(c)[d + 1]
  PROVE  LET last  == LastAt(c)[d]
             right == IF 2 * i < last THEN 2 * i + 1 ELSE last
         IN  /\ 2 * i \in 0 .. last /\ right \in 0 .. last
             /\ i = LastAt(c)[d + 1] => right = last
             /\ NodeAt(c)[d + 1][i] = HashNode(NodeAt(c)[d][2 * i], NodeAt(c)[d][right])
  <1>1. LastAt(c)[d] \in Nat /\ LastAt(c)[d + 1] = LastAt(c)[d] \div 2
    BY CeremonyVec, LastAtRec
  <1>2. NodeAt(c)[d + 1] = NodesAbove(NodeAt(c)[d], LastAt(c)[d])
    BY NodeAtRec
  <1>3. i \in Nat
    OBVIOUS
  <1>4. NodeAt(c)[d + 1][i] =
          HashNode(NodeAt(c)[d][2 * i],
                   NodeAt(c)[d][IF 2 * i < LastAt(c)[d] THEN 2 * i + 1 ELSE LastAt(c)[d]])
    BY <1>2, <1>3 DEF NodesAbove
  <1>5. 2 * i \in 0 .. LastAt(c)[d]
    BY <1>1, <1>3
  <1>. QED BY <1>1, <1>3, <1>4, <1>5

\* A node at height 0 is the leaf of the subkey of its index.
LEMMA Bottom ==
  ASSUME NEW c \in Ceremonies, DOMAIN c # {}, NEW i \in 0 .. LastAt(c)[0]
  PROVE  /\ i \in Nat /\ i \in DOMAIN c /\ c[i] \in Subkeys /\ c[i].index = i
         /\ NodeAt(c)[0][i] = SubkeyLeaf(c[i])
  <1>0. DOMAIN c = 0 .. LastAt(c)[0]
    BY CeremonyVec
  <1>1. i \in Nat /\ i \in DOMAIN c
    BY <1>0
  <1>. QED BY <1>1, NodeAtRec, RecordsAreVecs

\* A node above height 0 is an inner node whose left child is node 2 * i below.
LEMMA LeftChild ==
  ASSUME NEW c \in Ceremonies, DOMAIN c # {}, NEW d \in Nat, NEW i \in 0 .. LastAt(c)[d + 1]
  PROVE  /\ i \in Nat /\ 2 * i \in 0 .. LastAt(c)[d]
         /\ \E x : NodeAt(c)[d + 1][i] = HashNode(NodeAt(c)[d][2 * i], x)
  BY Children

\* A digest tells its place: nodes of two trees that are the same digest are at
\* the same height and the same index, because a leaf holds its index.
LEMMA Position ==
  ASSUME NEW c \in Ceremonies, DOMAIN c # {}, NEW r \in Ceremonies, DOMAIN r # {}
  PROVE  \A d, e \in Nat : \A i \in 0 .. LastAt(c)[d], j \in 0 .. LastAt(r)[e] :
           NodeAt(c)[d][i] = NodeAt(r)[e][j] => d = e /\ i = j
  <1>. DEFINE Placed(d) == \A e \in Nat : \A i \in 0 .. LastAt(c)[d], j \in 0 .. LastAt(r)[e] :
                             NodeAt(c)[d][i] = NodeAt(r)[e][j] => d = e /\ i = j
              T == {d \in Nat : Placed(d)}
  <1>1. Placed(0)
    <2>. SUFFICES ASSUME NEW e \in Nat, NEW i \in 0 .. LastAt(c)[0], NEW j \in 0 .. LastAt(r)[e],
                         NodeAt(c)[0][i] = NodeAt(r)[e][j]
                  PROVE  0 = e /\ i = j
      OBVIOUS
    <2>1. i \in Nat /\ c[i] \in Subkeys /\ c[i].index = i /\ NodeAt(c)[0][i] = SubkeyLeaf(c[i])
      BY Bottom
    <2>2. CASE e = 0
      <3>1. j \in Nat /\ r[j] \in Subkeys /\ r[j].index = j /\ NodeAt(r)[0][j] = SubkeyLeaf(r[j])
        BY <2>2, Bottom
      <3>2. c[i] = r[j]
        BY <2>1, <2>2, <3>1, LeafInjective
      <3>. QED BY <2>1, <2>2, <3>1, <3>2
    <2>3. CASE e # 0
      <3>1. PICK f \in Nat : e = f + 1
        <4>1. e - 1 \in Nat /\ e = (e - 1) + 1
          BY <2>3
        <4>. QED BY <4>1
      <3>2. PICK x : NodeAt(r)[f + 1][j] = HashNode(NodeAt(r)[f][2 * j], x)
        BY <3>1, LeftChild
      <3>3. SubkeyLeaf(c[i]) = HashNode(NodeAt(r)[f][2 * j], x)
        BY <2>1, <3>1, <3>2
      <3>. QED BY <3>3, DigestsDiffer
    <2>. QED BY <2>2, <2>3
  <1>2. ASSUME NEW d \in Nat, Placed(d) PROVE Placed(d + 1)
    <2>. SUFFICES ASSUME NEW e \in Nat, NEW i \in 0 .. LastAt(c)[d + 1], NEW j \in 0 .. LastAt(r)[e],
                         NodeAt(c)[d + 1][i] = NodeAt(r)[e][j]
                  PROVE  d + 1 = e /\ i = j
      OBVIOUS
    <2>1. i \in Nat /\ 2 * i \in 0 .. LastAt(c)[d]
      BY LeftChild
    <2>2. PICK x : NodeAt(c)[d + 1][i] = HashNode(NodeAt(c)[d][2 * i], x)
      BY LeftChild
    <2>3. e # 0
      <3>. SUFFICES ASSUME e = 0 PROVE FALSE
        OBVIOUS
      <3>1. NodeAt(r)[0][j] = SubkeyLeaf(r[j])
        BY Bottom
      <3>2. SubkeyLeaf(r[j]) = HashNode(NodeAt(c)[d][2 * i], x)
        BY <2>2, <3>1
      <3>. QED BY <3>2, DigestsDiffer
    <2>4. PICK f \in Nat : e = f + 1
      <3>1. e - 1 \in Nat /\ e = (e - 1) + 1
        BY <2>3
      <3>. QED BY <3>1
    <2>5. j \in Nat /\ 2 * j \in 0 .. LastAt(r)[f]
      BY <2>4, LeftChild
    <2>6. PICK y : NodeAt(r)[f + 1][j] = HashNode(NodeAt(r)[f][2 * j], y)
      BY <2>4, LeftChild
    <2>7. HashNode(NodeAt(c)[d][2 * i], x) = HashNode(NodeAt(r)[f][2 * j], y)
      BY <2>2, <2>4, <2>6
    <2>8. NodeAt(c)[d][2 * i] = NodeAt(r)[f][2 * j]
      BY <2>7, NodeInjective
    <2>9. d = f /\ 2 * i = 2 * j
      BY <1>2, <2>1, <2>5, <2>8
    <2>. QED BY <2>1, <2>4, <2>5, <2>9
  <1>. HIDE DEF Placed
  <1>3. 0 \in T /\ \A d \in Nat : d \in T => d + 1 \in T
    BY <1>1, <1>2
  <1>. HIDE DEF T
  <1>4. Nat \subseteq T
    BY <1>3, SetInduction
  <1>5. \A d \in Nat : Placed(d)
    BY <1>4 DEF T
  <1>. QED BY <1>5 DEF Placed

-----------------------------------------------------------------------------
(* Two ceremonies with one root.                                           *)

\* From the root down, two trees with one root have the same nodes at every
\* height: each parent tells both its children and where they are, and the right
\* child of the last parent tells how many there are.
LEMMA SameNodes ==
  ASSUME NEW c \in Ceremonies, DOMAIN c # {}, NEW r \in Ceremonies, DOMAIN r # {},
         RefRoot(c) = RefRoot(r)
  PROVE  LastAt(c)[0] = LastAt(r)[0] /\ \A i \in 0 .. LastAt(c)[0] : NodeAt(c)[0][i] = NodeAt(r)[0][i]
  <1>. DEFINE Same(d) == /\ LastAt(c)[d] = LastAt(r)[d]
                         /\ \A i \in 0 .. LastAt(c)[d] : NodeAt(c)[d][i] = NodeAt(r)[d][i]
              h == Height(c)
              T == {k \in Nat : k <= h => Same(h - k)}
  <1>1. /\ h \in Nat /\ LastAt(c)[h] = 0 /\ Height(r) \in Nat /\ LastAt(r)[Height(r)] = 0
        /\ NodeAt(c)[h][0] = NodeAt(r)[Height(r)][0]
    BY HeightExists DEF RefRoot
  <1>2. Height(r) = h
    <2>1. 0 \in 0 .. LastAt(c)[h] /\ 0 \in 0 .. LastAt(r)[Height(r)]
      BY <1>1
    <2>. HIDE DEF h
    <2>. QED BY <1>1, <2>1, Position
  <1>3. Same(h)
    BY <1>1, <1>2
  <1>. HIDE DEF h
  <1>4. ASSUME NEW d \in Nat, Same(d + 1) PROVE Same(d)
    <2>. DEFINE lc == LastAt(c)[d]
                lr == LastAt(r)[d]
                top == LastAt(c)[d + 1]
                RightOf(i, last) == IF 2 * i < last THEN 2 * i + 1 ELSE last
    <2>1. lc \in Nat /\ lr \in Nat /\ top = lc \div 2 /\ top = LastAt(r)[d + 1]
      BY <1>4, CeremonyVec, LastAtRec
    <2>2. ASSUME NEW i \in 0 .. top
          PROVE  /\ NodeAt(c)[d][2 * i] = NodeAt(r)[d][2 * i]
                 /\ NodeAt(c)[d][RightOf(i, lc)] = NodeAt(r)[d][RightOf(i, lr)]
                 /\ RightOf(i, lc) = RightOf(i, lr)
                 /\ i = top => RightOf(i, lc) = lc /\ RightOf(i, lr) = lr
      <3>1. /\ RightOf(i, lc) \in 0 .. lc /\ (i = top => RightOf(i, lc) = lc)
            /\ NodeAt(c)[d + 1][i] = HashNode(NodeAt(c)[d][2 * i], NodeAt(c)[d][RightOf(i, lc)])
        BY Children
      <3>2. /\ RightOf(i, lr) \in 0 .. lr /\ (i = LastAt(r)[d + 1] => RightOf(i, lr) = lr)
            /\ NodeAt(r)[d + 1][i] = HashNode(NodeAt(r)[d][2 * i], NodeAt(r)[d][RightOf(i, lr)])
        BY <2>1, Children
      <3>. HIDE DEF RightOf, lc, lr, top
      <3>3. NodeAt(c)[d + 1][i] = NodeAt(r)[d + 1][i]
        BY <1>4 DEF top
      <3>4. /\ NodeAt(c)[d][2 * i] = NodeAt(r)[d][2 * i]
            /\ NodeAt(c)[d][RightOf(i, lc)] = NodeAt(r)[d][RightOf(i, lr)]
        <4>1. HashNode(NodeAt(c)[d][2 * i], NodeAt(c)[d][RightOf(i, lc)])
                = HashNode(NodeAt(r)[d][2 * i], NodeAt(r)[d][RightOf(i, lr)])
          BY <3>1, <3>2, <3>3
        <4>. QED BY <4>1, NodeInjective
      <3>5. RightOf(i, lc) = RightOf(i, lr)
        BY <3>1, <3>2, <3>4, Position DEF lc, lr
      <3>. QED BY <2>1, <3>1, <3>2, <3>4, <3>5
    <2>3. lc = lr
      <3>1. top \in 0 .. top
        BY <2>1
      <3>. HIDE DEF RightOf, lc, lr, top
      <3>. QED BY <2>1, <2>2, <3>1
    <2>4. ASSUME NEW j \in 0 .. lc PROVE NodeAt(c)[d][j] = NodeAt(r)[d][j]
      <3>. HIDE DEF lc, lr, top
      <3>1. j \in Nat /\ j \div 2 \in 0 .. top
        BY <2>1
      <3>2. CASE j = 2 * (j \div 2)
        <4>1. NodeAt(c)[d][2 * (j \div 2)] = NodeAt(r)[d][2 * (j \div 2)]
          BY <2>2, <3>1
        <4>. QED BY <3>2, <4>1
      <3>3. CASE j # 2 * (j \div 2)
        <4>1. j = 2 * (j \div 2) + 1 /\ 2 * (j \div 2) < lc
          BY <2>1, <3>1, <3>3
        <4>2. RightOf(j \div 2, lc) = j
          BY <4>1
        <4>. HIDE DEF RightOf
        <4>3. NodeAt(c)[d][RightOf(j \div 2, lc)] = NodeAt(r)[d][RightOf(j \div 2, lc)]
          BY <2>2, <3>1
        <4>. QED BY <4>2, <4>3
      <3>. QED BY <3>2, <3>3
    <2>. QED BY <2>3, <2>4
  <1>. HIDE DEF Same
  <1>5. Nat \subseteq T
    <2>1. 0 \in T
      BY <1>1, <1>3
    <2>2. ASSUME NEW k \in Nat, k \in T PROVE k + 1 \in T
      <3>. SUFFICES ASSUME k + 1 <= h PROVE Same(h - (k + 1))
        OBVIOUS
      <3>1. h - (k + 1) \in Nat /\ (h - (k + 1)) + 1 = h - k /\ k <= h
        BY <1>1
      <3>2. Same(h - k)
        BY <2>2, <3>1
      <3>3. Same((h - (k + 1)) + 1)
        BY <3>1, <3>2
      <3>. QED BY <1>4, <3>1, <3>3
    <2>. HIDE DEF T
    <2>. QED BY <2>1, <2>2, SetInduction
  <1>6. Same(0)
    <2>1. h \in T /\ h <= h /\ h - h = 0
      BY <1>1, <1>5
    <2>. QED BY <2>1
  <1>. QED BY <1>6 DEF Same

\* No two ceremonies have one root.
THEOREM RootIsInjective ==
  ASSUME NEW c \in Ceremonies, NEW r \in Ceremonies, RefRoot(c) = RefRoot(r)
  PROVE  c = r
  <1>1. ASSUME NEW b \in Ceremonies, DOMAIN b # {} PROVE RefRoot(b) # ZeroRoot
    <2>1. Height(b) \in Nat /\ LastAt(b)[Height(b)] = 0 /\ RefRoot(b) = NodeAt(b)[Height(b)][0]
      BY <1>1, HeightExists DEF RefRoot
    <2>2. 0 \in 0 .. LastAt(b)[Height(b)]
      BY <2>1
    <2>3. CASE Height(b) = 0
      <3>1. NodeAt(b)[0][0] = SubkeyLeaf(b[0])
        BY <1>1, <2>2, <2>3, Bottom
      <3>. QED BY <2>1, <2>3, <3>1, DigestsDiffer
    <2>4. CASE Height(b) # 0
      <3>1. PICK d \in Nat : Height(b) = d + 1
        <4>1. Height(b) - 1 \in Nat /\ Height(b) = (Height(b) - 1) + 1
          BY <2>1, <2>4
        <4>. QED BY <4>1
      <3>2. 0 \in 0 .. LastAt(b)[d + 1]
        BY <2>2, <3>1
      <3>3. \E x : NodeAt(b)[d + 1][0] = HashNode(NodeAt(b)[d][2 * 0], x)
        BY <1>1, <3>2, LeftChild
      <3>. QED BY <2>1, <3>1, <3>3, DigestsDiffer
    <2>. QED BY <2>3, <2>4
  <1>2. /\ c = [i \in DOMAIN c |-> c[i]] /\ r = [i \in DOMAIN r |-> r[i]]
    BY CeremoniesAssumption
  <1>3. CASE DOMAIN c = {} \/ DOMAIN r = {}
    <2>1. RefRoot(c) = ZeroRoot /\ RefRoot(r) = ZeroRoot
      BY <1>3 DEF RefRoot
    <2>2. DOMAIN c = {} /\ DOMAIN r = {}
      BY <1>1, <2>1
    <2>. QED BY <1>2, <2>2
  <1>4. CASE DOMAIN c # {} /\ DOMAIN r # {}
    <2>1. DOMAIN c = 0 .. LastAt(c)[0] /\ DOMAIN r = 0 .. LastAt(r)[0]
      BY <1>4, CeremonyVec
    <2>2. DOMAIN c = DOMAIN r /\ \A i \in 0 .. LastAt(c)[0] : NodeAt(c)[0][i] = NodeAt(r)[0][i]
      BY <1>4, <2>1, SameNodes
    <2>3. ASSUME NEW i \in DOMAIN c PROVE c[i] = r[i]
      <3>1. /\ c[i] \in Subkeys /\ NodeAt(c)[0][i] = SubkeyLeaf(c[i])
            /\ r[i] \in Subkeys /\ NodeAt(r)[0][i] = SubkeyLeaf(r[i])
        BY <1>4, <2>1, <2>2, Bottom
      <3>. QED BY <2>1, <2>2, <3>1, LeafInjective
    <2>. QED BY <1>2, <2>2, <2>3
  <1>. QED BY <1>3, <1>4

-----------------------------------------------------------------------------
(* merkle_root computes RefRoot.                                           *)

\* The levels merkle_root went through are the heights of that tree, and it
\* stops at the height of the root.
LEMMA LevelsAreHeights ==
  ASSUME TreeInv, DOMAIN records # {}, pc # "root"
  PROVE  depth = Height(records) /\ levels[depth][0] = NodeAt(records)[depth][0]
  <1>. DEFINE L == LastAt(records)
              N == NodeAt(records)
              Level(d) == /\ DOMAIN levels[d] = 0 .. L[d]
                          /\ \A i \in 0 .. L[d] : levels[d][i] = N[d][i]
              T == {d \in Nat : d <= depth => Level(d)}
  <1>1. records \in Ceremonies /\ depth \in Nat
    BY DEF TreeInv
  <1>2. \A d \in Nat : L[d] \in Nat /\ L[d + 1] = L[d] \div 2
    BY <1>1, CeremonyVec, LastAtRec
  <1>3. Level(0)
    <2>1. levels[0] = Leaves /\ DOMAIN records = 0 .. L[0]
      BY <1>1, CeremonyVec DEF TreeInv
    <2>2. \A i \in 0 .. L[0] : N[0][i] = SubkeyLeaf(records[i])
      BY <1>1, Bottom
    <2>. HIDE DEF L, N
    <2>. QED BY <2>1, <2>2 DEF Leaves
  <1>4. ASSUME NEW d \in Nat, d + 1 <= depth, Level(d) PROVE Level(d + 1)
    <2>1. d \in 0 .. depth - 1
      BY <1>1, <1>4
    <2>2. levels[d + 1] = PairUp(levels[d])
      BY <2>1 DEF TreeInv
    <2>3. \A i \in 0 .. L[d + 1] :
            /\ 2 * i \in 0 .. L[d]
            /\ N[d + 1][i] = HashNode(N[d][2 * i], N[d][IF 2 * i < L[d] THEN 2 * i + 1 ELSE L[d]])
      BY <1>1, Children
    <2>. HIDE DEF L, N
    <2>4. DOMAIN levels[d + 1] = {i \div 2 : i \in 0 .. L[d]}
      BY <1>4, <2>2 DEF PairUp
    <2>5. {i \div 2 : i \in 0 .. L[d]} = 0 .. L[d + 1]
      <3>1. L[d] \in Nat /\ L[d + 1] = L[d] \div 2
        BY <1>2
      <3>2. ASSUME NEW i \in 0 .. L[d] PROVE i \div 2 \in 0 .. L[d + 1]
        BY <3>1
      <3>3. ASSUME NEW j \in 0 .. L[d + 1] PROVE 2 * j \in 0 .. L[d] /\ j = (2 * j) \div 2
        BY <3>1
      <3>. QED BY <3>2, <3>3
    <2>6. ASSUME NEW i \in 0 .. L[d + 1] PROVE levels[d + 1][i] = N[d + 1][i]
      <3>1. i \in Nat /\ L[d] \in Nat /\ 2 * i \in 0 .. L[d]
        BY <1>2, <2>3
      <3>2. levels[d + 1][i] =
              HashNode(levels[d][2 * i],
                       IF 2 * i + 1 \in 0 .. L[d] THEN levels[d][2 * i + 1] ELSE levels[d][2 * i])
        BY <1>4, <2>2, <2>4, <2>5 DEF PairUp
      <3>3. CASE 2 * i < L[d]
        <4>1. 2 * i + 1 \in 0 .. L[d]
          BY <3>1, <3>3
        <4>2. levels[d][2 * i] = N[d][2 * i] /\ levels[d][2 * i + 1] = N[d][2 * i + 1]
          BY <1>4, <3>1, <4>1
        <4>. QED BY <2>3, <3>2, <3>3, <4>1, <4>2
      <3>4. CASE ~ (2 * i < L[d])
        <4>1. 2 * i + 1 \notin 0 .. L[d] /\ L[d] = 2 * i
          BY <3>1, <3>4
        <4>2. levels[d][2 * i] = N[d][2 * i]
          BY <1>4, <3>1
        <4>. QED BY <2>3, <3>2, <3>4, <4>1, <4>2
      <3>. QED BY <3>3, <3>4
    <2>. QED BY <2>4, <2>5, <2>6
  <1>. HIDE DEF Level
  <1>5. Nat \subseteq T
    <2>1. 0 \in T
      BY <1>3
    <2>2. ASSUME NEW d \in Nat, d \in T PROVE d + 1 \in T
      BY <1>1, <1>4, <2>2
    <2>. HIDE DEF T
    <2>. QED BY <2>1, <2>2, SetInduction
  <1>6. \A d \in 0 .. depth : Level(d)
    BY <1>1, <1>5
  <1>7. L[depth] = 0 /\ levels[depth][0] = N[depth][0]
    <2>1. 1 \notin DOMAIN levels[depth] /\ depth \in 0 .. depth
      BY <1>1 DEF TreeInv
    <2>2. DOMAIN levels[depth] = 0 .. L[depth] /\ L[depth] \in Nat
      BY <1>1, <1>2, <1>6, <2>1 DEF Level
    <2>3. L[depth] = 0
      BY <2>1, <2>2
    <2>4. 0 \in 0 .. L[depth]
      BY <2>2
    <2>. HIDE DEF L, N
    <2>. QED BY <1>6, <2>1, <2>3, <2>4 DEF Level
  <1>8. \A d \in 0 .. depth - 1 : L[d] # 0
    <2>. SUFFICES ASSUME NEW d \in 0 .. depth - 1 PROVE L[d] # 0
      OBVIOUS
    <2>1. 1 \in DOMAIN levels[d] /\ d \in 0 .. depth /\ d \in Nat
      BY <1>1 DEF TreeInv
    <2>2. 1 \in 0 .. L[d] /\ L[d] \in Nat
      BY <1>2, <1>6, <2>1 DEF Level
    <2>. HIDE DEF L
    <2>. QED BY <2>2
  <1>9. /\ Height(records) \in Nat /\ L[Height(records)] = 0
        /\ \A d \in Nat : d < Height(records) => L[d] # 0
    BY <1>1, HeightExists, BelowHeight
  <1>. HIDE DEF L, N
  <1>10. depth = Height(records)
    <2>1. ~ (depth < Height(records))
      BY <1>1, <1>7, <1>9
    <2>2. ~ (Height(records) < depth)
      <3>. SUFFICES ASSUME Height(records) < depth PROVE FALSE
        OBVIOUS
      <3>1. Height(records) \in 0 .. depth - 1
        BY <1>1, <1>9
      <3>. QED BY <1>8, <1>9, <3>1
    <2>. QED BY <1>1, <1>9, <2>1, <2>2
  <1>. QED BY <1>7, <1>10 DEF N

\* The published root is the reference root of the ceremony (lib.rs:42-59).
LEMMA RootIsRefRoot == ASSUME TreeInv, pc # "root" PROVE Root = RefRoot(records)
  <1>1. CASE DOMAIN records = {}
    BY <1>1 DEF Root, RefRoot
  <1>2. CASE DOMAIN records # {}
    <2>1. records \in Ceremonies /\ 0 \in DOMAIN records
      BY <1>2, CeremonyVec DEF TreeInv
    <2>. QED BY <1>2, <2>1, LevelsAreHeights DEF Root, RefRoot
  <1>. QED BY <1>1, <1>2

\* The root the enclave publishes commits to its list of subkeys: it is the root
\* of the tree described by its shape, and no other list, of whatever length, has
\* that root (lib.rs:42-59).
THEOREM Commitment == Spec => []RootCommits
  <1>1. IInv => RootCommits
    <2>. SUFFICES ASSUME IInv, pc = "ready", NEW c \in Ceremonies
                  PROVE  RefRoot(c) = Root <=> c = records
      BY DEF RootCommits
    <2>1. Root = RefRoot(records) /\ records \in Ceremonies
      BY RootIsRefRoot DEF IInv, TreeInv
    <2>. QED BY <2>1, RootIsInjective
  <1>. QED BY <1>1, Invariant, PTL
=============================================================================
