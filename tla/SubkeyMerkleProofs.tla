------------------------- MODULE SubkeyMerkleProofs -------------------------
(***************************************************************************)
(* SubkeyMerkle is correct for every ceremony, every claim and every path: *)
(* the type invariant, completeness of the served proofs and soundness of  *)
(* a verified membership.                                                  *)
(***************************************************************************)
EXTENDS SubkeyMerkle, FiniteSetTheorems, TLAPS

\* A Vec: its indices are natural numbers without a gap.
IsVec(lv) == DOMAIN lv \subseteq Nat /\ \A i \in DOMAIN lv : 0 .. i \subseteq DOMAIN lv

Committed == claim.index \in DOMAIN records /\ records[claim.index] = claim

\* merkle_root's levels: each is the pairing of the one below, and the loop
\* stops exactly at the first level of at most one digest.
TreeInv ==
  /\ records \in Ceremonies /\ depth \in Nat
  /\ levels[0] = Leaves
  /\ \A d \in 0 .. depth - 1 : 1 \in DOMAIN levels[d] /\ levels[d + 1] = PairUp(levels[d])
  /\ \A d \in 0 .. depth : IsVec(levels[d]) /\ DOMAIN levels[d] \subseteq DOMAIN records
  /\ pc # "root" => 1 \notin DOMAIN levels[depth]

\* merkle_proof's locals: `trail` climbs the levels merkle_root went through and
\* `proof` holds the sibling met on each of them.
PathInv ==
  pc = "proof" \/ (pc \in {"member", "decided"} /\ served) =>
    /\ steps <= depth /\ trail[0] \in DOMAIN records
    /\ \A k \in 0 .. steps : trail[k] \in DOMAIN levels[k]
    /\ \A k \in 0 .. steps - 1 :
         trail[k + 1] = trail[k] \div 2 /\ proof[k] = Sibling(levels[k], trail[k])

\* A served fold retraces the trail; it can stop only at the root.
ServedInv ==
  /\ pc = "proof" => level = levels[steps]
  /\ pc \in {"member", "decided"} /\ served =>
       /\ steps = depth /\ folds <= steps
       /\ idx = trail[folds] /\ acc = levels[folds][trail[folds]]
  /\ pc = "decided" /\ served => folds = steps

\* A fold that meets a digest of the tree started at a committed leaf.
FoldInv ==
  /\ pc \in {"member", "decided"} =>
       /\ claim \in Subkeys /\ acc # ZeroRoot
       /\ \A d \in 0 .. depth : \A i \in DOMAIN levels[d] : acc = levels[d][i] => Committed
  /\ pc = "decided" => member = (acc = Root)

Counters ==
  /\ pc \in {"root", "ready", "proof", "member", "decided"}
  /\ steps \in Nat /\ folds \in Nat /\ idx \in Nat
  /\ served \in BOOLEAN /\ member \in BOOLEAN

IInv == TreeInv /\ Counters /\ PathInv /\ ServedInv /\ FoldInv

-----------------------------------------------------------------------------
(* Facts about the digests.                                                *)

\* A leaf, an inner node and the zero root never have the same digest (the
\* 0x00 / 0x01 prefixes), and a leaf has one preimage.
LEMMA DigestsDiffer ==
  ASSUME NEW s, NEW a, NEW b
  PROVE  /\ SubkeyLeaf(s) # HashNode(a, b)
         /\ SubkeyLeaf(s) # ZeroRoot /\ HashNode(a, b) # ZeroRoot
  BY DEF SubkeyLeaf, HashNode, ZeroRoot

LEMMA LeafInjective ==
  ASSUME NEW s \in Subkeys, NEW t \in Subkeys, SubkeyLeaf(s) = SubkeyLeaf(t)
  PROVE  s = t
  BY DEF SubkeyLeaf, Subkeys

LEMMA NodeInjective ==
  ASSUME NEW a, NEW b, NEW c, NEW d, HashNode(a, b) = HashNode(c, d)
  PROVE  a = c /\ b = d
  BY DEF HashNode

\* What a fold makes is an inner node with `a` as one of its children.
LEMMA FoldIsNode ==
  ASSUME NEW a, NEW i \in Nat, NEW s
  PROVE  Fold(a, i, s) = HashNode(a, s) \/ Fold(a, i, s) = HashNode(s, a)
  BY DEF Fold

\* One pass of either loop maps a Vec to a shorter-or-equal Vec.
LEMMA PairUpIsVec ==
  ASSUME NEW lv, IsVec(lv)
  PROVE  IsVec(PairUp(lv)) /\ DOMAIN PairUp(lv) \subseteq DOMAIN lv
  <1>1. DOMAIN PairUp(lv) = {i \div 2 : i \in DOMAIN lv}
    BY DEF PairUp
  <1>2. DOMAIN PairUp(lv) \subseteq Nat /\ DOMAIN PairUp(lv) \subseteq DOMAIN lv
    BY <1>1 DEF IsVec
  <1>3. ASSUME NEW j \in DOMAIN PairUp(lv), NEW k \in 0 .. j
        PROVE  k \in DOMAIN PairUp(lv)
    <2>1. PICK i \in DOMAIN lv : j = i \div 2
      BY <1>1
    <2>2. i \in Nat /\ 2 * k \in 0 .. i /\ (2 * k) \div 2 = k
      BY <2>1, <1>2 DEF IsVec
    <2>. QED BY <1>1, <2>2 DEF IsVec
  <1>. QED BY <1>2, <1>3 DEF IsVec

\* Folding a digest of a level with its sibling gives the digest above it: the
\* parity of the index, the odd last digest and the halving fit together.
LEMMA FoldClimbs ==
  ASSUME NEW lv, IsVec(lv), NEW i \in DOMAIN lv
  PROVE  /\ i \div 2 \in DOMAIN PairUp(lv)
         /\ Fold(lv[i], i, Sibling(lv, i)) = PairUp(lv)[i \div 2]
  <1>1. i \in Nat /\ i \div 2 \in {k \div 2 : k \in DOMAIN lv}
    BY DEF IsVec
  <1>2. PairUp(lv)[i \div 2] =
          HashNode(lv[2 * (i \div 2)],
                   IF 2 * (i \div 2) + 1 \in DOMAIN lv THEN lv[2 * (i \div 2) + 1]
                                                      ELSE lv[2 * (i \div 2)])
    BY <1>1 DEF PairUp
  <1>3. CASE i % 2 = 0
    <2>1. 2 * (i \div 2) = i
      BY <1>1, <1>3
    <2>. QED BY <1>1, <1>2, <1>3, <2>1 DEF Fold, Sibling, PairUp
  <1>4. CASE i % 2 # 0
    <2>1. 2 * (i \div 2) + 1 = i /\ 2 * (i \div 2) = i - 1
      BY <1>1, <1>4
    <2>. QED BY <1>1, <1>2, <1>4, <2>1 DEF Fold, Sibling, PairUp
  <1>. QED BY <1>3, <1>4

\* Whatever the sibling was, a fold that gives a digest of the level above
\* started from a digest of this level.
LEMMA FoldDescends ==
  ASSUME NEW lv, IsVec(lv), NEW j \in DOMAIN PairUp(lv), NEW a, NEW i \in Nat, NEW s,
         Fold(a, i, s) = PairUp(lv)[j]
  PROVE  \E x \in DOMAIN lv : a = lv[x]
  <1>1. PICK k \in DOMAIN lv : j = k \div 2
    BY DEF PairUp
  <1>2. k \in Nat /\ 2 * j \in 0 .. k
    BY <1>1 DEF IsVec
  <1>3. 2 * j \in DOMAIN lv
    BY <1>2 DEF IsVec
  <1>4. \E x \in DOMAIN lv : PairUp(lv)[j] = HashNode(lv[2 * j], lv[x])
    BY <1>1, <1>3 DEF PairUp
  <1>. QED BY <1>3, <1>4, FoldIsNode, NodeInjective

-----------------------------------------------------------------------------
(* The invariant is inductive.                                             *)

LEMMA RecordsAreVecs ==
  ASSUME NEW c \in Ceremonies
  PROVE  /\ IsVec(c) /\ \A i \in DOMAIN c : c[i] \in Subkeys /\ c[i].index = i
         /\ IsVec([i \in DOMAIN c |-> SubkeyLeaf(c[i])])
  <1>1. Cardinality(DOMAIN c) \in Nat /\ DOMAIN c = 0 .. Cardinality(DOMAIN c) - 1
    BY CeremoniesAssumption, FS_CardinalityType
  <1>. QED BY <1>1, CeremoniesAssumption DEF IsVec

LEMMA InitIInv == Init => IInv
  <1>. SUFFICES ASSUME Init PROVE IInv
    OBVIOUS
  <1>1. TreeInv
    BY RecordsAreVecs DEF Init, TreeInv, Leaves, IsVec
  <1>. QED BY <1>1 DEF Init, IInv, Counters, PathInv, ServedInv, FoldInv

\* The steps of merkle_root.
LEMMA BuildLevelIInv == IInv /\ BuildLevel => IInv'
  <1>. SUFFICES ASSUME IInv, BuildLevel PROVE IInv'
    OBVIOUS
  <1>. USE DEF IInv, BuildLevel
  <1>1. /\ depth \in Nat /\ depth' = depth + 1 /\ pc' = "root" /\ records' = records
        /\ levels'[depth + 1] = PairUp(levels[depth])
        /\ \A d \in 0 .. depth : levels'[d] = levels[d]
    BY DEF TreeInv, Push
  <1>2. TreeInv'
    <2>1. IsVec(levels[depth]) /\ DOMAIN levels[depth] \subseteq DOMAIN records
      BY DEF TreeInv
    <2>2. IsVec(PairUp(levels[depth])) /\ DOMAIN PairUp(levels[depth]) \subseteq DOMAIN records
      BY <2>1, PairUpIsVec
    <2>3. \A d \in 0 .. depth' : IsVec(levels'[d]) /\ DOMAIN levels'[d] \subseteq DOMAIN records
      BY <1>1, <2>2 DEF TreeInv
    <2>4. \A d \in 0 .. depth' - 1 : 1 \in DOMAIN levels'[d] /\ levels'[d + 1] = PairUp(levels'[d])
      BY <1>1 DEF TreeInv
    <2>5. levels'[0] = Leaves'
      BY <1>1 DEF TreeInv, Leaves
    <2>. QED BY <1>1, <2>3, <2>4, <2>5 DEF TreeInv
  <1>. QED BY <1>1, <1>2 DEF Counters, PathInv, ServedInv, FoldInv, memberVars, proofVars

LEMMA PublishRootIInv == IInv /\ PublishRoot => IInv'
  BY DEF IInv, PublishRoot, rootVars, proofVars, memberVars,
         TreeInv, Counters, PathInv, ServedInv, FoldInv, Leaves

\* The steps of merkle_proof.
LEMMA StartProofIInv == ASSUME IInv, NEW i \in DOMAIN records, StartProof(i) PROVE IInv'
  <1>. USE DEF StartProof, rootVars, memberVars
  <1>1. TreeInv' /\ Counters'
    BY DEF IInv, TreeInv, Counters, Leaves
  <1>2. DOMAIN Leaves = DOMAIN records /\ levels[0] = Leaves /\ depth \in Nat
    BY DEF IInv, TreeInv, Leaves
  <1>3. PathInv' /\ ServedInv'
    BY <1>2 DEF PathInv, ServedInv
  <1>. QED BY <1>1, <1>3 DEF IInv, FoldInv

LEMMA PushSiblingIInv == IInv /\ PushSibling => IInv'
  <1>. SUFFICES ASSUME IInv, PushSibling PROVE IInv'
    OBVIOUS
  <1>. USE DEF PushSibling, rootVars, memberVars
  <1>1. TreeInv' /\ Counters' /\ FoldInv'
    BY DEF IInv, TreeInv, Counters, FoldInv, Leaves
  <1>2. /\ steps \in Nat /\ steps <= depth /\ depth \in Nat /\ level = levels[steps]
        /\ 1 \in DOMAIN levels[steps] /\ 1 \notin DOMAIN levels[depth]
        /\ trail[steps] \in DOMAIN levels[steps]
    BY DEF IInv, TreeInv, Counters, PathInv, ServedInv
  <1>3. steps + 1 <= depth /\ IsVec(levels[steps]) /\ levels[steps + 1] = PairUp(levels[steps])
    <2>1. steps \in 0 .. depth - 1 /\ steps \in 0 .. depth
      BY <1>2
    <2>. QED BY <1>2, <2>1 DEF IInv, TreeInv
  <1>4. level' = levels[steps + 1]
    BY <1>2, <1>3 DEF NextLevel, PairUp
  <1>5. trail[steps] \div 2 \in DOMAIN levels[steps + 1]
    BY <1>2, <1>3, FoldClimbs
  <1>6. /\ \A k \in 0 .. steps : trail'[k] = trail[k]
        /\ trail'[steps + 1] = trail[steps] \div 2
        /\ \A k \in 0 .. steps - 1 : proof'[k] = proof[k]
        /\ proof'[steps] = Sibling(levels[steps], trail[steps])
    BY <1>2 DEF Push
  <1>7. PathInv'
    <2>1. steps' = steps + 1 /\ steps' <= depth /\ trail'[0] \in DOMAIN records
      BY <1>2, <1>3, <1>6 DEF IInv, PathInv
    <2>2. \A k \in 0 .. steps' : trail'[k] \in DOMAIN levels[k]
      BY <1>2, <1>5, <1>6, <2>1 DEF IInv, PathInv
    <2>3. \A k \in 0 .. steps' - 1 :
            trail'[k + 1] = trail'[k] \div 2 /\ proof'[k] = Sibling(levels[k], trail'[k])
      BY <1>2, <1>6, <2>1 DEF IInv, PathInv
    <2>. QED BY <2>1, <2>2, <2>3 DEF PathInv
  <1>8. ServedInv'
    BY <1>4 DEF ServedInv
  <1>. QED BY <1>1, <1>7, <1>8 DEF IInv

\* Verification starts at the leaf of the claim; only the ceremony's own leaf
\* has that digest, and no inner node has it.
LEMMA EnterFoldInv ==
  ASSUME IInv, NEW c \in Subkeys, NEW b \in BOOLEAN, Enter(c, b), pc # "root"
  PROVE  FoldInv' /\ Counters' /\ TreeInv'
  <1>. USE DEF Enter, rootVars, proofVars
  <1>1. TreeInv' /\ Counters'
    BY DEF IInv, TreeInv, Counters, Leaves, Subkeys
  <1>2. ASSUME NEW d \in 0 .. depth, NEW i \in DOMAIN levels[d], SubkeyLeaf(c) = levels[d][i]
        PROVE  i \in DOMAIN records /\ records[i] = c
    <2>1. d = 0
      <3>1. SUFFICES ASSUME d # 0 PROVE FALSE
        OBVIOUS
      <3>2. d \in Nat /\ d - 1 \in 0 .. depth - 1 /\ (d - 1) + 1 = d /\ depth \in Nat
        BY <3>1 DEF IInv, TreeInv
      <3>3. levels[d] = PairUp(levels[d - 1])
        BY <3>2 DEF IInv, TreeInv
      <3>4. \E x, y : levels[d][i] = HashNode(x, y)
        BY <3>3 DEF PairUp
      <3>. QED BY <1>2, <3>4, DigestsDiffer
    <2>2. i \in DOMAIN records /\ levels[0][i] = SubkeyLeaf(records[i])
      BY <2>1 DEF IInv, TreeInv, Leaves
    <2>3. records[i] \in Subkeys
      BY <2>2, RecordsAreVecs DEF IInv, TreeInv
    <2>. QED BY <1>2, <2>1, <2>2, <2>3, LeafInjective
  <1>3. \A d \in 0 .. depth : \A i \in DOMAIN levels[d] : acc' = levels[d][i] => Committed'
    <2>. SUFFICES ASSUME NEW d \in 0 .. depth, NEW i \in DOMAIN levels[d], acc' = levels[d][i]
                  PROVE  Committed'
      OBVIOUS
    <2>1. i \in DOMAIN records /\ records[i] = c
      BY <1>2
    <2>2. c.index = i
      BY <2>1, RecordsAreVecs DEF IInv, TreeInv
    <2>. QED BY <2>1, <2>2 DEF Committed
  <1>. QED BY <1>1, <1>3, DigestsDiffer DEF FoldInv

LEMMA ServeProofIInv == IInv /\ ServeProof => IInv'
  <1>. SUFFICES ASSUME IInv, ServeProof PROVE IInv'
    OBVIOUS
  <1>1. /\ steps \in Nat /\ steps <= depth /\ depth \in Nat /\ level = levels[steps]
        /\ 1 \notin DOMAIN level /\ trail[0] \in DOMAIN records /\ levels[0] = Leaves
        /\ records \in Ceremonies
    BY DEF IInv, TreeInv, Counters, PathInv, ServedInv, ServeProof
  <1>2. steps = depth
    <2>1. steps \notin 0 .. depth - 1
      BY <1>1 DEF IInv, TreeInv
    <2>. QED BY <1>1, <2>1
  <1>3. records[trail[0]] \in Subkeys /\ records[trail[0]].index = trail[0]
    BY <1>1, RecordsAreVecs
  <1>4. FoldInv' /\ Counters' /\ TreeInv'
    BY <1>3, EnterFoldInv DEF ServeProof
  <1>5. PathInv'
    BY DEF IInv, PathInv, ServeProof, Enter, rootVars, proofVars
  <1>6. ServedInv'
    BY <1>1, <1>2, <1>3 DEF ServedInv, ServeProof, Enter, rootVars, proofVars, Leaves
  <1>. QED BY <1>4, <1>5, <1>6 DEF IInv

LEMMA OpenFileIInv == ASSUME IInv, NEW c \in Claims, OpenFile(c) PROVE IInv'
  <1>1. c \in Subkeys
    BY ClaimsAssumption
  <1>2. FoldInv' /\ Counters' /\ TreeInv'
    BY <1>1, EnterFoldInv DEF OpenFile
  <1>3. PathInv' /\ ServedInv'
    BY DEF IInv, PathInv, ServedInv, OpenFile, Enter, rootVars, proofVars
  <1>. QED BY <1>2, <1>3 DEF IInv

\* The loop of verify_membership, for any sibling.
LEMMA FoldKeepsFoldInv ==
  ASSUME IInv, NEW s, FoldSibling(s), pc = "member"
  PROVE  FoldInv' /\ Counters' /\ TreeInv'
  <1>. USE DEF FoldSibling, rootVars, proofVars
  <1>1. TreeInv' /\ Counters'
    BY DEF IInv, TreeInv, Counters, Leaves
  <1>2. idx \in Nat /\ acc' = Fold(acc, idx, s)
    BY DEF IInv, Counters
  <1>3. (\E x, y : acc' = HashNode(x, y)) /\ acc' # ZeroRoot
    BY <1>2, FoldIsNode, DigestsDiffer
  <1>4. ASSUME NEW d \in 0 .. depth, NEW i \in DOMAIN levels[d], acc' = levels[d][i]
        PROVE  Committed
    <2>1. d # 0
      <3>1. \A j \in DOMAIN levels[0] : levels[0][j] = SubkeyLeaf(records[j])
        BY DEF IInv, TreeInv, Leaves
      <3>. QED BY <1>3, <1>4, <3>1, DigestsDiffer
    <2>2. d \in Nat /\ d - 1 \in 0 .. depth - 1 /\ d - 1 \in 0 .. depth /\ (d - 1) + 1 = d
      BY <2>1 DEF IInv, TreeInv
    <2>3. levels[d] = PairUp(levels[d - 1]) /\ IsVec(levels[d - 1])
      BY <2>2 DEF IInv, TreeInv
    <2>4. \E x \in DOMAIN levels[d - 1] : acc = levels[d - 1][x]
      <3>1. i \in DOMAIN PairUp(levels[d - 1]) /\ Fold(acc, idx, s) = PairUp(levels[d - 1])[i]
        BY <1>2, <1>4, <2>3
      <3>. HIDE DEF FoldSibling
      <3>. QED BY <1>2, <2>3, <3>1, FoldDescends
    <2>. QED BY <2>2, <2>4 DEF IInv, FoldInv
  <1>5. FoldInv'
    BY <1>3, <1>4 DEF IInv, FoldInv, Committed
  <1>. QED BY <1>1, <1>5

LEMMA FoldServedIInv == IInv /\ FoldServed => IInv'
  <1>. SUFFICES ASSUME IInv, FoldServed PROVE IInv'
    OBVIOUS
  <1>. USE DEF FoldServed, FoldSibling, rootVars, proofVars
  <1>1. FoldInv' /\ Counters' /\ TreeInv'
    BY FoldKeepsFoldInv
  <1>2. PathInv'
    BY DEF IInv, PathInv
  <1>3. /\ folds \in 0 .. steps - 1 /\ folds \in 0 .. depth - 1 /\ folds \in 0 .. depth
        /\ folds \in 0 .. steps /\ folds + 1 <= steps
    BY DEF IInv, Counters, TreeInv, ServedInv
  <1>4. /\ idx = trail[folds] /\ acc = levels[folds][trail[folds]] /\ steps = depth
        /\ trail[folds + 1] = trail[folds] \div 2
        /\ proof[folds] = Sibling(levels[folds], trail[folds])
        /\ trail[folds] \in DOMAIN levels[folds]
        /\ levels[folds + 1] = PairUp(levels[folds]) /\ IsVec(levels[folds])
    BY <1>3 DEF IInv, TreeInv, PathInv, ServedInv
  <1>5. acc' = levels[folds + 1][trail[folds + 1]] /\ idx' = trail[folds + 1]
    BY <1>4, FoldClimbs
  <1>6. ServedInv'
    BY <1>3, <1>4, <1>5 DEF ServedInv
  <1>. QED BY <1>1, <1>2, <1>6 DEF IInv

LEMMA FoldFileIInv == IInv /\ FoldFile => IInv'
  <1>. SUFFICES ASSUME IInv, FoldFile PROVE IInv'
    OBVIOUS
  <1>1. PICK s : FoldSibling(s)
    BY DEF FoldFile
  <1>2. FoldInv' /\ Counters' /\ TreeInv'
    BY <1>1, FoldKeepsFoldInv DEF FoldFile
  <1>3. PathInv' /\ ServedInv'
    BY <1>1 DEF IInv, PathInv, ServedInv, FoldFile, FoldSibling, rootVars, proofVars
  <1>. QED BY <1>2, <1>3 DEF IInv

LEMMA DecideIInv == IInv /\ Decide => IInv'
  <1>. SUFFICES ASSUME IInv, Decide PROVE IInv'
    OBVIOUS
  <1>. USE DEF Decide, rootVars, proofVars
  <1>1. TreeInv' /\ Counters'
    BY DEF IInv, TreeInv, Counters, Leaves
  <1>2. PathInv' /\ ServedInv'
    BY DEF IInv, PathInv, ServedInv
  <1>3. FoldInv'
    BY DEF IInv, FoldInv, Committed, Root
  <1>. QED BY <1>1, <1>2, <1>3 DEF IInv

LEMMA NextIInv == IInv /\ [Next]_vars => IInv'
  <1>1. IInv /\ Next => IInv'
    BY BuildLevelIInv, PublishRootIInv, StartProofIInv, PushSiblingIInv, ServeProofIInv,
       OpenFileIInv, FoldServedIInv, FoldFileIInv, DecideIInv DEF Next
  <1>2. IInv /\ UNCHANGED vars => IInv'
    BY DEF vars, rootVars, proofVars, memberVars, IInv, TreeInv, Counters, PathInv, ServedInv,
           FoldInv, Committed, Leaves, Root
  <1>. QED BY <1>1, <1>2

LEMMA Invariant == Spec => []IInv
  BY InitIInv, NextIInv, PTL DEF Spec

-----------------------------------------------------------------------------
(* The theorems.                                                           *)

\* The state keeps its shape; every level is no longer than the list of leaves.
THEOREM TypeCorrect == Spec => []TypeOK
  <1>1. IInv => TypeOK
    BY DEF IInv, TreeInv, Counters, FoldInv, TypeOK
  <1>. QED BY <1>1, Invariant, PTL

\* The two copies of the pairing loop never disagree on a level.
THEOREM LoopsAlwaysAgree == Spec => []LoopsAgree
  <1>1. IInv => LoopsAgree
    BY DEF IInv, PathInv, ServedInv, LoopsAgree
  <1>. QED BY <1>1, Invariant, PTL

\* Completeness: every proof the oracle serves verifies against the root, for
\* any number of committed subkeys.
THEOREM Completeness == Spec => []ServedProofVerifies
  <1>1. ASSUME IInv, pc = "decided", served PROVE member
    <2>1. /\ acc = levels[depth][trail[depth]] /\ trail[depth] \in DOMAIN levels[depth]
          /\ 1 \notin DOMAIN levels[depth] /\ IsVec(levels[depth]) /\ trail[0] \in DOMAIN records
          /\ records \in Ceremonies
      BY <1>1 DEF IInv, TreeInv, Counters, PathInv, ServedInv
    <2>2. trail[depth] = 0 /\ 0 \in DOMAIN records
      BY <2>1, RecordsAreVecs DEF IsVec
    <2>. QED BY <1>1, <2>1, <2>2 DEF IInv, FoldInv, Root
  <1>2. IInv => ServedProofVerifies
    BY <1>1 DEF ServedProofVerifies
  <1>. QED BY <1>2, Invariant, PTL

\* Soundness: whatever claim and whatever path, of any length, a membership
\* that verifies is that of a subkey the ceremony committed.
THEOREM Soundness == Spec => []OnlyCommittedVerify
  <1>1. ASSUME IInv, pc = "decided", member PROVE Committed
    <2>1. acc = Root /\ acc # ZeroRoot /\ records \in Ceremonies /\ depth \in Nat
      BY <1>1 DEF IInv, FoldInv, TreeInv
    <2>2. 0 \in DOMAIN records /\ acc = levels[depth][0]
      BY <2>1 DEF Root
    <2>3. 0 \in DOMAIN levels[depth]
      <3>1. CASE depth = 0
        BY <2>2, <3>1, <1>1 DEF IInv, TreeInv, Leaves
      <3>2. CASE depth # 0
        <4>1. /\ depth - 1 \in 0 .. depth - 1 /\ depth - 1 \in 0 .. depth
              /\ (depth - 1) + 1 = depth
          BY <2>1, <3>2
        <4>2. /\ levels[depth] = PairUp(levels[depth - 1]) /\ 1 \in DOMAIN levels[depth - 1]
              /\ IsVec(levels[depth - 1])
          BY <1>1, <4>1 DEF IInv, TreeInv
        <4>3. 0 \in DOMAIN levels[depth - 1] /\ 0 \div 2 = 0
          BY <4>2 DEF IsVec
        <4>. QED BY <4>2, <4>3, FoldClimbs
      <3>. QED BY <3>1, <3>2
    <2>4. depth \in 0 .. depth
      BY <2>1
    <2>. QED BY <1>1, <2>2, <2>3, <2>4 DEF IInv, FoldInv
  <1>2. IInv => OnlyCommittedVerify
    BY <1>1 DEF OnlyCommittedVerify, Committed
  <1>. QED BY <1>2, Invariant, PTL
=============================================================================
