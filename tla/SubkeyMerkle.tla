---------------------------- MODULE SubkeyMerkle ----------------------------
(***************************************************************************)
(* The Merkle commitment of the pre-committed subkeys (crate pq-merkle) as *)
(* the rest of the system uses it.  The enclave folds the leaves into the  *)
(* root that the bundle carries (merkle_root); its oracle serves the       *)
(* sibling path of a leaf (merkle_proof); `pq verify-subkey` folds a       *)
(* claimed subkey and a path back into a root (verify_membership), where   *)
(* the claim and the path come from a JSON file: one the oracle wrote, or  *)
(* any other.                                                              *)
(*                                                                         *)
(* One action is one pass of the corresponding loop.  A digest is its      *)
(* preimage, so SHA-256 is collision free and the length prefixes keep     *)
(* their effect; a level (a Vec in the code) is a function on 0 .. n - 1.  *)
(***************************************************************************)
EXTENDS Integers, FiniteSets

CONSTANTS
  PublicKeys,  \* encoded public keys
  Purposes,    \* purpose tags (1 = Auth, 2 = the reserved lane)
  Ceremonies,  \* the lists of subkeys an enclave may commit
  Claims,      \* the subkeys a JSON file may claim
  Foreign,     \* digests of a path that are none of this tree's
  MaxPath      \* bound, by ceremony: siblings read from a file the oracle did not write

Subkeys == [index : Nat, purpose_tag : Purposes, ml_dsa_pk : PublicKeys, slh_dsa_pk : PublicKeys]

\* run_ceremony numbers the subkeys 0, 1, 2, ... in the order of the leaves.
ASSUME CeremoniesAssumption ==
  \A c \in Ceremonies :
    /\ IsFiniteSet(DOMAIN c) /\ DOMAIN c = 0 .. Cardinality(DOMAIN c) - 1
    /\ c = [i \in DOMAIN c |-> c[i]]
    /\ \A i \in DOMAIN c : c[i] \in Subkeys /\ c[i].index = i
ASSUME ClaimsAssumption == Claims \subseteq Subkeys
ASSUME MaxPathAssumption == MaxPath \in [Ceremonies -> Nat]

VARIABLES
  records,   \* the subkeys of this ceremony, by global_index
  levels,    \* levels[d]: `level` of merkle_root before its pass d
  depth,     \* passes of merkle_root so far
  pc,        \* "root", "ready", "proof", "member" or "decided"
  level,     \* merkle_proof: `level`
  trail,     \* merkle_proof: the values of `idx`, the last one current
  proof,     \* merkle_proof: `proof`
  steps,     \* merkle_proof: Len(proof)
  served,    \* is the verified JSON file the oracle's answer?
  claim,     \* verify_membership: the claimed subkey
  acc,       \* verify_membership: `acc`
  idx,       \* verify_membership: `idx`
  folds,     \* verify_membership: siblings consumed
  member     \* verify_membership: the result

rootVars   == <<records, levels, depth>>
proofVars  == <<level, trail, proof, steps>>
memberVars == <<served, claim, acc, idx, folds, member>>
vars == <<rootVars, pc, proofVars, memberVars>>

\* Mutant: the leaf forgets the index.
LeafWithoutIndex(s) == <<0, s.purpose_tag, s.ml_dsa_pk, s.slh_dsa_pk>>

SubkeyLeaf(s) == <<0, s.index, s.purpose_tag, s.ml_dsa_pk, s.slh_dsa_pk>>
HashNode(left, right) == <<1, left, right>>
ZeroRoot == <<2>>   \* [0u8; 32]: nobody knows a preimage of it

Push(vec, n, x) == [k \in 0 .. n |-> IF k = n THEN x ELSE vec[k]]

\* Mutant: chunks_exact(2), an odd level loses its last digest.
PairUpExact(lv) ==
  [j \in {i \div 2 : i \in {k \in DOMAIN lv : k % 2 = 1}} |-> HashNode(lv[2 * j], lv[2 * j + 1])]

\* level.chunks(2): an odd level pairs its last digest with itself.
PairUp(lv) ==
  [j \in {i \div 2 : i \in DOMAIN lv} |->
     HashNode(lv[2 * j], IF 2 * j + 1 \in DOMAIN lv THEN lv[2 * j + 1] ELSE lv[2 * j])]

\* Mutant: the second loop lifts the last digest of an odd level unhashed.
LiftLast(lv) ==
  [j \in {i \div 2 : i \in DOMAIN lv} |->
     IF 2 * j + 1 \in DOMAIN lv THEN HashNode(lv[2 * j], lv[2 * j + 1]) ELSE lv[2 * j]]

\* merkle_proof repeats the pairing in a loop of its own.
NextLevel(lv) ==
  [j \in {i \div 2 : i \in DOMAIN lv} |->
     HashNode(lv[2 * j], IF 2 * j + 1 \in DOMAIN lv THEN lv[2 * j + 1] ELSE lv[2 * j])]

\* Mutant: a missing right sibling is served as zeroes.
SiblingOrZero(lv, i) ==
  IF i % 2 = 1 THEN lv[i - 1] ELSE IF i + 1 \in DOMAIN lv THEN lv[i + 1] ELSE ZeroRoot

Sibling(lv, i) ==
  IF i % 2 = 0 THEN IF i + 1 \in DOMAIN lv THEN lv[i + 1] ELSE lv[i]
               ELSE lv[i - 1]

\* The digest a fold step makes of `acc` and the next sibling.
Fold(a, i, sibling) == IF i % 2 = 0 THEN HashNode(a, sibling) ELSE HashNode(sibling, a)

Leaves == [i \in DOMAIN records |-> SubkeyLeaf(records[i])]
Root   == IF 0 \in DOMAIN records THEN levels[depth][0] ELSE ZeroRoot

-----------------------------------------------------------------------------
Init ==
  /\ records \in Ceremonies
  /\ levels = [d \in {0} |-> Leaves] /\ depth = 0
  /\ pc = "root"
  /\ level = << >> /\ trail = << >> /\ proof = << >> /\ steps = 0
  /\ served = FALSE /\ claim = << >> /\ acc = << >> /\ idx = 0 /\ folds = 0 /\ member = FALSE

\* merkle_root, one pass of `while level.len() > 1`.
BuildLevel ==
  /\ pc = "root" /\ 1 \in DOMAIN levels[depth]
  /\ levels' = Push(levels, depth + 1, PairUp(levels[depth]))
  /\ depth' = depth + 1
  /\ UNCHANGED <<records, pc, proofVars, memberVars>>

\* merkle_root returns; the enclave serves from now on.
PublishRoot ==
  /\ pc = "root" /\ 1 \notin DOMAIN levels[depth]
  /\ pc' = "ready"
  /\ UNCHANGED <<rootVars, proofVars, memberVars>>

\* CeremonyState::proof calls merkle_proof; an index past the leaves is a 404.
StartProof(i) ==
  /\ pc = "ready" /\ i \in DOMAIN records
  /\ pc' = "proof"
  /\ level' = Leaves /\ trail' = [k \in {0} |-> i] /\ proof' = << >> /\ steps' = 0
  /\ UNCHANGED <<rootVars, memberVars>>

\* merkle_proof, one pass of its loop.
PushSibling ==
  /\ pc = "proof" /\ 1 \in DOMAIN level
  /\ proof' = Push(proof, steps, Sibling(level, trail[steps]))
  /\ level' = NextLevel(level)
  /\ trail' = Push(trail, steps + 1, trail[steps] \div 2)
  /\ steps' = steps + 1
  /\ UNCHANGED <<rootVars, pc, memberVars>>

\* verify_membership starts on claim c.
Enter(c, fromOracle) ==
  /\ pc' = "member"
  /\ served' = fromOracle /\ claim' = c /\ acc' = SubkeyLeaf(c) /\ idx' = c.index
  /\ folds' = 0 /\ UNCHANGED member
  /\ UNCHANGED <<rootVars, proofVars>>

\* The oracle's JSON carries the record and its proof.
ServeProof == pc = "proof" /\ 1 \notin DOMAIN level /\ Enter(records[trail[0]], TRUE)

\* Some other JSON file claims a subkey.
OpenFile(c) == pc = "ready" /\ Enter(c, FALSE)

\* Mutant: the parent of a heap whose root is node 0.
FoldToHeapParent(sibling) ==
  /\ acc' = Fold(acc, idx, sibling)
  /\ idx' = (idx - 1) \div 2
  /\ folds' = folds + 1
  /\ UNCHANGED <<rootVars, pc, proofVars, served, claim, member>>

\* verify_membership, one pass of `for sibling in siblings`.
FoldSibling(sibling) ==
  /\ acc' = Fold(acc, idx, sibling)
  /\ idx' = idx \div 2
  /\ folds' = folds + 1
  /\ UNCHANGED <<rootVars, pc, proofVars, served, claim, member>>

FoldServed == pc = "member" /\ served /\ folds < steps /\ FoldSibling(proof[folds])

FileSiblings == Foreign \cup UNION {{levels[d][i] : i \in DOMAIN levels[d]} : d \in 0 .. depth}
FoldFile ==
  /\ pc = "member" /\ ~served /\ folds < MaxPath[records]
  /\ \E sibling \in FileSiblings : FoldSibling(sibling)

\* `&acc == root`: the served path is exhausted, a file's path may end anywhere.
Decide ==
  /\ pc = "member" /\ (served => folds = steps)
  /\ member' = (acc = Root)
  /\ pc' = "decided"
  /\ UNCHANGED <<rootVars, proofVars, served, claim, acc, idx, folds>>

Next ==
  \/ BuildLevel \/ PublishRoot
  \/ \E i \in DOMAIN records : StartProof(i)
  \/ PushSibling \/ ServeProof
  \/ \E c \in Claims : OpenFile(c)
  \/ FoldServed \/ FoldFile \/ Decide

Spec == Init /\ [][Next]_vars

-----------------------------------------------------------------------------
\* Shape of the state: every level is a Vec, halved on each pass of a loop,
\* and merkle_proof keeps one index and one sibling per level it has left.
TypeOK ==
  /\ records \in Ceremonies
  /\ depth \in Nat /\ steps \in Nat /\ folds \in Nat /\ idx \in Nat
  /\ pc \in {"root", "ready", "proof", "member", "decided"}
  /\ served \in BOOLEAN /\ member \in BOOLEAN
  /\ \A d \in 0 .. depth : DOMAIN levels[d] \subseteq DOMAIN records
  /\ pc \in {"member", "decided"} => claim \in Subkeys

\* The tree by its shape instead of by loops: the last node of each height, and
\* the nodes of each height, where a missing right child is the last node below.
LastAt(c) ==
  LET last[d \in Nat] == IF d = 0 THEN Cardinality(DOMAIN c) - 1 ELSE last[d - 1] \div 2
  IN last
NodeAt(c) ==
  LET last == LastAt(c)
      node[d \in Nat] ==
        [i \in Nat |->
           IF d = 0 THEN SubkeyLeaf(c[i])
           ELSE HashNode(node[d - 1][2 * i],
                         node[d - 1][IF 2 * i < last[d - 1] THEN 2 * i + 1 ELSE last[d - 1]])]
  IN node
Height(c)  == CHOOSE d \in DOMAIN c : LastAt(c)[d] = 0 /\ (d = 0 \/ LastAt(c)[d - 1] # 0)
RefRoot(c) == IF DOMAIN c = {} THEN ZeroRoot ELSE NodeAt(c)[Height(c)][0]

\* The root, once published, commits to the whole list: it is the root of the
\* tree of that shape, and no other ceremony has it, not even one whose extra
\* leaves repeat the digest an odd level repeats (lib.rs:42-59, and the index in
\* the leaf).
RootCommits == pc = "ready" => \A c \in Ceremonies : RefRoot(c) = Root <=> c = records

\* Every subkey the ceremony committed is provable: the path the oracle serves
\* for it, folded by the verifier, ends in the bundle's root - whatever the
\* number of leaves, through every odd level (lib.rs:45-113).
ServedProofVerifies == pc = "decided" /\ served => member

\* A claim that verifies is a committed subkey, at its own index, whatever file
\* and whatever path it came with (doc lib.rs:3-9: membership is provenance).
OnlyCommittedVerify ==
  pc = "decided" /\ member => claim.index \in DOMAIN records /\ records[claim.index] = claim

\* While the oracle builds a path, its own copy of the pairing loop is on the
\* level merkle_root had at that height, so both loops treat odd levels alike.
LoopsAgree == pc = "proof" => steps <= depth /\ level = levels[steps]
=============================================================================
