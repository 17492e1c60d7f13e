--------------------------- MODULE MCSubkeyMerkle ---------------------------
(* Small instances of SubkeyMerkle for TLC. *)
EXTENDS SubkeyMerkle

Keys == {"k1", "k2"}
Tags == {1, 2}

\* A ceremony of n subkeys, the first a of them in the Auth lane; `shared` gives
\* all of them one key pair, so that only the index tells their leaves apart.
Ceremony(n, a, shared) ==
  [i \in 0 .. n - 1 |->
     [index |-> i, purpose_tag |-> IF i < a THEN 1 ELSE 2,
      ml_dsa_pk |-> "k1", slh_dsa_pk |-> IF shared \/ i % 2 = 0 THEN "k1" ELSE "k2"]]

\* Every size up to 17 leaves: a full tree, and every pattern of odd levels.
ServedCeremonies ==
  {Ceremony(n, n, FALSE) : n \in 0 .. 17} \cup {Ceremony(n, 1, TRUE) : n \in 1 .. 17}

\* Arbitrary claims and paths against trees of up to 5 leaves; against the larger
\* ones, a claim without a path.
FileCeremonies == {Ceremony(n, a, TRUE) : n \in 0 .. 5, a \in {0, 3}} \cup {Ceremony(5, 2, FALSE)}
AllCeremonies  == ServedCeremonies \cup FileCeremonies
FileClaims     == [index : 0 .. 5, purpose_tag : Tags, ml_dsa_pk : {"k1"}, slh_dsa_pk : Keys]
FileForeign    == {<<3>>}
PathBound      == [c \in AllCeremonies |-> IF c \in FileCeremonies THEN 3 ELSE 0]
=============================================================================
