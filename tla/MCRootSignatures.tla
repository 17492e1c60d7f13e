-------------------------- MODULE MCRootSignatures --------------------------
(* A small instance of RootSignatures for TLC. *)
EXTENDS RootSignatures

\* Two roots, and two subkeys, whose keys are the same bytes cut in two places.
TwoRoots   == {[ml |-> <<1>>, slh |-> <<2, 2>>], [ml |-> <<1, 2>>, slh |-> <<2>>]}
TwoSubkeys == {[ml |-> <<3>>, slh |-> <<4, 4>>], [ml |-> <<3, 4>>, slh |-> <<4>>]}

\* Windows without bounds, with one, that follow each other, that are empty;
\* a serial number of more than two bytes.
Windows == {<<0, 0>>, <<0, 2>>, <<2, 4>>, <<4, 0>>, <<4, 2>>}
SomeMetas ==
  {[serial |-> n, purpose |-> "Auth", not_before |-> w[1], not_after |-> w[2]] :
     n \in {1}, w \in Windows}
  \cup {[serial |-> n, purpose |-> p, not_before |-> 2, not_after |-> 4] :
          n \in {1, 70000}, p \in {"Auth", "Encryption"}}
Instants == 0 .. 5

\* A root, and one that goes on like the count behind the other.
TwoTrees == {<<9>>, <<9, 0, 0, 0, 1>>}
OneOrTwo == {1, 2}

Domain  == <<100>>
One     == <<49>>
Two     == <<50>>
Prefix  == <<7>>
NewerVersions == {Two}

\* 32 bytes that tell apart all that is shorter: the message, padding, its length.
Digest(p) == p \o [i \in 1 .. 31 - Len(p) |-> 0] \o <<Len(p)>>
=============================================================================
