\* Every committed subkey of trees of 0 to 17 leaves, asked of the oracle, and
\* claims and sibling paths from a file.
SPECIFICATION Spec
CONSTANTS
  PublicKeys <- Keys
  Purposes <- Tags
  Ceremonies <- AllCeremonies
  Claims <- FileClaims
  Foreign <- FileForeign
  MaxPath <- PathBound
INVARIANTS
  TypeOK
  ServedProofVerifies
  LoopsAgree
  RootCommits
  OnlyCommittedVerify
\* A verification ends: the last state has no successor.
CHECK_DEADLOCK FALSE
