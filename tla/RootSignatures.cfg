\* Two roots that may each sign ceremonies and certificates.
SPECIFICATION Spec
CONSTANTS
  RootKeys <- TwoRoots
  SubkeyKeys <- TwoSubkeys
  Metas <- SomeMetas
  TreeRoots <- TwoTrees
  Counts <- OneOrTwo
  SIGNING_DOMAIN <- Domain
  CERT_VERSION <- One
  USER_DATA_PREFIX <- Prefix
  OtherVersions <- NewerVersions
  Sha256 <- Digest
  Times <- Instants
  None = None
  MaxSigned = 2
INVARIANTS
  TypeOK
  OnlyIssuedVerify
  IssuedVerifies
  NoGapAtRenewal
  OnlyCeremoniesBind
  OnlyCeremoniesSigned
  DiagnosisRight
\* No key signs any more once MaxSigned messages are signed.
CHECK_DEADLOCK FALSE
