\* Two boots of any deployment; files of one boot meet files of the other.
SPECIFICATION CeremonySpec
CONSTANTS
  Deployments <- KeyDeployments
  Absent = Absent
  DefaultAuth = 2
  DefaultEnc = 0
  AwsRoot = "aws"
  Validity = 1
  Messages <- SomeMessages
  Tolerance = 0
  MaxBoots = 2
  MaxNow = 2
INVARIANTS
  TypeOK
  FinishedBundleVerifies
  SubkeyFileFits
\* The bounds on boots and on the clock end a behaviour.
CHECK_DEADLOCK FALSE
