\* Two boots, two calendars, one block: fetches, stamps and upgrades in any order.
SPECIFICATION Spec
CONSTANTS
  Deployments <- StampDeployments
  Absent = Absent
  DefaultAuth = 4
  DefaultEnc = 0
  AwsRoot = "aws"
  Validity = 0
  Messages <- NoMessages
  Tolerance = 0
  MaxBoots = 2
  MaxNow = 1
  Calendars <- TwoCalendars
  Lag = 1
  Broken = Broken
  MaxBlocks = 1
INVARIANTS
  TimelyAnchorVerifies
  VerifiedPredatesBlock
  ProofIsAccepted
  SubkeyPredatesBlock
PROPERTIES
  VerdictStands
\* The bounds on boots, blocks and the clock end a behaviour.
CHECK_DEADLOCK FALSE
