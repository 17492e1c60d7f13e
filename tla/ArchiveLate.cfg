\* The block comes when the certificates of the quote have expired.
SPECIFICATION Spec
CONSTANTS
  Deployments <- StampDeployments
  Absent = Absent
  DefaultAuth = 4
  DefaultEnc = 0
  AwsRoot = "aws"
  Validity = 1
  Messages <- NoMessages
  Tolerance = 0
  MaxBoots = 2
  MaxNow = 2
  Calendars <- TwoCalendars
  Lag = 0
  Broken = Broken
  MaxBlocks = 2
INVARIANTS
  AnchoredVerifies
\* The bounds on boots, blocks and the clock end a behaviour.
CHECK_DEADLOCK FALSE
