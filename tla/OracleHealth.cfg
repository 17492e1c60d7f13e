\* A prompt health probe next to a caller that may stall.
SPECIFICATION FairSpec
CONSTANTS
  c1 = c1
  c2 = c2
  None = None
  Clients <- TwoClients
  Prompt <- OnlyOne
  Tokens <- Pieces
  Requests <- ProbeRequests
  SegmentMax = 3
  WordSize = 16
  SubkeyCount = 2
  MaxU32 = 9
  Digits <- SomeDigits
  Lengths <- SomeLengths
  SignBodies <- SomeBodies
  EOL = "eol"
PROPERTIES
  HealthCheckSatisfied
\* Every caller has been answered, or stalls: nothing more has to happen.
CHECK_DEADLOCK FALSE
