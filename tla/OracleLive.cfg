\* Two prompt callers: each is answered in the end.
SPECIFICATION FairSpec
CONSTANTS
  c1 = c1
  c2 = c2
  None = None
  Clients <- TwoClients
  Prompt <- TwoClients
  Tokens <- Pieces
  Requests <- LiveRequests
  SegmentMax = 3
  WordSize = 16
  SubkeyCount = 2
  MaxU32 = 9
  Digits <- SomeDigits
  Lengths <- SomeLengths
  SignBodies <- SomeBodies
  EOL = "eol"
PROPERTIES
  CallersAnswered
\* Every caller has been answered, or stalls: nothing more has to happen.
CHECK_DEADLOCK FALSE
