\* Two callers, any two requests, every split of them into segments.
SPECIFICATION Spec
CONSTANTS
  c1 = c1
  c2 = c2
  None = None
  Clients <- TwoClients
  Prompt <- TwoClients
  Tokens <- Pieces
  Requests <- AllRequests
  SegmentMax = 3
  WordSize = 16
  SubkeyCount = 2
  MaxU32 = 9
  Digits <- SomeDigits
  Lengths <- SomeLengths
  SignBodies <- SomeBodies
  EOL = "eol"
INVARIANTS
  TypeOK
  AnsweredAsAsked
  SignedAsPosted
  NeverWaitsForMore
PROPERTIES
  PromiseSpec
\* Every caller has been answered, or stalls: nothing more has to happen.
CHECK_DEADLOCK FALSE
