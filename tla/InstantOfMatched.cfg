\* One attestation; the anchor block is replaced between the request for its root
\* and the request for its time.
SPECIFICATION Spec
CONSTANTS
  Absent = Absent
  r1 = r1
  r2 = r2
  r3 = r3
  Roots <- BlockRoots
  Commands <- RaceCommands
  Upgrades <- NetUpgrades
  Chains <- ReorgChains
  Tolerance = 2
  MaxNow = 0
INVARIANTS
  InstantOfMatchedBlock
