\* verify-subkey without --ots.
SPECIFICATION Spec
CONSTANTS
  Absent = Absent
  r1 = r1
  r2 = r2
  r3 = r3
  Roots <- BlockRoots
  Commands <- LooseCommands
  Upgrades <- NoUpgrades
  Chains <- NoChain
  Tolerance = 2
  MaxNow = 0
INVARIANTS
  SubkeyVerifiedIsAttested
