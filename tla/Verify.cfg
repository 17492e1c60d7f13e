\* Header files, bundles put together from two ceremonies, and the explorer.
SPECIFICATION VerifySpec
CONSTANTS
  Absent = Absent
  r1 = r1
  r2 = r2
  r3 = r3
  Roots <- BlockRoots
  Commands <- AllCommands
  Upgrades <- AllUpgrades
  Chains <- ReorgChains
  Tolerance = 2
  MaxNow = 2
INVARIANTS
  TypeOK
  AnchoredAnswersAgree
  InstantIsAnchorTime
  OneCeremony
PROPERTIES
  PromiseSpec
