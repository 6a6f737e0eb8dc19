SPECIFICATION FairSpec
CONSTANTS
  None = None
  RestGovernor = "powersave"
  Commands = {c1, c2, c3}
  NumCPUs = 2
  PolicyOf <- OnePolicy
  Governors = {"performance", "powersave"}
  Ceilings = {4, 10}
  Hardware <- MCHardware
  Intents = {"economize"}
  Activities <- MCActivities
  Ages = {0}
  Concurrent = FALSE
  MayCrash = TRUE
  MaxFaults = 2
INVARIANTS
  TypeOK
  HostRecoverable
PROPERTIES
  KeepsPromise
  EveryCommandEnds
  RestoreReturns
CHECK_DEADLOCK FALSE
