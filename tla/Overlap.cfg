SPECIFICATION Spec
CONSTANTS
  None = None
  RestGovernor = "powersave"
  Commands = {c1, c2, c3}
  NumCPUs = 2
  PolicyOf <- OnePolicy
  Governors = {"performance", "powersave"}
  Ceilings = {1, 4, 10}
  Hardware <- MCHardware
  Intents = {"economize"}
  Activities <- MCActivities
  Ages = {0}
  Concurrent = TRUE
  MayCrash = TRUE
  MaxFaults = 1
SYMMETRY Symmetry
INVARIANTS
  NoForeignValue
CHECK_DEADLOCK FALSE
