SPECIFICATION Spec
CONSTANTS
  None = None
  RestGovernor = "powersave"
  Commands = {c1, c2, c3, c4}
  NumCPUs = 2
  PolicyOf <- TwoPolicies
  Governors = {"performance", "powersave"}
  Ceilings = {4, 10}
  Hardware <- MCHardware
  Intents = {"economize"}
  Activities <- MCActivities
  Ages = {0}
  Concurrent = FALSE
  MayCrash = TRUE
  MaxFaults = 0
SYMMETRY Symmetry
PROPERTIES
  RetireOnlyWhenBack
CHECK_DEADLOCK FALSE
