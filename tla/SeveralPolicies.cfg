SPECIFICATION Spec
CONSTANTS
  None = None
  RestGovernor = "powersave"
  Commands = {c1, c2, c3, c4}
  NumCPUs = 2
  PolicyOf <- TwoPolicies
  Governors = {"performance", "powersave"}
  Ceilings = {4, 10}
  Hardware <- MCHardware
  Intents = {"economize", "release"}
  Activities <- MCActivities
  Ages = {0}
  Concurrent = FALSE
  MayCrash = TRUE
  MaxFaults = 2
SYMMETRY Symmetry
INVARIANTS
  LeadRecoverable
  ResultIsTrue
  TrailTellsTorn
  OneFaultRecoverable
PROPERTIES
  NoWriteWithoutRecord
CHECK_DEADLOCK FALSE
