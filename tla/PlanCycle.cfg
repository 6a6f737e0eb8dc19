SPECIFICATION Spec
CONSTANTS
  None = None
  RestGovernor = "powersave"
  Snapshots <- MCSnapshots
  Intents = {"available", "economize", "release", "maintenance"}
  Activities <- MCActivities
  Ages <- MCAges
  MaxOutside = 1
INVARIANTS
  UnknownIsNotSafe
PROPERTIES
  RestIsSettled
  WayBack
  RestoreLandsInRange
CHECK_DEADLOCK FALSE
