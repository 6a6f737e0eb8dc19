\* Does a bad cycle ever end the observer?
SPECIFICATION Spec
CONSTANTS
  Observers = {"o1"}
  Recorders = {}
  NodeOf <- TwoNodes
  Keep = 1
  MaxErrors = 2
  Limits = {None}
  None = None
  MaxCycles = 3
  MaxFaults = 2
INVARIANT BadCycleSurvived
CHECK_DEADLOCK FALSE
