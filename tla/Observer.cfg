\* An observer with a limit of cycles or none, on a database where decisions are
\* recorded for its node and for another, with more errors than it suffers.
SPECIFICATION FairSpec
CONSTANTS
  Observers = {"o1"}
  Recorders = {"r1", "r2"}
  NodeOf <- TwoNodes
  Keep = 1
  MaxErrors = 2
  Limits = {2, None}
  None = None
  MaxCycles = 3
  MaxFaults = 3
INVARIANTS ReferencesHold RetentionBounded SummaryIsTrue
PROPERTY StopHeeded
CHECK_DEADLOCK FALSE
