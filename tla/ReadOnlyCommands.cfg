\* Rust engine: the commands that change nothing, each with every input of the bounds.
SPECIFICATION Spec
CONSTANTS
  Questioned = {"observe", "economize", "preflight", "status"}
  Commands = {w1, w2}
  Torn = Torn
  MayLosePower = FALSE
  Snapshots <- MCSnapshots
  Cuts <- MCCuts
  None = None
  Limits <- MCLimits
  Counters <- MCCounters
  Memories <- MCMemories
  PowerModel <- MCPowerModel
  MaxCycles = 4
  NumServices = 2
  MaxObservationAge = 0
  Policies <- MCPolicies
  MaxTime = 1
  RestGovernor = "powersave"
  RestPercent = 40
  MHz = 4
  MaxAge = 0
  Probes <- MCProbes
  Clock = {0, 1}
  AuditSinks = {"Local audit", "Audit forwarding"}
INVARIANTS SummaryCounts HeartbeatIsSane SparesProtected IgnorancePermitsNothing
  StatusMissesNothing ArchiveReadable ReadyMeansApplies
PROPERTIES BoundedRunEnds
CHECK_DEADLOCK FALSE
