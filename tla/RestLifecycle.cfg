\* Rust engine: two commands that may overlap and be killed, on a host that
\* earlier commands may have left saved, rested or restored, with one failing call,
\* power loss or change by another tool.
SPECIFICATION Spec
CONSTANTS
  Commands = {c1, c2}
  None = None
  Torn = Torn
  MayLosePower = TRUE
  Snapshots <- MCSnapshots
  Cuts <- MCCuts
  performance = performance
  powersave = powersave
  RestGovernor = powersave
  RestPercent = 40
  MHz = 4
  MaxAge = 0
  Governors = {performance, powersave}
  Floors = {4, 8}
  Ceilings = {4, 8, 32, 33, 82}
  HwMin = 4
  HwMax = 82
  Sinks = 2
  Jobs = {"save", "apply", "restore"}
  Boots <- MCBoots
  Others <- MCOthers
  Clock = {0, 1}
  MaxRunning = 2
  MaxFaults = 1
  MaxOutside = 1
  MaxKills = 1
SYMMETRY Interchangeable
INVARIANTS TypeOK Kept FailClosed SuccessIsTold ReportIsTrue RestoreGoesThrough
PROPERTIES RetiresOnlyWhenBack KeepsPromise
CHECK_DEADLOCK FALSE
