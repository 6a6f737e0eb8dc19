\* Rust engine: restores one after another on a host with a snapshot, each of which
\* may be killed; nothing else goes wrong.
SPECIFICATION Spec
CONSTANTS
  Commands = {c1, c2}
  None = None
  Torn = Torn
  MayLosePower = FALSE
  Snapshots <- MCSnapshots
  Cuts <- MCCuts
  performance = performance
  powersave = powersave
  RestGovernor = powersave
  RestPercent = 40
  MHz = 4
  MaxAge = 0
  Governors = {performance, powersave}
  Floors = {4, 8}
  Ceilings = {4, 8, 32, 33, 82}
  HwMin = 4
  HwMax = 82
  Sinks = 2
  Jobs = {"restore"}
  Boots <- MCBoots
  Others <- MCOthers
  Clock = {0, 1}
  MaxRunning = 1
  MaxFaults = 0
  MaxOutside = 0
  MaxKills = 1
INVARIANT RetirementSucceeds
CHECK_DEADLOCK FALSE
