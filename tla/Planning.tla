------------------------------- MODULE Planning -------------------------------
(***************************************************************************)
(* The decisions of nordfir: what REST would mean for a snapshot of the    *)
(* host, which typed actions lead there, which lead back to the stored     *)
(* original state, and the guards that stand in between.  All of them are  *)
(* pure functions in the source, and operators without state here.         *)
(*                                                                         *)
(* A reason to refuse is a member of a set and not a sentence; frequencies *)
(* are integers in the unit of the caller; Python's None is the constant   *)
(* None, for an unknown value and for a missing record alike.              *)
(***************************************************************************)
EXTENDS Integers, Sequences

CONSTANTS
  None,          \* a value that could not be read, or a record there is not
  RestGovernor   \* the governor of a node at rest ("powersave")

REST_CPU_MAX_PERCENT == 40
CLOCK_SKEW_SECONDS == 5
MAX_SNAPSHOT_AGE_SECONDS == 60

\* The files of a cpufreq policy that a driver may write.
Files == {"scaling_governor", "scaling_max_freq"}

Lower(a, b)  == IF a <= b THEN a ELSE b
Higher(a, b) == IF a >= b THEN a ELSE b

\* A reason to refuse, if its condition holds.
Reason(name, condition) == IF condition THEN {name} ELSE {}

-------------------------------------------------------------------------------
(* Desired state: engine.py *)

\* Mutant: the share is taken of the ceiling in force.
RestCeilingOfCurrent(cpu) ==
  Lower(Higher(cpu.hardware_min_khz, (cpu.scaling_max_khz * REST_CPU_MAX_PERCENT) \div 100),
        cpu.scaling_max_khz)

RestCeiling(cpu) ==
  LET share == (cpu.hardware_max_khz * REST_CPU_MAX_PERCENT) \div 100
  IN  Lower(Higher(cpu.hardware_min_khz, Lower(share, cpu.hardware_max_khz)),
            cpu.scaling_max_khz)

RestState(cpu) ==
  LET blockers == Reason("no_cpufreq", ~cpu.cpufreq_available)
                    \cup Reason("no_governor", cpu.governor = None)
                    \cup Reason("no_rest", RestGovernor \notin cpu.available_governors)
                    \cup Reason("no_range", None \in {cpu.hardware_min_khz, cpu.hardware_max_khz})
                    \cup Reason("no_ceiling", cpu.scaling_max_khz = None)
      known == blockers = {}
  IN  [mode |-> "rest", blockers |-> blockers,
       governor |-> IF known THEN RestGovernor ELSE None,
       scaling_max_khz |-> IF known THEN RestCeiling(cpu) ELSE None]

Undirected(mode, blockers) ==
  [mode |-> mode, blockers |-> blockers, governor |-> None, scaling_max_khz |-> None]

desired_state(cpu, intent) ==
  CASE intent = "available"   -> Undirected("active", {})
    [] intent = "maintenance" -> Undirected("none", {})
    [] intent = "release"     -> Undirected("none", {"off_unsupported"})
    [] OTHER                  -> RestState(cpu)

-------------------------------------------------------------------------------
(* Original state: state.py *)

Consistent(cpu) ==
  /\ cpu.hardware_min_khz <= cpu.scaling_min_khz
  /\ cpu.scaling_min_khz <= cpu.scaling_max_khz
  /\ cpu.scaling_max_khz <= cpu.hardware_max_khz

Recordable(cpu) ==
  /\ cpu.cpufreq_available
  /\ cpu.governor # None
  /\ None \notin {cpu.scaling_min_khz, cpu.scaling_max_khz,
                  cpu.hardware_min_khz, cpu.hardware_max_khz}
  /\ Consistent(cpu)

\* The record to store, or None where the source raises ValueError.
original_state_from(cpu) ==
  IF Recordable(cpu)
    THEN [node |-> cpu.node, governor |-> cpu.governor,
          scaling_min_khz |-> cpu.scaling_min_khz,
          scaling_max_khz |-> cpu.scaling_max_khz,
          hardware_min_khz |-> cpu.hardware_min_khz,
          hardware_max_khz |-> cpu.hardware_max_khz]
    ELSE None

-------------------------------------------------------------------------------
(* Plans: plan.py *)

Plan(actions, blockers, deferrals) ==
  [actions |-> actions, blockers |-> blockers, deferrals |-> deferrals]

Refusal(blockers) == Plan(<<>>, blockers, {})

blocked(plan) == plan.blockers # {} \/ plan.deferrals # {}

Change(file, current, target) ==
  IF current = target
    THEN <<>>
    ELSE <<[file |-> file, expected |-> current, target |-> target]>>

\* Governor first, then the frequency ceiling.
ActionsTo(cpu, governor, ceiling) ==
  Change("scaling_governor", cpu.governor, governor)
    \o Change("scaling_max_freq", cpu.scaling_max_khz, ceiling)

RangeDiffers(cpu, original) ==
  \/ original.hardware_min_khz # cpu.hardware_min_khz
  \/ original.hardware_max_khz # cpu.hardware_max_khz

BelowFloor(cpu, ceiling) == cpu.scaling_min_khz # None /\ ceiling < cpu.scaling_min_khz

\* Mutants: no record is needed; the record may be of other hardware.
ChangeBlockersNoRecord(cpu, desired, original) ==
     Reason("no_floor", cpu.scaling_min_khz = None)
  \cup Reason("below_floor", BelowFloor(cpu, desired.scaling_max_khz))
ChangeBlockersAnyRange(cpu, desired, original) ==
     Reason("no_original", original = None)
  \cup Reason("other_node", original # None /\ original.node # cpu.node)
  \cup Reason("no_floor", cpu.scaling_min_khz = None)
  \cup Reason("below_floor", BelowFloor(cpu, desired.scaling_max_khz))

ChangeBlockers(cpu, desired, original) ==
     Reason("no_original", original = None)
  \cup Reason("other_node", original # None /\ original.node # cpu.node)
  \cup Reason("other_range", /\ original # None
                             /\ original.node = cpu.node
                             /\ RangeDiffers(cpu, original))
  \cup Reason("no_floor", cpu.scaling_min_khz = None)
  \cup Reason("below_floor", BelowFloor(cpu, desired.scaling_max_khz))

plan_changes(cpu, desired, original) ==
  IF desired.blockers # {} THEN Refusal(desired.blockers)
  ELSE IF desired.mode # "rest" THEN Refusal({})
  ELSE LET actions  == ActionsTo(cpu, desired.governor, desired.scaling_max_khz)
           blockers == ChangeBlockers(cpu, desired, original)
       IN  IF actions = <<>> THEN Refusal({})
           ELSE IF blockers # {} THEN Refusal(blockers)
           ELSE Plan(actions, {}, {})

\* Mutant: the floor is not looked at.
RestoreBlockersNoFloor(cpu, original) ==
     Reason("other_node", original.node # cpu.node)
  \cup Reason("no_cpufreq", ~cpu.cpufreq_available)
  \cup Reason("no_governor", cpu.governor = None)
  \cup Reason("no_ceiling", cpu.scaling_max_khz = None)
  \cup Reason("other_range", RangeDiffers(cpu, original))

RestoreBlockers(cpu, original) ==
     Reason("other_node", original.node # cpu.node)
  \cup Reason("no_cpufreq", ~cpu.cpufreq_available)
  \cup Reason("no_governor", cpu.governor = None)
  \cup Reason("no_ceiling", cpu.scaling_max_khz = None)
  \cup Reason("other_range", RangeDiffers(cpu, original))
  \cup Reason("below_floor", BelowFloor(cpu, original.scaling_max_khz))

\* Mutant: the ceiling is not restored.
plan_restore_governor(cpu, original) ==
  IF original = None THEN Refusal({"no_original"})
  ELSE IF RestoreBlockers(cpu, original) # {}
    THEN Refusal(RestoreBlockers(cpu, original))
    ELSE Plan(Change("scaling_governor", cpu.governor, original.governor), {}, {})

plan_restore(cpu, original) ==
  IF original = None THEN Refusal({"no_original"})
  ELSE IF RestoreBlockers(cpu, original) # {}
    THEN Refusal(RestoreBlockers(cpu, original))
    ELSE Plan(ActionsTo(cpu, original.governor, original.scaling_max_khz), {}, {})

-------------------------------------------------------------------------------
(* Guards: guards.py *)

\* Mutant: an unknown session count passes.
GuardBlockersNoSsh(age, activity) ==
     Reason("future", age < -CLOCK_SKEW_SECONDS)
  \cup Reason("stale", age > MAX_SNAPSHOT_AGE_SECONDS)
  \cup Reason("procs_unknown", activity.protected_running = None)

\* activity.ssh_sessions: a count or None; activity.protected_running: a set or None.
GuardBlockers(age, activity) ==
     Reason("future", age < -CLOCK_SKEW_SECONDS)
  \cup Reason("stale", age > MAX_SNAPSHOT_AGE_SECONDS)
  \cup Reason("ssh_unknown", activity.ssh_sessions = None)
  \cup Reason("procs_unknown", activity.protected_running = None)

GuardDeferrals(activity) ==
     Reason("ssh", activity.ssh_sessions \notin {None, 0})
  \cup Reason("protected", activity.protected_running \notin {None, {}})

guard_plan(plan, age, activity) ==
  IF \/ blocked(plan)
     \/ plan.actions = <<>>
     \/ GuardBlockers(age, activity) = {} /\ GuardDeferrals(activity) = {}
    THEN plan
    ELSE Plan(<<>>, GuardBlockers(age, activity), GuardDeferrals(activity))
===============================================================================
