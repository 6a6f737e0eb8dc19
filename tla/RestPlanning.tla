----------------------------- MODULE RestPlanning -----------------------------
(***************************************************************************)
(* What the Rust engine decides before it writes: the snapshot it captures *)
(* of a host, the plan for REST, and whether an apply or a restore may     *)
(* start from them.                                                        *)
(*                                                                         *)
(* A frequency is a number of units of which MHz make a megahertz: the     *)
(* kernel counts in kHz, the code in f32 megahertz, and the tolerance of   *)
(* half a megahertz lies between the two.  What a probe could not read is  *)
(* None.                                                                   *)
(***************************************************************************)
EXTENDS RestCommands, Integers, Sequences

CONSTANTS
  RestGovernor,    \* "powersave", RestPlanner's target
  RestPercent,     \* cpu_max_percent of PowerProfile::rest_default
  MHz,             \* units of frequency in a megahertz
  MaxAge           \* how old a snapshot may be when REST is applied

ASSUME RestPlanningAssumption ==
  /\ RestPercent \in 1..100
  /\ MHz \in Nat \ {0}
  /\ MaxAge \in Nat

Files == {"governor", "min", "max"}

-------------------------------------------------------------------------------
(* Frequencies *)

approximately_equal(left, right) == -MHz < 2 * (left - right) /\ 2 * (left - right) < MHz

\* The nearest whole megahertz to f / parts units.
RoundedMHz(f, parts) == ((2 * f + parts * MHz) \div (2 * parts * MHz)) * MHz

\* The ceiling of REST: the profile's share of the hardware's maximum, not below its minimum.
RestTarget(hwMin, hwMax) ==
  IF hwMax * RestPercent <= hwMin * 100
    THEN RoundedMHz(hwMin, 1)
    ELSE RoundedMHz(hwMax * RestPercent, 100)

\* Whether a file's content counts as the value that was asked for.
Matches(file, found, wanted) ==
  IF file = "governor" THEN found = wanted ELSE approximately_equal(found, wanted)

-------------------------------------------------------------------------------
(* The recovery snapshot *)

\* What OriginalPowerState::validate demands of the two frequencies.
ValidRange(min, max) == 0 < min /\ min <= max

\* Mutant: the two limits are taken as they were read.
captureUnchecked(seen, at) ==
  IF \E f \in Files : seen[f] = None THEN None ELSE [at |-> at, host |-> seen]

\* The snapshot taken of what was read, or None when it is refused.
capture(seen, at) ==
  IF \E f \in Files : seen[f] = None THEN None
  ELSE IF ~ValidRange(seen["min"], seen["max"]) THEN None
  ELSE [at |-> at, host |-> seen]

\* A frequency in megahertz has at most so many digits before the point.
Digits == 7

\* A ceiling whose last digits are missing: some after the point, or some before it.
CutCeiling(cut, max) ==
  \/ cut < max /\ cut \div MHz = max \div MHz
  \/ \E missing \in 1..Digits : cut = MHz * ((max \div MHz) \div 10^missing)

\* decode: the ceiling is the last field, and nothing marks the end of the file.
DecodesCut(snapshot, cut) ==
  /\ cut.at = snapshot.at
  /\ \A f \in Files \ {"max"} : cut.host[f] = snapshot.host[f]
  /\ CutCeiling(cut.host["max"], snapshot.host["max"])
  /\ ValidRange(cut.host["min"], cut.host["max"])

\* load_fresh_for_write: neither from the future nor too old.
is_fresh(snapshot, now) == snapshot.at <= now /\ now - snapshot.at <= MaxAge

-------------------------------------------------------------------------------
(* The plan for REST *)

Change(file, current, target) == [file |-> file, current |-> current, target |-> target]

plan_governor(caps) ==
  IF caps.governor = None
    THEN [blockers |-> {"governor unknown"}, changes |-> <<>>]
  ELSE IF RestGovernor \notin caps.governors
    THEN [blockers |-> {"governor unavailable"}, changes |-> <<>>]
  ELSE [blockers |-> {},
        changes |-> IF caps.governor = RestGovernor THEN <<>>
                    ELSE <<Change("governor", caps.governor, RestGovernor)>>]

\* REST never raises a ceiling that is already more restrictive.
PlanCeiling(current, target) ==
  IF current > target THEN <<Change("max", current, target)>> ELSE <<>>

plan_frequency(caps) ==
  IF None \in {caps.hwMin, caps.hwMax, caps.max}
    THEN [blockers |-> {"limits incomplete"}, changes |-> <<>>]
  ELSE IF caps.hwMin > caps.hwMax
    THEN [blockers |-> {"hardware range invalid"}, changes |-> <<>>]
  ELSE [blockers |-> {},
        changes |-> PlanCeiling(caps.max, RestTarget(caps.hwMin, caps.hwMax))]

Status(blockers, changes) ==
  CASE blockers # {}                   -> "Blocked"
    [] blockers = {} /\ changes = <<>> -> "NoChanges"
    [] OTHER                           -> "Ready"

plan(caps) ==
  LET governor  == plan_governor(caps)
      frequency == plan_frequency(caps)
      blockers  == governor.blockers \union frequency.blockers
                   \union (IF caps.cpufreq THEN {} ELSE {"no cpufreq"})
      changes   == governor.changes \o frequency.changes
  IN [status |-> Status(blockers, changes), blockers |-> blockers, changes |-> changes]

-------------------------------------------------------------------------------
(* What the driver demands before it starts *)

\* validate_plan, for one change of a plan that is Ready.
validate_plan(change, snapshot) ==
  \/ change.file = "governor" /\ change.target = RestGovernor
  \/ /\ change.file = "max"
     /\ snapshot.host["min"] <= change.target
     /\ change.target <= change.current

\* verify_original_matches_plan, for one change.
verify_original_matches_plan(change, snapshot) ==
  Matches(change.file, change.current, snapshot.host[change.file])

\* Whether LinuxRestDriver::apply goes on to the files with a plan that is Ready.
AcceptsPlan(changes, snapshot) ==
  \A i \in DOMAIN changes :
    /\ validate_plan(changes[i], snapshot)
    /\ verify_original_matches_plan(changes[i], snapshot)

\* validate_restore_target: the governor still exists, the range lies in that of the hardware.
validate_restore_target(snapshot, caps) ==
  /\ caps.cpufreq
  /\ snapshot.host["governor"] \in caps.governors
  /\ None \notin {caps.hwMin, caps.hwMax}
  /\ caps.hwMin <= snapshot.host["min"]
  /\ snapshot.host["max"] <= caps.hwMax
  /\ snapshot.host["min"] <= snapshot.host["max"]
===============================================================================
