------------------------------- MODULE PlanCycle -------------------------------
(***************************************************************************)
(* One node with one cpufreq policy, and an operator who saves the         *)
(* original state, economizes and restores, through a driver that always   *)
(* succeeds.  Between any two commands something outside nordfir may have  *)
(* changed one value of the host.  What is checked here is the planning    *)
(* itself, over every combination of known and unknown values; faults,     *)
(* crashes, several policies and several commands at once are              *)
(* PowerControl's subject.                                                 *)
(***************************************************************************)
EXTENDS Planning, FiniteSets

CONSTANTS
  Snapshots,     \* what collect_hardware may return
  Intents,       \* the intents an operator may give
  Activities,    \* what collect_activity may return
  Ages,          \* the ages of a snapshot when the guards look at it
  MaxOutside     \* bound on the changes made outside nordfir

\* What HardwareSnapshot and Activity hold.
Fields == {"node", "cpufreq_available", "available_governors", "governor", "hardware_min_khz",
           "hardware_max_khz", "scaling_min_khz", "scaling_max_khz"}
Frequencies(s) ==
  {s.hardware_min_khz, s.hardware_max_khz, s.scaling_min_khz, s.scaling_max_khz}
IsSnapshot(s) ==
  /\ s = [field \in Fields |-> s[field]]
  /\ s.cpufreq_available \in BOOLEAN
  /\ Frequencies(s) \subseteq Int \union {None}
IsActivity(a) ==
  a = [ssh_sessions |-> a.ssh_sessions, protected_running |-> a.protected_running]

ASSUME PlanCycleAssumption ==
  /\ Snapshots # {} /\ Intents # {} /\ Activities # {} /\ Ages # {}
  /\ \A s \in Snapshots : IsSnapshot(s)
  /\ \A a \in Activities : IsActivity(a)
  /\ Ages \subseteq Int
  /\ None \notin Int /\ RestGovernor # None
  /\ MaxOutside \in Nat

VARIABLES
  host,        \* the snapshot the host would give now
  original,    \* the active recovery record, or None
  plan,        \* the plan in hand
  guarded,     \* the age and the activity that plan was guarded with, or None
  phase,       \* where the operator is
  outside      \* how often something else changed the host

vars == <<host, original, plan, guarded, phase, outside>>

Idle == {"fresh", "saved", "economized", "restored"}

Init ==
  /\ host \in Snapshots
  /\ original = None
  /\ plan = Refusal({})
  /\ guarded = None
  /\ phase = "fresh"
  /\ outside = 0

\* What a driver leaves behind that carries out every action of a plan.
After(cpu, actions) ==
  LET target(file, current) ==
        IF \E i \in DOMAIN actions : actions[i].file = file
          THEN actions[CHOOSE i \in DOMAIN actions : actions[i].file = file].target
          ELSE current
  IN  [cpu EXCEPT !.governor = target("scaling_governor", @),
                  !.scaling_max_khz = target("scaling_max_freq", @)]

SaveOriginal ==
  /\ phase = "fresh"
  /\ original' = original_state_from(host)
  /\ phase' = "saved"
  /\ UNCHANGED <<host, plan, guarded, outside>>

Outside ==
  /\ phase \in Idle
  /\ outside < MaxOutside
  /\ outside' = outside + 1
  /\ \E s \in Snapshots, field \in DOMAIN host :
        host' = [host EXCEPT ![field] = s[field]]
  /\ UNCHANGED <<original, plan, guarded, phase>>

PlanChanges(intent) ==
  /\ phase \in {"saved", "economized"}
  /\ plan' = plan_changes(host, desired_state(host, intent), original)
  /\ phase' = "planned"
  /\ UNCHANGED <<host, original, guarded, outside>>

Guard(age, activity) ==
  /\ phase = "planned"
  /\ plan' = guard_plan(plan, age, activity)
  /\ guarded' = [age |-> age, activity |-> activity]
  /\ phase' = "guarded"
  /\ UNCHANGED <<host, original, outside>>

Economize ==
  /\ phase = "guarded"
  /\ ~blocked(plan)
  /\ host' = After(host, plan.actions)
  /\ phase' = "economized"
  /\ guarded' = None
  /\ UNCHANGED <<original, plan, outside>>

Decline ==
  /\ phase \in {"guarded", "return"}
  /\ blocked(plan)
  /\ phase' = "saved"
  /\ guarded' = None
  /\ UNCHANGED <<host, original, plan, outside>>

PlanRestore ==
  /\ phase \in {"saved", "economized"}
  /\ plan' = plan_restore(host, original)
  /\ phase' = "return"
  /\ UNCHANGED <<host, original, guarded, outside>>

Restore ==
  /\ phase = "return"
  /\ ~blocked(plan)
  /\ host' = After(host, plan.actions)
  /\ phase' = "restored"
  /\ UNCHANGED <<original, plan, guarded, outside>>

Next ==
  \/ SaveOriginal
  \/ Outside
  \/ \E intent \in Intents : PlanChanges(intent)
  \/ \E age \in Ages, activity \in Activities : Guard(age, activity)
  \/ Economize
  \/ Decline
  \/ PlanRestore
  \/ Restore

Spec == Init /\ [][Next]_vars

-------------------------------------------------------------------------------
(* Properties *)

\* "Unknown is not safe": a plan that survived the guards rests on nothing
\* unknown, on a stored record of this node and this hardware, and on a fresh
\* snapshot of an idle node (docs/ARCHITECTURE.md, _rest_state, _blockers, guard_plan).
UnknownIsNotSafe ==
  (phase = "guarded" /\ plan.actions # <<>>) =>
    /\ host.cpufreq_available /\ host.scaling_min_khz # None
    /\ \A i \in DOMAIN plan.actions : None \notin {plan.actions[i].expected, plan.actions[i].target}
    /\ original # None /\ original.node = host.node /\ ~RangeDiffers(host, original)
    /\ guarded.age \in -CLOCK_SKEW_SECONDS..MAX_SNAPSHOT_AGE_SECONDS
    /\ guarded.activity = [ssh_sessions |-> 0, protected_running |-> {}]

\* A node that was just put to rest is at rest: planning again finds nothing to
\* do, and nothing to refuse (desired_state and plan_changes agree on a fixpoint).
RestIsSettled ==
  [][(Economize /\ host' # host) =>
       plan_changes(host', desired_state(host', "economize"), original)
         = Refusal({})]_vars

\* Whenever a node has been put to rest, the way back is open: the restore plan
\* made from what economize left is not blocked, unless the floor now lies above
\* the recorded ceiling, and it leads exactly to the recorded values.
WayBack ==
  [][(Economize /\ host' # host) =>
       LET back == plan_restore(host', original)
           home == After(host', back.actions)
       IN  \/ original.scaling_max_khz < host'.scaling_min_khz
           \/ /\ ~blocked(back)
              /\ home.governor = original.governor
              /\ home.scaling_max_khz = original.scaling_max_khz]_vars

\* A restore that is carried out never leaves the ceiling below the floor nor
\* above what the hardware can do, and ends with nothing left to restore.
RestoreLandsInRange ==
  [][Restore =>
       /\ host'.scaling_min_khz = None \/ host'.scaling_max_khz >= host'.scaling_min_khz
       /\ host'.scaling_max_khz <= host'.hardware_max_khz
       /\ plan_restore(host', original) = Refusal({})]_vars

-------------------------------------------------------------------------------
(* The inductive invariant behind them *)

\* A record is of a host whose limits were all known and in order.
RecordIsConsistent ==
  original # None =>
    /\ original.governor # None
    /\ Frequencies(original) \subseteq Int
    /\ Consistent(original)

\* A plan to rest that asks for something asks for rest, and found nothing against it.
RestIsPlanned ==
  phase \in {"planned", "guarded"} /\ plan.actions # <<>> =>
    /\ RestState(host).blockers = {}
    /\ ChangeBlockers(host, RestState(host), original) = {}
    /\ plan = Plan(ActionsTo(host, RestGovernor, RestCeiling(host)), {}, {})
    /\ phase = "guarded" =>
         /\ guarded.age \in Ages /\ guarded.activity \in Activities
         /\ GuardBlockers(guarded.age, guarded.activity) = {}
         /\ GuardDeferrals(guarded.activity) = {}

PlanInductive ==
  /\ IsSnapshot(host)
  /\ RecordIsConsistent
  /\ phase \in Idle \union {"planned", "guarded", "return"}
  /\ RestIsPlanned
  /\ phase = "return" => plan = plan_restore(host, original)
===============================================================================
