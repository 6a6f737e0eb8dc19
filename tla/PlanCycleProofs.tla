---------------------------- MODULE PlanCycleProofs ----------------------------
(***************************************************************************)
(* What the planners and the guards let through, for every snapshot of a   *)
(* host, every record, activity and age, and any number of changes made    *)
(* outside nordfir: PlanInductive is inductive, and the properties follow. *)
(*                                                                         *)
(* The argument.  A plan is one of two: nothing, with or without a reason, *)
(* or the actions that lead from the host as it is to a governor and a     *)
(* ceiling; and while a plan is in hand the host stays.  So what the       *)
(* driver leaves is known (AfterActions), and both goals are fixpoints:    *)
(* the ceiling of rest is that of the host that has it, and the record's   *)
(* values are those of the host that was restored.                         *)
(***************************************************************************)
EXTENDS PlanCycle, SequenceTheorems, TLAPS

-------------------------------------------------------------------------------
(* The actions of a plan *)

\* What the concatenation of at most two changes is.
LEMMA ShortConcat ==
  ASSUME NEW a, NEW b
  PROVE  /\ <<a>> \o <<b>> = <<a, b>>
         /\ <<a>> \o <<>> = <<a>>
         /\ <<>> \o <<b>> = <<b>>
         /\ <<>> \o <<>> = <<>>
<1> DEFINE S == {a, b}
           x == <<a>>
           y == <<b>>
           z == <<a, b>>
           xy == x \o y
<1>1. /\ x \in Seq(S) /\ y \in Seq(S) /\ z \in Seq(S)
      /\ Len(x) = 1 /\ Len(y) = 1 /\ Len(z) = 2
      /\ x[1] = a /\ y[1] = b /\ z[1] = a /\ z[2] = b
  OBVIOUS
<1>2. <<>> \in Seq(S)
  OBVIOUS
<1>3. x \o <<>> = x /\ <<>> \o y = y /\ <<>> \o <<>> = <<>>
  <2> HIDE DEF S, x, y
  <2> QED
    BY <1>1, <1>2, ConcatEmptySeq, Zenon
<1> HIDE DEF S, x, y, z
<1>4. /\ xy \in Seq(S) /\ Len(xy) = Len(x) + Len(y)
      /\ \A i \in 1 .. Len(x) + Len(y) : xy[i] = IF i <= Len(x) THEN x[i] ELSE y[i - Len(x)]
  BY <1>1, ConcatProperties, Zenon
<1> HIDE DEF xy
<1>5. Len(xy) = 2 /\ xy[1] = x[1] /\ xy[2] = y[1]
  BY <1>1, <1>4
<1>6. xy = z
  BY <1>1, <1>4, <1>5, SeqEqual
<1> QED
  BY <1>3, <1>6 DEF x, y, z, xy

Step(file, current, target) == [file |-> file, expected |-> current, target |-> target]

\* The actions to a governor and a ceiling: one for each file that is not there yet.
LEMMA ActionsShape ==
  ASSUME NEW cpu, NEW governor, NEW ceiling
  PROVE  LET g == Step("scaling_governor", cpu.governor, governor)
             m == Step("scaling_max_freq", cpu.scaling_max_khz, ceiling)
             actions == ActionsTo(cpu, governor, ceiling)
         IN  actions =
               IF cpu.governor = governor
                 THEN IF cpu.scaling_max_khz = ceiling THEN <<>> ELSE <<m>>
                 ELSE IF cpu.scaling_max_khz = ceiling THEN <<g>> ELSE <<g, m>>
<1> DEFINE g == Step("scaling_governor", cpu.governor, governor)
           m == Step("scaling_max_freq", cpu.scaling_max_khz, ceiling)
           G == Change("scaling_governor", cpu.governor, governor)
           M == Change("scaling_max_freq", cpu.scaling_max_khz, ceiling)
<1>1. /\ G = IF cpu.governor = governor THEN <<>> ELSE <<g>>
      /\ M = IF cpu.scaling_max_khz = ceiling THEN <<>> ELSE <<m>>
      /\ ActionsTo(cpu, governor, ceiling) = G \o M
  BY DEF Change, Step, ActionsTo
<1> HIDE DEF g, m, G, M
<1>2. /\ <<g>> \o <<m>> = <<g, m>> /\ <<g>> \o <<>> = <<g>>
      /\ <<>> \o <<m>> = <<m>> /\ <<>> \o <<>> = <<>>
  BY ShortConcat
<1>3. ActionsTo(cpu, governor, ceiling) =
        IF cpu.governor = governor
          THEN IF cpu.scaling_max_khz = ceiling THEN <<>> ELSE <<m>>
          ELSE IF cpu.scaling_max_khz = ceiling THEN <<g>> ELSE <<g, m>>
  BY <1>1, <1>2
<1> QED
  BY <1>3 DEF g, m

\* A host with another governor and another ceiling.
At(cpu, governor, ceiling) == [cpu EXCEPT !.governor = governor, !.scaling_max_khz = ceiling]

LEMMA AtIsHost ==
  ASSUME NEW cpu, IsSnapshot(cpu), NEW governor, NEW ceiling
  PROVE  LET h == At(cpu, governor, ceiling)
         IN  /\ h.governor = governor /\ h.scaling_max_khz = ceiling
             /\ h.node = cpu.node /\ h.cpufreq_available = cpu.cpufreq_available
             /\ h.available_governors = cpu.available_governors
             /\ h.hardware_min_khz = cpu.hardware_min_khz
             /\ h.hardware_max_khz = cpu.hardware_max_khz
             /\ h.scaling_min_khz = cpu.scaling_min_khz
             /\ ceiling \in Int => IsSnapshot(h)
             /\ At(cpu, cpu.governor, cpu.scaling_max_khz) = cpu
<1>1. DOMAIN cpu = Fields
  BY DEF IsSnapshot
<1> DEFINE h == At(cpu, governor, ceiling)
<1>2. /\ h.governor = governor /\ h.scaling_max_khz = ceiling
      /\ h.node = cpu.node /\ h.cpufreq_available = cpu.cpufreq_available
      /\ h.available_governors = cpu.available_governors
      /\ h.hardware_min_khz = cpu.hardware_min_khz
      /\ h.hardware_max_khz = cpu.hardware_max_khz
      /\ h.scaling_min_khz = cpu.scaling_min_khz
  BY <1>1 DEF At, Fields
<1>3. h = [field \in Fields |-> h[field]]
  BY <1>1 DEF At
<1>4. At(cpu, cpu.governor, cpu.scaling_max_khz) = cpu
  BY <1>1 DEF At, IsSnapshot
<1> HIDE DEF h
<1>5. ceiling \in Int => IsSnapshot(h)
  BY <1>2, <1>3 DEF IsSnapshot, Frequencies
<1> QED
  BY <1>2, <1>4, <1>5 DEF h

\* What a driver leaves that carried out the actions to a governor and a ceiling.
LEMMA AfterActions ==
  ASSUME NEW cpu, IsSnapshot(cpu), NEW governor, NEW ceiling
  PROVE  After(cpu, ActionsTo(cpu, governor, ceiling)) = At(cpu, governor, ceiling)
<1> DEFINE g == Step("scaling_governor", cpu.governor, governor)
           m == Step("scaling_max_freq", cpu.scaling_max_khz, ceiling)
           acts == ActionsTo(cpu, governor, ceiling)
           target(file, current) ==
             IF \E i \in DOMAIN acts : acts[i].file = file
               THEN acts[CHOOSE i \in DOMAIN acts : acts[i].file = file].target
               ELSE current
<1>1. DOMAIN cpu = Fields
  BY DEF IsSnapshot
<1>2. After(cpu, acts) = [cpu EXCEPT !.governor = target("scaling_governor", cpu.governor),
                                     !.scaling_max_khz =
                                        target("scaling_max_freq", cpu.scaling_max_khz)]
  BY <1>1 DEF After, Fields
<1>3. /\ g.file = "scaling_governor" /\ g.target = governor
      /\ m.file = "scaling_max_freq" /\ m.target = ceiling
  BY DEF Step
<1>4. acts = IF cpu.governor = governor
               THEN IF cpu.scaling_max_khz = ceiling THEN <<>> ELSE <<m>>
               ELSE IF cpu.scaling_max_khz = ceiling THEN <<g>> ELSE <<g, m>>
  BY ActionsShape
<1> HIDE DEF g, m, acts
<1>5. /\ target("scaling_governor", cpu.governor) = governor
      /\ target("scaling_max_freq", cpu.scaling_max_khz) = ceiling
  <2>1. CASE acts = <<>>
    <3>1. DOMAIN acts = {}
      BY <2>1
    <3> QED
      BY <1>4, <2>1, <3>1
  <2>2. CASE acts = <<m>> /\ cpu.governor = governor
    <3>1. DOMAIN acts = {1} /\ acts[1] = m
      BY <2>2
    <3> QED
      BY <1>3, <2>2, <3>1
  <2>3. CASE acts = <<g>> /\ cpu.scaling_max_khz = ceiling
    <3>1. DOMAIN acts = {1} /\ acts[1] = g
      BY <2>3
    <3> QED
      BY <1>3, <2>3, <3>1
  <2>4. CASE acts = <<g, m>>
    <3>1. DOMAIN acts = {1, 2} /\ acts[1] = g /\ acts[2] = m
      BY <2>4
    <3>2. /\ (CHOOSE i \in DOMAIN acts : acts[i].file = "scaling_governor") = 1
          /\ (CHOOSE i \in DOMAIN acts : acts[i].file = "scaling_max_freq") = 2
      BY <1>3, <3>1
    <3> QED
      BY <1>3, <3>1, <3>2
  <2>5. \/ acts = <<>> /\ cpu.governor = governor /\ cpu.scaling_max_khz = ceiling
        \/ acts = <<m>> /\ cpu.governor = governor
        \/ acts = <<g>> /\ cpu.scaling_max_khz = ceiling
        \/ acts = <<g, m>>
    BY <1>4
  <2> QED
    BY <2>1, <2>2, <2>3, <2>4, <2>5
<1> HIDE DEF target
<1>6. After(cpu, acts) = At(cpu, governor, ceiling)
  BY <1>2, <1>5 DEF At
<1> QED
  BY <1>6 DEF acts

\* Without an action the host stays as it is.
LEMMA AfterNothing ==
  ASSUME NEW cpu, IsSnapshot(cpu)
  PROVE  After(cpu, <<>>) = cpu
<1>1. ActionsTo(cpu, cpu.governor, cpu.scaling_max_khz) = <<>>
  BY ActionsShape
<1> QED
  BY <1>1, AfterActions, AtIsHost

-------------------------------------------------------------------------------
(* Planning for rest *)

\* What is known of a host for which nothing speaks against rest.
LEMMA RestIsKnown ==
  ASSUME NEW cpu, IsSnapshot(cpu), RestState(cpu).blockers = {}
  PROVE  /\ cpu.cpufreq_available /\ cpu.governor # None
         /\ RestGovernor \in cpu.available_governors
         /\ {cpu.hardware_min_khz, cpu.hardware_max_khz, cpu.scaling_max_khz} \subseteq Int
         /\ RestCeiling(cpu) \in Int
         /\ RestState(cpu) = [mode |-> "rest", blockers |-> {}, governor |-> RestGovernor,
                              scaling_max_khz |-> RestCeiling(cpu)]
<1>1. /\ cpu.cpufreq_available /\ cpu.governor # None
      /\ RestGovernor \in cpu.available_governors
      /\ None \notin {cpu.hardware_min_khz, cpu.hardware_max_khz}
      /\ cpu.scaling_max_khz # None
  BY DEF RestState, Reason
<1>2. {cpu.hardware_min_khz, cpu.hardware_max_khz, cpu.scaling_max_khz} \subseteq Int
  BY <1>1 DEF IsSnapshot, Frequencies
<1>3. RestCeiling(cpu) \in Int
  BY <1>2 DEF RestCeiling, Lower, Higher, REST_CPU_MAX_PERCENT
<1>4. RestState(cpu) = [mode |-> "rest", blockers |-> {}, governor |-> RestGovernor,
                        scaling_max_khz |-> RestCeiling(cpu)]
  BY DEF RestState
<1> QED
  BY <1>1, <1>2, <1>3, <1>4

\* A plan that has an action is that for rest, and nothing speaks against it.
LEMMA ChangesPlanned ==
  ASSUME NEW cpu, IsSnapshot(cpu), NEW intent, NEW record,
         plan_changes(cpu, desired_state(cpu, intent), record).actions # <<>>
  PROVE  /\ RestState(cpu).blockers = {}
         /\ ChangeBlockers(cpu, RestState(cpu), record) = {}
         /\ plan_changes(cpu, desired_state(cpu, intent), record)
              = Plan(ActionsTo(cpu, RestGovernor, RestCeiling(cpu)), {}, {})
<1> DEFINE desired == desired_state(cpu, intent)
           p == plan_changes(cpu, desired, record)
<1>1. desired.blockers = {} /\ desired.mode = "rest"
  BY DEF plan_changes, Refusal, Plan
<1>2. desired = RestState(cpu)
  BY <1>1 DEF desired_state, Undirected
<1>3. /\ p = Plan(ActionsTo(cpu, desired.governor, desired.scaling_max_khz), {}, {})
      /\ ChangeBlockers(cpu, desired, record) = {}
  BY <1>1 DEF plan_changes, Refusal, Plan
<1>4. /\ RestState(cpu).governor = RestGovernor
      /\ RestState(cpu).scaling_max_khz = RestCeiling(cpu)
  BY <1>1, <1>2, RestIsKnown
<1> QED
  BY <1>1, <1>2, <1>3, <1>4

\* The ceiling of rest is a fixpoint.
LEMMA CeilingSettles ==
  ASSUME NEW cpu, IsSnapshot(cpu), RestState(cpu).blockers = {}, NEW governor
  PROVE  RestCeiling(At(cpu, governor, RestCeiling(cpu))) = RestCeiling(cpu)
<1> DEFINE ceiling == RestCeiling(cpu)
           h == At(cpu, governor, ceiling)
           share == (cpu.hardware_max_khz * REST_CPU_MAX_PERCENT) \div 100
           goal == Higher(cpu.hardware_min_khz, Lower(share, cpu.hardware_max_khz))
<1>1. {cpu.hardware_min_khz, cpu.hardware_max_khz, cpu.scaling_max_khz} \subseteq Int
  BY RestIsKnown
<1>2. ceiling = Lower(goal, cpu.scaling_max_khz)
  BY DEF RestCeiling
<1>3. share \in Int
  BY <1>1 DEF REST_CPU_MAX_PERCENT
<1>4. /\ h.hardware_min_khz = cpu.hardware_min_khz
      /\ h.hardware_max_khz = cpu.hardware_max_khz
      /\ h.scaling_max_khz = ceiling
  BY AtIsHost
<1> HIDE DEF h, ceiling
<1>5. RestCeiling(h) = Lower(goal, ceiling)
  BY <1>4 DEF RestCeiling
<1> HIDE DEF share
<1>6. goal \in Int
  BY <1>1, <1>3 DEF Higher, Lower
<1> HIDE DEF goal
<1>7. Lower(goal, ceiling) = ceiling
  BY <1>1, <1>2, <1>6 DEF Lower
<1> QED
  BY <1>5, <1>7 DEF h, ceiling

\* A host at rest asks for nothing.
LEMMA RestSettles ==
  ASSUME NEW cpu, IsSnapshot(cpu), RestState(cpu).blockers = {}, NEW record
  PROVE  LET h == At(cpu, RestGovernor, RestCeiling(cpu))
         IN  /\ IsSnapshot(h)
             /\ plan_changes(h, desired_state(h, "economize"), record) = Refusal({})
<1> DEFINE h == At(cpu, RestGovernor, RestCeiling(cpu))
<1>1. /\ cpu.cpufreq_available /\ RestGovernor \in cpu.available_governors
      /\ {cpu.hardware_min_khz, cpu.hardware_max_khz} \subseteq Int
      /\ RestCeiling(cpu) \in Int
  BY RestIsKnown
<1>2. /\ IsSnapshot(h)
      /\ h.governor = RestGovernor /\ h.scaling_max_khz = RestCeiling(cpu)
      /\ h.cpufreq_available = cpu.cpufreq_available
      /\ h.available_governors = cpu.available_governors
      /\ h.hardware_min_khz = cpu.hardware_min_khz
      /\ h.hardware_max_khz = cpu.hardware_max_khz
  <2> DEFINE ceiling == RestCeiling(cpu)
  <2>1. ceiling \in Int
    BY <1>1
  <2> HIDE DEF ceiling
  <2>2. h = At(cpu, RestGovernor, ceiling)
    BY DEF ceiling
  <2> HIDE DEF h
  <2>3. /\ IsSnapshot(h)
        /\ h.governor = RestGovernor /\ h.scaling_max_khz = ceiling
        /\ h.cpufreq_available = cpu.cpufreq_available
        /\ h.available_governors = cpu.available_governors
        /\ h.hardware_min_khz = cpu.hardware_min_khz
        /\ h.hardware_max_khz = cpu.hardware_max_khz
    BY <2>1, <2>2, AtIsHost
  <2> QED
    BY <2>3 DEF ceiling
<1>3. RestCeiling(h) = RestCeiling(cpu)
  BY CeilingSettles
<1> HIDE DEF h
<1>4. RestState(h).blockers = {}
  BY <1>1, <1>2, PlanCycleAssumption DEF RestState, Reason
<1>5. /\ RestState(h).mode = "rest" /\ RestState(h).governor = RestGovernor
      /\ RestState(h).scaling_max_khz = RestCeiling(h)
  BY <1>2, <1>4, RestIsKnown
<1>6. desired_state(h, "economize") = RestState(h)
  BY DEF desired_state
<1>7. ActionsTo(h, RestGovernor, RestCeiling(h)) = <<>>
  BY <1>2, <1>3, ActionsShape
<1>8. plan_changes(h, desired_state(h, "economize"), record) = Refusal({})
  BY <1>4, <1>5, <1>6, <1>7 DEF plan_changes
<1> QED
  BY <1>2, <1>8 DEF h

-------------------------------------------------------------------------------
(* Planning the way back *)

\* A plan to restore that is not refused leads to what the record holds.
LEMMA RestorePlanned ==
  ASSUME NEW cpu, NEW record, ~blocked(plan_restore(cpu, record))
  PROVE  /\ record # None /\ RestoreBlockers(cpu, record) = {}
         /\ plan_restore(cpu, record).actions
              = ActionsTo(cpu, record.governor, record.scaling_max_khz)
BY DEF plan_restore, blocked, Refusal, Plan

\* A host that holds what the record holds asks for nothing.
LEMMA RestoreSettles ==
  ASSUME NEW cpu, IsSnapshot(cpu), NEW record, record # None,
         record.governor # None, record.scaling_max_khz \in Int,
         RestoreBlockers(cpu, record) = {}
  PROVE  plan_restore(At(cpu, record.governor, record.scaling_max_khz), record) = Refusal({})
<1> DEFINE h == At(cpu, record.governor, record.scaling_max_khz)
<1>1. /\ h.governor = record.governor /\ h.scaling_max_khz = record.scaling_max_khz
      /\ h.node = cpu.node /\ h.cpufreq_available = cpu.cpufreq_available
      /\ h.hardware_min_khz = cpu.hardware_min_khz
      /\ h.hardware_max_khz = cpu.hardware_max_khz
      /\ h.scaling_min_khz = cpu.scaling_min_khz
  BY AtIsHost
<1> HIDE DEF h
<1>2. /\ record.node = cpu.node /\ cpu.cpufreq_available /\ ~RangeDiffers(cpu, record)
      /\ ~BelowFloor(cpu, record.scaling_max_khz)
  BY DEF RestoreBlockers, Reason
<1>3. ~RangeDiffers(h, record) /\ ~BelowFloor(h, record.scaling_max_khz)
  BY <1>1, <1>2 DEF RangeDiffers, BelowFloor
<1>4. h.scaling_max_khz # None
  BY <1>1, PlanCycleAssumption
<1>5. RestoreBlockers(h, record) = {}
  BY <1>1, <1>2, <1>3, <1>4 DEF RestoreBlockers, Reason
<1>6. ActionsTo(h, record.governor, record.scaling_max_khz) = <<>>
  BY <1>1, ActionsShape
<1>7. plan_restore(h, record) = Refusal({})
  BY <1>5, <1>6 DEF plan_restore, Refusal
<1> QED
  BY <1>7 DEF h

-------------------------------------------------------------------------------
(* PlanInductive is inductive *)

LEMMA PlanStarts == Init => PlanInductive
<1> SUFFICES ASSUME Init PROVE PlanInductive
  OBVIOUS
<1>1. IsSnapshot(host)
  BY PlanCycleAssumption DEF Init
<1> QED
  BY <1>1 DEF Init, PlanInductive, RecordIsConsistent, RestIsPlanned, Idle

LEMMA SavedKeeps ==
  ASSUME PlanInductive, SaveOriginal
  PROVE  PlanInductive'
<1>1. RecordIsConsistent'
  <2>1. CASE ~Recordable(host)
    BY <2>1 DEF SaveOriginal, original_state_from, RecordIsConsistent
  <2>2. CASE Recordable(host)
    <3>1. /\ original'.governor = host.governor
          /\ original'.scaling_min_khz = host.scaling_min_khz
          /\ original'.scaling_max_khz = host.scaling_max_khz
          /\ original'.hardware_min_khz = host.hardware_min_khz
          /\ original'.hardware_max_khz = host.hardware_max_khz
      BY <2>2 DEF SaveOriginal, original_state_from
    <3>2. host.governor # None /\ Frequencies(host) \subseteq Int /\ Consistent(host)
      BY <2>2 DEF Recordable, PlanInductive, IsSnapshot, Frequencies
    <3> QED
      BY <3>1, <3>2 DEF RecordIsConsistent, Frequencies, Consistent
  <2> QED
    BY <2>1, <2>2
<1> QED
  BY <1>1 DEF SaveOriginal, PlanInductive, RestIsPlanned, Idle

LEMMA OutsideKeeps ==
  ASSUME PlanInductive, Outside
  PROVE  PlanInductive'
<1>1. PICK s \in Snapshots, field \in DOMAIN host : host' = [host EXCEPT ![field] = s[field]]
  BY DEF Outside
<1>2. IsSnapshot(s) /\ IsSnapshot(host)
  BY PlanCycleAssumption DEF PlanInductive
<1>3. DOMAIN host = Fields /\ DOMAIN host' = Fields
  BY <1>1, <1>2 DEF IsSnapshot
<1>4. host' = [f \in Fields |-> host'[f]]
  BY <1>1, <1>3
<1>5. \A f \in Fields : host'[f] \in {host[f], s[f]}
  BY <1>1, <1>3
<1>6. host'.cpufreq_available \in BOOLEAN /\ Frequencies(host)' \subseteq Int \union {None}
  <2>1. /\ host'.cpufreq_available \in {host.cpufreq_available, s.cpufreq_available}
        /\ host'.hardware_min_khz \in {host.hardware_min_khz, s.hardware_min_khz}
        /\ host'.hardware_max_khz \in {host.hardware_max_khz, s.hardware_max_khz}
        /\ host'.scaling_min_khz \in {host.scaling_min_khz, s.scaling_min_khz}
        /\ host'.scaling_max_khz \in {host.scaling_max_khz, s.scaling_max_khz}
    BY <1>5 DEF Fields
  <2> QED
    BY <1>2, <2>1 DEF IsSnapshot, Frequencies
<1>7. IsSnapshot(host)'
  BY <1>4, <1>6 DEF IsSnapshot, Frequencies
<1> QED
  BY <1>7 DEF Outside, PlanInductive, RecordIsConsistent, RestIsPlanned, Idle

LEMMA PlannedKeeps ==
  ASSUME PlanInductive, NEW intent, PlanChanges(intent)
  PROVE  PlanInductive'
<1>1. /\ plan' = plan_changes(host, desired_state(host, intent), original)
      /\ phase' = "planned" /\ UNCHANGED <<host, original>>
  BY DEF PlanChanges
<1>2. IsSnapshot(host)
  BY DEF PlanInductive
<1>3. plan'.actions # <<>> =>
        /\ RestState(host).blockers = {}
        /\ ChangeBlockers(host, RestState(host), original) = {}
        /\ plan' = Plan(ActionsTo(host, RestGovernor, RestCeiling(host)), {}, {})
  BY <1>1, <1>2, ChangesPlanned
<1> QED
  BY <1>1, <1>3 DEF PlanInductive, RecordIsConsistent, RestIsPlanned, Idle

LEMMA GuardedKeeps ==
  ASSUME PlanInductive, NEW age \in Ages, NEW activity \in Activities, Guard(age, activity)
  PROVE  PlanInductive'
<1>1. /\ phase = "planned" /\ phase' = "guarded" /\ UNCHANGED <<host, original>>
      /\ plan' = guard_plan(plan, age, activity)
      /\ guarded'.age = age /\ guarded'.activity = activity
  BY DEF Guard
<1>2. ASSUME plan'.actions # <<>>
      PROVE  /\ plan' = plan /\ plan.actions # <<>>
             /\ blocked(plan) \/ (GuardBlockers(age, activity) = {}
                                 /\ GuardDeferrals(activity) = {})
  BY <1>1, <1>2 DEF guard_plan, Plan
<1>3. plan.actions # <<>> => ~blocked(plan)
  BY <1>1 DEF PlanInductive, RestIsPlanned, blocked, Plan
<1> QED
  BY <1>1, <1>2, <1>3 DEF PlanInductive, RecordIsConsistent, RestIsPlanned, Idle

\* What economizing leaves: the host as it was, or the host at rest.
LEMMA Economized ==
  ASSUME PlanInductive, Economize
  PROVE  \/ host' = host
         \/ /\ RestState(host).blockers = {}
            /\ ChangeBlockers(host, RestState(host), original) = {}
            /\ host' = At(host, RestGovernor, RestCeiling(host))
<1>1. phase = "guarded" /\ host' = After(host, plan.actions) /\ IsSnapshot(host)
  BY DEF Economize, PlanInductive
<1>2. CASE plan.actions = <<>>
  BY <1>1, <1>2, AfterNothing
<1>3. CASE plan.actions # <<>>
  <2>1. /\ RestState(host).blockers = {}
        /\ ChangeBlockers(host, RestState(host), original) = {}
        /\ plan.actions = ActionsTo(host, RestGovernor, RestCeiling(host))
    BY <1>1, <1>3 DEF PlanInductive, RestIsPlanned, Plan
  <2>2. After(host, plan.actions) = At(host, RestGovernor, RestCeiling(host))
    BY <1>1, <2>1, AfterActions
  <2> QED
    BY <1>1, <2>1, <2>2
<1> QED
  BY <1>2, <1>3

\* What restoring leaves: the host with the values of the record.
LEMMA Returned ==
  ASSUME PlanInductive, Restore
  PROVE  /\ original # None /\ RestoreBlockers(host, original) = {}
         /\ original.governor # None /\ Frequencies(original) \subseteq Int
         /\ Consistent(original)
         /\ host' = At(host, original.governor, original.scaling_max_khz)
<1>1. /\ plan = plan_restore(host, original) /\ ~blocked(plan)
      /\ host' = After(host, plan.actions) /\ IsSnapshot(host)
  BY DEF Restore, PlanInductive
<1>2. /\ original # None /\ RestoreBlockers(host, original) = {}
      /\ plan.actions = ActionsTo(host, original.governor, original.scaling_max_khz)
  BY <1>1, RestorePlanned
<1>3. host' = At(host, original.governor, original.scaling_max_khz)
  BY <1>1, <1>2, AfterActions
<1> QED
  BY <1>2, <1>3 DEF PlanInductive, RecordIsConsistent

LEMMA DrivenKeeps ==
  ASSUME PlanInductive, Economize \/ Restore
  PROVE  PlanInductive'
<1>1. IsSnapshot(host)
  BY DEF PlanInductive
<1>2. IsSnapshot(host)'
  <2>1. CASE Economize
    BY <1>1, <2>1, Economized, RestSettles
  <2>2. CASE Restore
    <3>1. original.scaling_max_khz \in Int
      BY <2>2, Returned DEF Frequencies
    <3> QED
      BY <1>1, <2>2, <3>1, Returned, AtIsHost
  <2> QED
    BY <2>1, <2>2
<1> QED
  BY <1>2 DEF Economize, Restore, PlanInductive, RecordIsConsistent, RestIsPlanned, Idle

LEMMA PlanKeeps == PlanInductive /\ [Next]_vars => PlanInductive'
<1> SUFFICES ASSUME PlanInductive, [Next]_vars PROVE PlanInductive'
  OBVIOUS
<1>1. CASE UNCHANGED vars
  BY <1>1 DEF vars, PlanInductive, IsSnapshot, Frequencies, RecordIsConsistent, RestIsPlanned
<1>2. CASE Decline
  BY <1>2 DEF Decline, PlanInductive, RecordIsConsistent, RestIsPlanned, Idle
<1>3. CASE PlanRestore
  BY <1>3 DEF PlanRestore, PlanInductive, RecordIsConsistent, RestIsPlanned, Idle
<1> QED
  BY <1>1, <1>2, <1>3, SavedKeeps, OutsideKeeps, PlannedKeeps, GuardedKeeps, DrivenKeeps
  DEF Next

(***************************************************************************)
(* PlanInductive holds in every state.                                     *)
(***************************************************************************)
THEOREM PlanAlwaysInductive == Spec => []PlanInductive
BY PlanStarts, PlanKeeps, PTL DEF Spec

-------------------------------------------------------------------------------
(* What is let through, and where it leads *)

\* What the guards let through was asked of a fresh snapshot of an idle node.
LEMMA GuardsPass ==
  ASSUME NEW age \in Ages, NEW activity \in Activities,
         GuardBlockers(age, activity) = {}, GuardDeferrals(activity) = {}
  PROVE  /\ age \in -CLOCK_SKEW_SECONDS..MAX_SNAPSHOT_AGE_SECONDS
         /\ activity = [ssh_sessions |-> 0, protected_running |-> {}]
<1>1. /\ ~(age < -CLOCK_SKEW_SECONDS) /\ ~(age > MAX_SNAPSHOT_AGE_SECONDS)
      /\ activity.ssh_sessions # None /\ activity.protected_running # None
  BY DEF GuardBlockers, Reason
<1>2. /\ activity.ssh_sessions \in {None, 0} /\ activity.protected_running \in {None, {}}
  BY DEF GuardDeferrals, Reason
<1>3. age \in Int
  BY PlanCycleAssumption
<1>4. activity.ssh_sessions = 0 /\ activity.protected_running = {}
  BY <1>1, <1>2
<1>5. activity = [ssh_sessions |-> activity.ssh_sessions,
                  protected_running |-> activity.protected_running]
  BY PlanCycleAssumption DEF IsActivity
<1> QED
  BY <1>1, <1>3, <1>4, <1>5 DEF CLOCK_SKEW_SECONDS, MAX_SNAPSHOT_AGE_SECONDS

\* Every action of a plan for rest is from a known value to a known value.
LEMMA ActionsKnown ==
  ASSUME NEW cpu, IsSnapshot(cpu), RestState(cpu).blockers = {},
         NEW i \in DOMAIN ActionsTo(cpu, RestGovernor, RestCeiling(cpu))
  PROVE  LET action == ActionsTo(cpu, RestGovernor, RestCeiling(cpu))[i]
         IN  None \notin {action.expected, action.target}
<1> DEFINE ceiling == RestCeiling(cpu)
           g == Step("scaling_governor", cpu.governor, RestGovernor)
           m == Step("scaling_max_freq", cpu.scaling_max_khz, ceiling)
           acts == ActionsTo(cpu, RestGovernor, ceiling)
<1>1. None \notin {g.expected, g.target} /\ None \notin {m.expected, m.target}
  <2>1. cpu.governor # None /\ cpu.scaling_max_khz \in Int /\ ceiling \in Int
    BY RestIsKnown
  <2> HIDE DEF ceiling
  <2> QED
    BY <2>1, PlanCycleAssumption DEF Step
<1>2. acts \in {<<>>, <<g>>, <<m>>, <<g, m>>}
  <2> HIDE DEF ceiling
  <2> QED
    BY ActionsShape
<1> HIDE DEF g, m, acts
<1>3. acts[i] \in {g, m}
  <2>1. i \in DOMAIN acts
    BY DEF acts
  <2>2. CASE acts = <<>>
    BY <2>1, <2>2
  <2>3. CASE acts = <<g>>
    BY <2>1, <2>3
  <2>4. CASE acts = <<m>>
    BY <2>1, <2>4
  <2>5. CASE acts = <<g, m>>
    BY <2>1, <2>5
  <2> QED
    BY <1>2, <2>2, <2>3, <2>4, <2>5
<1> QED
  BY <1>1, <1>3 DEF acts

(***************************************************************************)
(* "Unknown is not safe" (docs/ARCHITECTURE.md): a plan that survived the  *)
(* guards rests on nothing unknown, on a record of this node and this      *)
(* hardware, and on a fresh snapshot of an idle node, whatever the host,   *)
(* the record and the activity are (_rest_state, _blockers, guard_plan).   *)
(***************************************************************************)
THEOREM UnknownIsNeverSafe == Spec => []UnknownIsNotSafe
<1>1. PlanInductive => UnknownIsNotSafe
  <2> SUFFICES ASSUME PlanInductive, phase = "guarded", plan.actions # <<>>
               PROVE  /\ host.cpufreq_available /\ host.scaling_min_khz # None
                      /\ \A i \in DOMAIN plan.actions :
                           None \notin {plan.actions[i].expected, plan.actions[i].target}
                      /\ original # None /\ original.node = host.node
                      /\ ~RangeDiffers(host, original)
                      /\ guarded.age \in -CLOCK_SKEW_SECONDS..MAX_SNAPSHOT_AGE_SECONDS
                      /\ guarded.activity = [ssh_sessions |-> 0, protected_running |-> {}]
    BY DEF UnknownIsNotSafe
  <2>1. /\ IsSnapshot(host) /\ RestState(host).blockers = {}
        /\ ChangeBlockers(host, RestState(host), original) = {}
        /\ plan.actions = ActionsTo(host, RestGovernor, RestCeiling(host))
        /\ guarded.age \in Ages /\ guarded.activity \in Activities
        /\ GuardBlockers(guarded.age, guarded.activity) = {}
        /\ GuardDeferrals(guarded.activity) = {}
    BY DEF PlanInductive, RestIsPlanned, Plan
  <2>2. host.cpufreq_available
    BY <2>1, RestIsKnown
  <2>3. \A i \in DOMAIN plan.actions :
          None \notin {plan.actions[i].expected, plan.actions[i].target}
    BY <2>1, ActionsKnown
  <2>4. /\ host.scaling_min_khz # None
        /\ original # None /\ original.node = host.node /\ ~RangeDiffers(host, original)
    BY <2>1 DEF ChangeBlockers, Reason
  <2> QED
    BY <2>1, <2>2, <2>3, <2>4, GuardsPass
<1> QED
  BY <1>1, PlanAlwaysInductive, PTL

(***************************************************************************)
(* A node that was just put to rest is at rest: planning again finds       *)
(* nothing to do and nothing to refuse (engine.py, plan.py).               *)
(***************************************************************************)
THEOREM RestAlwaysSettles == Spec => RestIsSettled
<1>1. PlanInductive /\ [Next]_vars =>
        [(Economize /\ host' # host) =>
           plan_changes(host', desired_state(host', "economize"), original) = Refusal({})]_vars
  <2> SUFFICES ASSUME PlanInductive, Economize, host' # host
               PROVE  plan_changes(host', desired_state(host', "economize"), original)
                        = Refusal({})
    OBVIOUS
  <2>1. /\ IsSnapshot(host) /\ RestState(host).blockers = {}
        /\ host' = At(host, RestGovernor, RestCeiling(host))
    BY Economized DEF PlanInductive
  <2> QED
    BY <2>1, RestSettles
<1> QED
  BY <1>1, PlanAlwaysInductive, PTL DEF Spec, RestIsSettled

(***************************************************************************)
(* Once a node was put to rest the way back is open and leads exactly to   *)
(* the recorded values, unless the floor lies above the recorded ceiling   *)
(* (plan_restore).                                                         *)
(***************************************************************************)
THEOREM WayBackStaysOpen == Spec => WayBack
<1>1. PlanInductive /\ [Next]_vars =>
        [(Economize /\ host' # host) =>
           LET back == plan_restore(host', original)
               home == After(host', back.actions)
           IN  \/ original.scaling_max_khz < host'.scaling_min_khz
               \/ /\ ~blocked(back)
                  /\ home.governor = original.governor
                  /\ home.scaling_max_khz = original.scaling_max_khz]_vars
  <2> DEFINE back == plan_restore(host', original)
             home == After(host', back.actions)
  <2> SUFFICES ASSUME PlanInductive, Economize, host' # host,
                      ~(original.scaling_max_khz < host'.scaling_min_khz)
               PROVE  /\ ~blocked(back)
                      /\ home.governor = original.governor
                      /\ home.scaling_max_khz = original.scaling_max_khz
    OBVIOUS
  <2>1. /\ IsSnapshot(host) /\ RestState(host).blockers = {}
        /\ ChangeBlockers(host, RestState(host), original) = {}
        /\ host' = At(host, RestGovernor, RestCeiling(host))
    BY Economized DEF PlanInductive
  <2>2. original # None /\ original.node = host.node /\ ~RangeDiffers(host, original)
    BY <2>1 DEF ChangeBlockers, Reason
  <2>3. host.cpufreq_available /\ RestCeiling(host) \in Int
    BY <2>1, RestIsKnown
  <2>4. /\ host'.governor = RestGovernor /\ host'.scaling_max_khz = RestCeiling(host)
        /\ host'.node = host.node /\ host'.cpufreq_available = host.cpufreq_available
        /\ host'.hardware_min_khz = host.hardware_min_khz
        /\ host'.hardware_max_khz = host.hardware_max_khz
        /\ IsSnapshot(host')
    <3> DEFINE ceiling == RestCeiling(host)
    <3> HIDE DEF ceiling
    <3>1. host' = At(host, RestGovernor, ceiling) /\ ceiling \in Int
      BY <2>1, <2>3 DEF ceiling
    <3>2. /\ host'.governor = RestGovernor /\ host'.scaling_max_khz = ceiling
          /\ host'.node = host.node /\ host'.cpufreq_available = host.cpufreq_available
          /\ host'.hardware_min_khz = host.hardware_min_khz
          /\ host'.hardware_max_khz = host.hardware_max_khz
          /\ IsSnapshot(host')
      BY <2>1, <3>1, AtIsHost
    <3> QED
      BY <3>2 DEF ceiling
  <2>5. RestoreBlockers(host', original) = {}
    <3>1. ~BelowFloor(host', original.scaling_max_khz)
      BY DEF BelowFloor
    <3>2. ~RangeDiffers(host', original)
      BY <2>2, <2>4 DEF RangeDiffers
    <3>3. host'.governor # None /\ host'.scaling_max_khz # None
      BY <2>3, <2>4, PlanCycleAssumption
    <3> QED
      BY <2>2, <2>3, <2>4, <3>1, <3>2, <3>3 DEF RestoreBlockers, Reason
  <2>6. /\ ~blocked(back)
        /\ back.actions = ActionsTo(host', original.governor, original.scaling_max_khz)
    BY <2>2, <2>5 DEF plan_restore, blocked, Plan
  <2>7. home = At(host', original.governor, original.scaling_max_khz)
    BY <2>4, <2>6, AfterActions
  <2>8. home.governor = original.governor /\ home.scaling_max_khz = original.scaling_max_khz
    <3> HIDE DEF home
    <3> QED
      BY <2>4, <2>7, AtIsHost
  <2> QED
    BY <2>6, <2>8
<1> QED
  BY <1>1, PlanAlwaysInductive, PTL DEF Spec, WayBack

(***************************************************************************)
(* A restore that is carried out leaves the ceiling within the range of    *)
(* the hardware and not below the floor, and nothing left to restore       *)
(* (plan_restore).                                                         *)
(***************************************************************************)
THEOREM RestoreAlwaysInRange == Spec => RestoreLandsInRange
<1>1. PlanInductive /\ [Next]_vars =>
        [Restore =>
           /\ host'.scaling_min_khz = None \/ host'.scaling_max_khz >= host'.scaling_min_khz
           /\ host'.scaling_max_khz <= host'.hardware_max_khz
           /\ plan_restore(host', original) = Refusal({})]_vars
  <2> SUFFICES ASSUME PlanInductive, Restore
               PROVE  /\ \/ host'.scaling_min_khz = None
                         \/ host'.scaling_max_khz >= host'.scaling_min_khz
                      /\ host'.scaling_max_khz <= host'.hardware_max_khz
                      /\ plan_restore(host', original) = Refusal({})
    OBVIOUS
  <2> DEFINE ceiling == original.scaling_max_khz
  <2>1. /\ IsSnapshot(host) /\ original # None /\ RestoreBlockers(host, original) = {}
        /\ original.governor # None /\ Frequencies(original) \subseteq Int
        /\ Consistent(original) /\ host' = At(host, original.governor, ceiling)
    BY Returned DEF PlanInductive
  <2>2. /\ host'.scaling_max_khz = ceiling
        /\ host'.scaling_min_khz = host.scaling_min_khz
        /\ host'.hardware_max_khz = host.hardware_max_khz
    BY <2>1, AtIsHost
  <2>3. ~RangeDiffers(host, original) /\ ~BelowFloor(host, ceiling)
    BY <2>1 DEF RestoreBlockers, Reason
  <2>4. ceiling \in Int /\ ceiling <= host.hardware_max_khz
    BY <2>1, <2>3 DEF Consistent, RangeDiffers, Frequencies
  <2>5. \/ host.scaling_min_khz = None
        \/ host.scaling_min_khz \in Int /\ ceiling >= host.scaling_min_khz
    BY <2>1, <2>3, <2>4 DEF BelowFloor, IsSnapshot, Frequencies
  <2>6. plan_restore(host', original) = Refusal({})
    BY <2>1, <2>4, RestoreSettles
  <2> QED
    BY <2>2, <2>4, <2>5, <2>6
<1> QED
  BY <1>1, PlanAlwaysInductive, PTL DEF Spec, RestoreLandsInRange
===============================================================================
