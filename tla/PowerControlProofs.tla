-------------------------- MODULE PowerControlProofs --------------------------
(***************************************************************************)
(* Proofs about PowerControl, for any number of commands, CPUs, policies,  *)
(* faults and crashes: first what holds however the commands overlap, then *)
(* what is guaranteed while they do not.  There Init establishes           *)
(* Inductive, every step keeps it, and the properties follow.              *)
(*                                                                         *)
(* The argument for the trail, for hosts of any number of policies.  While *)
(* the trail tells nothing (~Torn), the host is whole, as it was found or  *)
(* economized, or one driver is between two whole hosts: the one it found, *)
(* since it checks every file before its first write, and the one its plan *)
(* leads to (ApplyLeadsToWhole, RestoreLeadsToWhole).  It ends in one of   *)
(* the two (HostIsBefore, HostIsAfter), or dies with its intent on record, *)
(* or records that it could not roll back; and what the trail tells it     *)
(* keeps telling (TornStays).  One fault is never enough for it to tell of *)
(* a rollback that is incomplete (FaultsCounted), so that a record retired *)
(* too soon takes a crash or a second fault.                               *)
(***************************************************************************)
EXTENDS PowerControlInvariant, SequenceTheorems, TLAPS

-------------------------------------------------------------------------------
(* The host, the snapshot and the driver's loops *)

\* A host is one function per file.
LEMMA HostShape ==
  \A s : s \in Hosts <=>
    /\ s = PerFile(s["scaling_governor"], s["scaling_max_freq"])
    /\ s["scaling_governor"] \in [Policies -> Governors]
    /\ s["scaling_max_freq"] \in [Policies -> Ceilings]
BY DEF Hosts, PerFile, Files

\* Reading and writing one policy's file of a host.
LEMMA HostFiles ==
  ASSUME NEW s \in Hosts, NEW f \in Files, NEW p \in Policies
  PROVE  /\ DOMAIN s = Files
         /\ s[f] \in [Policies -> ValuesOf(f)]
         /\ \A v \in ValuesOf(f) : [s EXCEPT ![f][p] = v] \in Hosts
<1>1. /\ s = PerFile(s["scaling_governor"], s["scaling_max_freq"])
      /\ s["scaling_governor"] \in [Policies -> Governors]
      /\ s["scaling_max_freq"] \in [Policies -> Ceilings]
  BY HostShape
<1>2. DOMAIN s = Files
  BY <1>1 DEF PerFile
<1>3. s[f] \in [Policies -> ValuesOf(f)]
  BY <1>1 DEF ValuesOf, Files
<1>4. ASSUME NEW v \in ValuesOf(f) PROVE [s EXCEPT ![f][p] = v] \in Hosts
  <2> DEFINE t == [s EXCEPT ![f][p] = v]
  <2>1. t = [g \in Files |-> IF g = f THEN [s[f] EXCEPT ![p] = v] ELSE s[g]]
    BY <1>2
  <2>2. [s[f] EXCEPT ![p] = v] \in [Policies -> ValuesOf(f)]
    BY <1>3
  <2>3. /\ t["scaling_governor"] \in [Policies -> Governors]
        /\ t["scaling_max_freq"] \in [Policies -> Ceilings]
    BY <1>1, <2>1, <2>2 DEF Files, ValuesOf
  <2>4. t = PerFile(t["scaling_governor"], t["scaling_max_freq"])
    BY <2>1 DEF PerFile, Files
  <2> QED
    BY <2>3, <2>4, HostShape
<1> QED
  BY <1>2, <1>3, <1>4

LEMMA ReadingShape ==
  \A s : s \in Readings <=>
    /\ s = PerFile(s["scaling_governor"], s["scaling_max_freq"])
    /\ s["scaling_governor"] \in Governors \cup {None}
    /\ s["scaling_max_freq"] \in Ceilings \cup {None}
BY DEF Readings, PerFile, Files

LEMMA LeadIsPolicy == Lead \in Policies /\ \A k \in CPU : PolicyOf[k] \in Policies
BY PowerControlAssumption DEF Lead, Policies, CPU

\* One step of the loops stays among the CPUs, and next to the plan.
LEMMA LoopSteps ==
  ASSUME NEW n \in 1..2, NEW p \in [action : 0..3, cpu : CPU], p.action \in 1..n
  PROVE  /\ Following(p) \in [action : 0..3, cpu : CPU]
         /\ Following(p).action \in 1..3
         /\ Preceding(p) \in [action : 0..3, cpu : CPU]
         /\ Preceding(p).action \in 0..n
BY PowerControlAssumption DEF Following, Preceding, CPU

LEMMA LoopStart == First \in [action : 0..3, cpu : CPU] /\ First.action = 1
BY PowerControlAssumption DEF First, CPU

-------------------------------------------------------------------------------
(* Plans *)

\* What ActionsTo lists: the files whose value differs from the one wanted.
Leads(actions, current, goal) ==
  /\ Len(actions) \in 0..2
  /\ DOMAIN actions = 1..Len(actions)
  /\ actions = <<>> <=> Len(actions) = 0
  /\ \A i \in DOMAIN actions :
       /\ actions[i].file \in Files
       /\ actions[i].expected = current[actions[i].file]
       /\ actions[i].target = goal[actions[i].file]
  /\ \A i, j \in DOMAIN actions : i # j => actions[i].file # actions[j].file
  /\ \A f \in Files : current[f] # goal[f] => \E i \in DOMAIN actions : actions[i].file = f

LEMMA ActionsLead ==
  ASSUME NEW cpu, NEW governor, NEW ceiling
  PROVE  Leads(ActionsTo(cpu, governor, ceiling),
               PerFile(cpu.governor, cpu.scaling_max_khz), PerFile(governor, ceiling))
<1> DEFINE a == [file |-> "scaling_governor", expected |-> cpu.governor, target |-> governor]
           b == [file |-> "scaling_max_freq", expected |-> cpu.scaling_max_khz, target |-> ceiling]
           s == ActionsTo(cpu, governor, ceiling)
           same == cpu.governor = governor
           equal == cpu.scaling_max_khz = ceiling
<1>1. CASE same /\ equal
  <2>1. s = <<>>
    BY <1>1 DEF ActionsTo, Change
  <2> QED
    BY <1>1, <2>1 DEF Leads, PerFile, Files
<1>2. CASE ~same /\ equal
  <2>1. s = <<a>>
    BY <1>2 DEF ActionsTo, Change
  <2> QED
    BY <1>2, <2>1 DEF Leads, PerFile, Files
<1>3. CASE same /\ ~equal
  <2>1. s = <<b>>
    BY <1>3 DEF ActionsTo, Change
  <2> QED
    BY <1>3, <2>1 DEF Leads, PerFile, Files
<1>4. CASE ~same /\ ~equal
  <2>1. s = <<a>> \o <<b>>
    BY <1>4 DEF ActionsTo, Change
  <2>2. <<a>> \in Seq({a, b}) /\ <<b>> \in Seq({a, b})
    OBVIOUS
  <2>3. s \in Seq({a, b}) /\ Len(s) = 2 /\ s[1] = a /\ s[2] = b
    BY <2>1, <2>2, ConcatProperties
  <2>4. DOMAIN s = {1, 2}
    BY <2>3
  <2>5. \A i \in DOMAIN s :
          /\ s[i].file = IF i = 1 THEN "scaling_governor" ELSE "scaling_max_freq"
          /\ s[i].expected = IF i = 1 THEN cpu.governor ELSE cpu.scaling_max_khz
          /\ s[i].target = IF i = 1 THEN governor ELSE ceiling
    BY <2>3, <2>4
  <2>6. Len(s) \in 0..2 /\ DOMAIN s = 1..Len(s) /\ (s = <<>> <=> Len(s) = 0)
    <3>1. DOMAIN s = 1..Len(s)
      BY <2>3, <2>4
    <3>2. s # <<>>
      BY <2>1, <2>2, ConcatEqualIffEmpty
    <3> QED
      BY <2>3, <3>1, <3>2
  <2>7. \A f \in Files : \E i \in DOMAIN s : s[i].file = f
    BY <2>4, <2>5 DEF Files
  <2> QED
    BY <2>3, <2>4, <2>5, <2>6, <2>7 DEF Leads, PerFile, Files
<1> QED
  BY <1>1, <1>2, <1>3, <1>4

\* Between values the files can hold, that is a plan.
LEMMA LeadsShape ==
  ASSUME NEW actions, NEW current, NEW goal, Leads(actions, current, goal),
         \A f \in Files : current[f] \in ValuesOf(f) /\ goal[f] \in ValuesOf(f)
  PROVE  PlanShape(actions)
BY DEF Leads, PlanShape

\* A refusal has no actions.
LEMMA RefusalShape ==
  \A blockers : Refusal(blockers).actions = <<>> /\ PlanShape(Refusal(blockers).actions)
BY DEF Refusal, Plan, PlanShape

\* A snapshot knows what was read of the two files.
LEMMA SnapshotReads ==
  \A s : s \in Readings =>
    PerFile(SnapshotOf(s).governor, SnapshotOf(s).scaling_max_khz) = s
BY ReadingShape DEF SnapshotOf

\* plan_changes refuses, has nothing to do, or leads from what was read to the
\* state of rest, and then there is a record.
LEMMA PlanChangesCases ==
  ASSUME NEW s \in Readings, NEW intent, NEW record
  PROVE  LET cpu == SnapshotOf(s)
             p == plan_changes(cpu, desired_state(cpu, intent), record)
         IN  \/ p.actions = <<>>
             \/ /\ ~blocked(p)
                /\ record # None
                /\ \A f \in Files : s[f] # None
                /\ RestCeiling(cpu) \in Ceilings
                /\ Leads(p.actions, s, PerFile(RestGovernor, RestCeiling(cpu)))
<1> DEFINE cpu == SnapshotOf(s)
           d == desired_state(cpu, intent)
           p == plan_changes(cpu, d, record)
<1>1. CASE d.blockers # {} \/ d.mode # "rest"
  BY <1>1, RefusalShape DEF plan_changes
<1>2. CASE d.blockers = {} /\ d.mode = "rest"
  <2>1. d = RestState(cpu)
    BY <1>2 DEF desired_state, Undirected
  <2>2. /\ cpu.governor # None /\ cpu.scaling_max_khz # None
        /\ None \notin {cpu.hardware_min_khz, cpu.hardware_max_khz}
        /\ d.governor = RestGovernor /\ d.scaling_max_khz = RestCeiling(cpu)
    BY <1>2, <2>1 DEF RestState, Reason
  <2>3. \A f \in Files : s[f] # None
    BY <2>2 DEF SnapshotOf, Files
  <2>4. RestCeiling(cpu) \in Ceilings
    BY <2>2, PowerControlAssumption DEF SnapshotOf
  <2>5. Leads(ActionsTo(cpu, RestGovernor, RestCeiling(cpu)), s,
              PerFile(RestGovernor, RestCeiling(cpu)))
    BY ActionsLead, SnapshotReads
  <2>6. CASE ActionsTo(cpu, RestGovernor, RestCeiling(cpu)) = <<>>
    BY <1>2, <2>2, <2>6, RefusalShape DEF plan_changes
  <2>7. CASE ActionsTo(cpu, RestGovernor, RestCeiling(cpu)) # <<>> /\ ChangeBlockers(cpu, d, record) # {}
    BY <1>2, <2>2, <2>7, RefusalShape DEF plan_changes
  <2>8. CASE ActionsTo(cpu, RestGovernor, RestCeiling(cpu)) # <<>> /\ ChangeBlockers(cpu, d, record) = {}
    <3>1. p = Plan(ActionsTo(cpu, RestGovernor, RestCeiling(cpu)), {}, {})
      BY <1>2, <2>2, <2>8 DEF plan_changes
    <3>2. record # None
      BY <2>8 DEF ChangeBlockers, Reason
    <3> QED
      BY <2>3, <2>4, <2>5, <3>1, <3>2 DEF Plan, blocked
  <2> QED
    BY <2>6, <2>7, <2>8
<1> QED
  BY <1>1, <1>2

\* guard_plan leaves a plan as it is, or refuses it.
LEMMA GuardPlanCases ==
  ASSUME NEW p, NEW age, NEW activity
  PROVE  \/ guard_plan(p, age, activity) = p
         \/ /\ guard_plan(p, age, activity).actions = <<>>
            /\ blocked(guard_plan(p, age, activity))
BY DEF guard_plan, Plan, blocked

\* plan_restore refuses, or leads from what was read to what the record says.
LEMMA PlanRestoreCases ==
  ASSUME NEW s \in Readings, NEW record
  PROVE  LET p == plan_restore(SnapshotOf(s), record)
         IN  \/ p.actions = <<>> /\ blocked(p)
             \/ /\ ~blocked(p)
                /\ record # None
                /\ \A f \in Files : s[f] # None
                /\ Leads(p.actions, s, PerFile(record.governor, record.scaling_max_khz))
<1> DEFINE cpu == SnapshotOf(s)
           p == plan_restore(cpu, record)
<1>1. CASE record = None
  BY <1>1 DEF plan_restore, Refusal, Plan, blocked
<1>2. CASE record # None /\ RestoreBlockers(cpu, record) # {}
  BY <1>2 DEF plan_restore, Refusal, Plan, blocked
<1>3. CASE record # None /\ RestoreBlockers(cpu, record) = {}
  <2>1. p = Plan(ActionsTo(cpu, record.governor, record.scaling_max_khz), {}, {})
    BY <1>3 DEF plan_restore
  <2>2. cpu.governor # None /\ cpu.scaling_max_khz # None
    BY <1>3 DEF RestoreBlockers, Reason
  <2>3. \A f \in Files : s[f] # None
    BY <2>2 DEF SnapshotOf, Files
  <2> QED
    BY <1>3, <2>1, <2>3, ActionsLead, SnapshotReads DEF Plan, blocked
<1> QED
  BY <1>1, <1>2, <1>3

-------------------------------------------------------------------------------
(* Type correctness *)

LEMMA TypeInit == Init => TypeOK
<1> SUFFICES ASSUME Init PROVE TypeOK
  OBVIOUS
<1>1. HostTyped
  BY PowerControlAssumption DEF Init, HostTyped
<1>2. PerFile(None, None) \in Readings /\ First \in [action : 0..3, cpu : CPU]
  BY LoopStart DEF Readings
<1>3. NoResult \in [applied : BOOLEAN, error : BOOLEAN, rolled_back : BOOLEAN]
  BY DEF NoResult, Result
<1>4. CommandsTyped
  BY <1>2, <1>3, RefusalShape DEF Init, CommandsTyped, Labels, Ended, Operations
<1>5. DriverInPlan
  BY DEF Init, DriverInPlan
<1> QED
  BY <1>1, <1>4, <1>5 DEF TypeOK

\* A process that ends leaves its variables as a new one finds them.
LEMMA TypeExit ==
  ASSUME TypeOK, NEW c \in Commands, NEW label \in {"done", "crashed"}, Exit(c, label)
  PROVE  CommandsTyped' /\ DriverInPlan'
<1>1. PerFile(None, None) \in Readings /\ First \in [action : 0..3, cpu : CPU]
  BY LoopStart DEF Readings
<1>2. NoResult \in [applied : BOOLEAN, error : BOOLEAN, rolled_back : BOOLEAN]
  BY DEF NoResult, Result
<1>3. CommandsTyped'
  BY <1>1, <1>2, RefusalShape DEF TypeOK, CommandsTyped, Exit, Goto, Labels, Ended, Operations
<1>4. DriverInPlan'
  BY DEF TypeOK, CommandsTyped, DriverInPlan, Exit, Goto
<1> QED
  BY <1>3, <1>4

LEMMA TypeStart ==
  ASSUME TypeOK, NEW c \in Commands, Start(c)
  PROVE  TypeOK'
BY DEF TypeOK, HostTyped, CommandsTyped, DriverInPlan, Start, Goto, Labels, Ended, Operations

LEMMA TypeCollect ==
  ASSUME TypeOK, NEW c \in Commands, CollectGovernor(c) \/ CollectCeiling(c)
  PROVE  TypeOK'
<1>1. PICK file \in Files, next \in {"ceiling", "database"} : Collect(c, file, next)
  BY DEF CollectGovernor, CollectCeiling, Files
<1>2. sysfs[file][Lead] \in ValuesOf(file)
  BY HostFiles, LeadIsPolicy DEF TypeOK, HostTyped
<1>3. \A v \in {sysfs[file][Lead], None} : [seen EXCEPT ![c][file] = v] \in [Commands -> Readings]
  <2> SUFFICES ASSUME NEW v \in {sysfs[file][Lead], None}
               PROVE  [seen[c] EXCEPT ![file] = v] \in Readings
    BY DEF TypeOK, CommandsTyped
  <2>1. seen[c] \in Readings /\ v \in ValuesOf(file) \cup {None}
    BY <1>2 DEF TypeOK, CommandsTyped
  <2> QED
    BY <2>1, ReadingShape DEF PerFile, ValuesOf, Files
<1>4. seen' \in [Commands -> Readings]
  BY <1>1, <1>3 DEF Collect
<1>5. faults' \in 0..MaxFaults
  BY <1>1, PowerControlAssumption DEF Collect, Fault, NoFault, TypeOK, HostTyped
<1> QED
  BY <1>1, <1>4, <1>5
     DEF TypeOK, HostTyped, CommandsTyped, DriverInPlan, Collect, Goto, Labels, Ended

LEMMA TypeSaveOriginal ==
  ASSUME TypeOK, NEW c \in Commands, SaveOriginal(c)
  PROVE  TypeOK'
<1> DEFINE record == original_state_from(SnapshotOf(seen[c]))
<1>1. seen[c] \in Readings
  BY DEF TypeOK, CommandsTyped
<1>2. record # None => record.governor \in Governors /\ record.scaling_max_khz \in Ceilings
  BY <1>1, ReadingShape DEF original_state_from, Recordable, SnapshotOf
<1>3. original' \in {original, record}
  BY DEF SaveOriginal, Inserted
<1>4. HostTyped'
  BY <1>2, <1>3 DEF TypeOK, HostTyped, SaveOriginal
<1> QED
  BY <1>4, TypeExit DEF SaveOriginal, TypeOK

\* A plan between values that were read and values of the state of rest, or of
\* the record, is a plan the driver can carry out.
LEMMA TypePlan ==
  ASSUME TypeOK, NEW c \in Commands, NEW goal, NEW actions, NEW label \in {"guard", "execute"},
         \/ actions = <<>>
         \/ /\ Leads(actions, seen[c], goal)
            /\ \A f \in Files : seen[c][f] # None /\ goal[f] \in ValuesOf(f),
         plan'[c].actions = actions,
         plan' = [plan EXCEPT ![c] = plan'[c]],
         pc[c] \notin {"drift", "write", "verify", "undone", "undo"},
         Goto(c, label),
         UNCHANGED <<sysfs, original, audit, op, seen, at, failed, result, faults, baseline>>
  PROVE  TypeOK'
<1>1. PlanShape(actions)
  <2>1. CASE actions = <<>>
    BY <2>1, RefusalShape
  <2>2. CASE actions # <<>>
    <3>1. \A f \in Files : seen[c][f] \in ValuesOf(f)
      BY <2>2, ReadingShape DEF TypeOK, CommandsTyped, ValuesOf, Files
    <3> QED
      BY <2>2, <3>1, LeadsShape
  <2> QED
    BY <2>1, <2>2
<1>2. CommandsTyped'
  BY <1>1 DEF TypeOK, CommandsTyped, Goto, Labels, Ended
<1>3. DriverInPlan'
  BY DEF TypeOK, CommandsTyped, DriverInPlan, Goto
<1> QED
  BY <1>2, <1>3 DEF TypeOK, HostTyped

LEMMA TypePlanApply ==
  ASSUME TypeOK, NEW c \in Commands, NEW intent, PlanApply(c, intent)
  PROVE  TypeOK'
<1> DEFINE cpu == SnapshotOf(seen[c])
           p == plan_changes(cpu, desired_state(cpu, intent), original)
           goal == PerFile(RestGovernor, RestCeiling(cpu))
<1>1. seen[c] \in Readings
  BY DEF TypeOK, CommandsTyped
<1>2. \/ p.actions = <<>>
      \/ /\ Leads(p.actions, seen[c], goal)
         /\ \A f \in Files : seen[c][f] # None
         /\ RestCeiling(cpu) \in Ceilings
  BY <1>1, PlanChangesCases
<1>3. RestCeiling(cpu) \in Ceilings => \A f \in Files : goal[f] \in ValuesOf(f)
  BY PowerControlAssumption DEF PerFile, ValuesOf, Files
<1>4. plan' = [plan EXCEPT ![c] = p] /\ plan'[c] = p
  BY DEF PlanApply, TypeOK, CommandsTyped
<1> HIDE DEF p, goal, cpu
<1> QED
  BY <1>2, <1>3, <1>4, TypePlan DEF PlanApply

LEMMA TypeGuardApply ==
  ASSUME TypeOK, NEW c \in Commands, NEW age, NEW activity, GuardApply(c, age, activity)
  PROVE  TypeOK'
<1> DEFINE p == guard_plan(plan[c], age, activity)
<1>1. p.actions = plan[c].actions \/ p.actions = <<>>
  BY GuardPlanCases
<1>2. PlanShape(p.actions)
  BY <1>1, RefusalShape DEF TypeOK, CommandsTyped
<1>3. plan' = [plan EXCEPT ![c] = p]
  BY DEF GuardApply
<1> HIDE DEF p
<1>4. CommandsTyped'
  BY <1>2, <1>3 DEF TypeOK, CommandsTyped, GuardApply, Goto, Labels, Ended
<1>5. DriverInPlan'
  BY <1>3 DEF TypeOK, CommandsTyped, DriverInPlan, GuardApply, Goto
<1> QED
  BY <1>4, <1>5 DEF TypeOK, HostTyped, GuardApply

LEMMA TypePlanRestore ==
  ASSUME TypeOK, NEW c \in Commands, PlanRestore(c)
  PROVE  TypeOK'
<1> DEFINE p == plan_restore(SnapshotOf(seen[c]), original)
           goal == PerFile(original.governor, original.scaling_max_khz)
<1>1. seen[c] \in Readings
  BY DEF TypeOK, CommandsTyped
<1>2. \/ p.actions = <<>>
      \/ /\ Leads(p.actions, seen[c], goal)
         /\ \A f \in Files : seen[c][f] # None
         /\ original # None
  BY <1>1, PlanRestoreCases
<1>3. original # None => \A f \in Files : goal[f] \in ValuesOf(f)
  BY DEF TypeOK, HostTyped, PerFile, ValuesOf, Files
<1>4. plan' = [plan EXCEPT ![c] = p] /\ plan'[c] = p
  BY DEF PlanRestore, TypeOK, CommandsTyped
<1> HIDE DEF p, goal
<1> QED
  BY <1>2, <1>3, <1>4, TypePlan DEF PlanRestore

\* The steps of execute_plan that only move on.
LEMMA TypeExecute ==
  ASSUME TypeOK, NEW c \in Commands,
         Refuse(c) \/ Begin(c) \/ Skip(c) \/ Drive(c) \/ Outcome(c) \/ Retire(c) \/ AuditRetired(c)
  PROVE  TypeOK'
<1>1. CASE Refuse(c)
  BY <1>1, TypeExit DEF Refuse, TypeOK, HostTyped
<1>2. CASE Begin(c) \/ Skip(c) \/ Retire(c)
  BY <1>2 DEF TypeOK, HostTyped, CommandsTyped, DriverInPlan, Begin, Skip, Retire, Goto, Labels, Ended
<1>3. CASE Drive(c)
  <2>1. First \in [action : 0..3, cpu : CPU] /\ First.action = 1
    BY LoopStart
  <2>2. 1 \in DOMAIN plan[c].actions
    BY <1>3 DEF Drive, TypeOK, CommandsTyped, PlanShape
  <2> QED
    BY <1>3, <2>1, <2>2
       DEF TypeOK, HostTyped, CommandsTyped, DriverInPlan, Drive, Goto, Labels, Ended
<1>4. CASE Outcome(c) /\ Restored(c)
  BY <1>4 DEF TypeOK, HostTyped, CommandsTyped, DriverInPlan, Outcome, Goto, Labels, Ended
<1>5. CASE Outcome(c) /\ ~Restored(c)
  BY <1>5, TypeExit DEF Outcome, TypeOK, HostTyped
<1>6. CASE AuditRetired(c)
  BY <1>6, TypeExit DEF AuditRetired, TypeOK, HostTyped
<1> QED
  BY <1>1, <1>2, <1>3, <1>4, <1>5, <1>6

LEMMA TypeCrash ==
  ASSUME TypeOK, NEW c \in Commands, Crash(c)
  PROVE  TypeOK'
BY TypeExit DEF Crash, TypeOK, HostTyped

\* What a driver at work can count on: the action it stands on is in its plan.
LEMMA DriverStands ==
  ASSUME TypeOK, NEW c \in Commands,
         \/ pc[c] \in {"drift", "write", "verify", "undone"}
         \/ pc[c] = "undo" /\ at[c].action > 0
  PROVE  /\ at[c] \in [action : 0..3, cpu : CPU]
         /\ at[c].action \in 1..Len(plan[c].actions)
         /\ Len(plan[c].actions) \in 1..2
         /\ at[c].action \in DOMAIN plan[c].actions
         /\ ActionAt(c).file \in Files
         /\ ActionAt(c).expected \in ValuesOf(ActionAt(c).file)
         /\ ActionAt(c).target \in ValuesOf(ActionAt(c).file)
         /\ PolicyAt(c) \in Policies
<1>1. at[c] \in [action : 0..3, cpu : CPU] /\ PlanShape(plan[c].actions)
  BY DEF TypeOK, CommandsTyped
<1>2. at[c].action \in 1..Len(plan[c].actions)
  BY <1>1 DEF TypeOK, DriverInPlan, PlanShape
<1> QED
  BY <1>1, <1>2, LeadIsPolicy DEF PlanShape, ActionAt, PolicyAt

\* The bound on faults is kept by every step.
LEMMA FaultsBounded ==
  ASSUME TypeOK, Fault \/ NoFault
  PROVE  faults' \in 0..MaxFaults
BY PowerControlAssumption DEF TypeOK, HostTyped, Fault, NoFault

LEMMA TypeDrift ==
  ASSUME TypeOK, NEW c \in Commands, Agrees(c) \/ Drifted(c)
  PROVE  TypeOK'
<1>1. /\ at[c] \in [action : 0..3, cpu : CPU]
      /\ at[c].action \in 1..Len(plan[c].actions) /\ Len(plan[c].actions) \in 1..2
      /\ DOMAIN plan[c].actions = 1..Len(plan[c].actions)
  BY DriverStands DEF Agrees, Drifted, TypeOK, CommandsTyped, PlanShape
<1>2. CASE Agrees(c)
  <2> DEFINE next == Following(at[c])
             last == next.action > Len(plan[c].actions)
  <2>1. /\ next \in [action : 0..3, cpu : CPU] /\ next.action \in 1..3
        /\ First \in [action : 0..3, cpu : CPU] /\ First.action = 1
    BY <1>1, LoopSteps, LoopStart
  <2>2. at' = [at EXCEPT ![c] = IF last THEN First ELSE next]
    BY <1>2 DEF Agrees
  <2>3. pc' = [pc EXCEPT ![c] = IF last THEN "write" ELSE "drift"]
    BY <1>2 DEF Agrees, Goto
  <2>4. HostTyped' /\ faults' = faults
    BY <1>2, FaultsBounded DEF Agrees, TypeOK, HostTyped
  <2> HIDE DEF next
  <2>5. CommandsTyped'
    BY <1>2, <2>1, <2>2, <2>3 DEF Agrees, TypeOK, CommandsTyped, Labels, Ended
  <2>6. DriverInPlan'
    BY <1>1, <1>2, <2>1, <2>2, <2>3 DEF Agrees, TypeOK, CommandsTyped, DriverInPlan
  <2> QED
    BY <2>4, <2>5, <2>6 DEF TypeOK
<1>3. CASE Drifted(c)
  <2>1. faults' \in 0..MaxFaults
    BY <1>3, FaultsBounded DEF Drifted
  <2> QED
    BY <1>3, <2>1 DEF Drifted, TypeOK, HostTyped, CommandsTyped, DriverInPlan, Goto,
                      Labels, Ended, Result
<1> QED
  BY <1>2, <1>3

LEMMA TypeWrite ==
  ASSUME TypeOK, NEW c \in Commands, Write(c) \/ WriteFails(c)
  PROVE  TypeOK'
<1>1. /\ at[c] \in [action : 0..3, cpu : CPU]
      /\ at[c].action \in 1..Len(plan[c].actions) /\ Len(plan[c].actions) \in 1..2
      /\ DOMAIN plan[c].actions = 1..Len(plan[c].actions)
      /\ ActionAt(c).file \in Files
      /\ ActionAt(c).target \in ValuesOf(ActionAt(c).file)
      /\ PolicyAt(c) \in Policies
  BY DriverStands DEF Write, WriteFails, TypeOK, CommandsTyped, PlanShape
<1>2. faults' \in 0..MaxFaults
  BY FaultsBounded DEF Write, WriteFails
<1>3. CASE Write(c)
  <2>1. sysfs' \in Hosts
    <3>1. sysfs \in Hosts
      BY DEF TypeOK, HostTyped
    <3>2. Holds(c, ActionAt(c).target) => sysfs' \in Hosts
      <4>1. [sysfs EXCEPT ![ActionAt(c).file][PolicyAt(c)] = ActionAt(c).target] \in Hosts
        BY <1>1, <3>1, HostFiles, Zenon
      <4> QED
        BY <4>1 DEF Holds
    <3> QED
      BY <1>3, <3>1, <3>2 DEF Write
  <2>2. HostTyped'
    BY <1>2, <1>3, <2>1 DEF Write, TypeOK, HostTyped
  <2>3. CommandsTyped' /\ DriverInPlan'
    BY <1>3 DEF Write, TypeOK, CommandsTyped, DriverInPlan, Goto, Labels, Ended
  <2> QED
    BY <2>2, <2>3 DEF TypeOK
<1>4. CASE WriteFails(c)
  <2> DEFINE before == Preceding(at[c])
  <2>1. before \in [action : 0..3, cpu : CPU] /\ before.action \in 0..Len(plan[c].actions)
    BY <1>1, LoopSteps
  <2>2. at' = [at EXCEPT ![c] = before] /\ pc' = [pc EXCEPT ![c] = "undo"]
    BY <1>4 DEF WriteFails, Goto
  <2> HIDE DEF before
  <2>3. CommandsTyped'
    BY <1>4, <2>1, <2>2 DEF WriteFails, TypeOK, CommandsTyped, Labels, Ended
  <2>4. DriverInPlan'
    BY <1>4, <2>1, <2>2 DEF WriteFails, TypeOK, CommandsTyped, DriverInPlan
  <2> QED
    BY <1>2, <1>4, <2>3, <2>4 DEF WriteFails, TypeOK, HostTyped
<1> QED
  BY <1>3, <1>4

LEMMA TypeVerify ==
  ASSUME TypeOK, NEW c \in Commands, Verified(c) \/ Mismatch(c)
  PROVE  TypeOK'
<1>1. /\ at[c] \in [action : 0..3, cpu : CPU]
      /\ at[c].action \in 1..Len(plan[c].actions) /\ Len(plan[c].actions) \in 1..2
      /\ DOMAIN plan[c].actions = 1..Len(plan[c].actions)
  BY DriverStands DEF Verified, Mismatch, TypeOK, CommandsTyped, PlanShape
<1>2. CASE Verified(c)
  <2> DEFINE next == Following(at[c])
             last == next.action > Len(plan[c].actions)
  <2>1. next \in [action : 0..3, cpu : CPU] /\ next.action \in 1..3
    BY <1>1, LoopSteps
  <2>2. /\ at' = [at EXCEPT ![c] = next]
        /\ pc' = [pc EXCEPT ![c] = IF last THEN "outcome" ELSE "write"]
    BY <1>2 DEF Verified, Goto
  <2>3. result' \in [Commands -> [applied : BOOLEAN, error : BOOLEAN, rolled_back : BOOLEAN]]
    BY <1>2 DEF Verified, TypeOK, CommandsTyped, Result
  <2> HIDE DEF next
  <2>4. CommandsTyped'
    <3>1. at' \in [Commands -> [action : 0..3, cpu : CPU]] /\ pc' \in [Commands -> Labels]
      BY <2>1, <2>2 DEF TypeOK, CommandsTyped, Labels, Ended
    <3>2. UNCHANGED <<op, seen, plan, failed>>
      BY <1>2 DEF Verified
    <3> QED
      BY <2>3, <3>1, <3>2 DEF TypeOK, CommandsTyped
  <2>5. DriverInPlan'
    BY <1>1, <1>2, <2>1, <2>2 DEF Verified, TypeOK, CommandsTyped, DriverInPlan
  <2> QED
    BY <1>2, <2>4, <2>5 DEF Verified, TypeOK, HostTyped
<1>3. CASE Mismatch(c)
  <2>1. faults' \in 0..MaxFaults
    BY <1>3, FaultsBounded DEF Mismatch
  <2> QED
    BY <1>1, <1>3, <2>1 DEF Mismatch, TypeOK, HostTyped, CommandsTyped, DriverInPlan, Goto,
                            Labels, Ended
<1> QED
  BY <1>2, <1>3

LEMMA TypeUndo ==
  ASSUME TypeOK, NEW c \in Commands, Undo(c) \/ UndoFails(c) \/ CheckUndo(c) \/ RolledBack(c)
  PROVE  TypeOK'
<1>1. CASE RolledBack(c)
  BY <1>1 DEF RolledBack, TypeOK, HostTyped, CommandsTyped, DriverInPlan, Goto,
              Labels, Ended, Result
<1>2. CASE Undo(c) \/ UndoFails(c) \/ CheckUndo(c)
  <2>1. /\ at[c] \in [action : 0..3, cpu : CPU]
        /\ at[c].action \in 1..Len(plan[c].actions) /\ Len(plan[c].actions) \in 1..2
        /\ DOMAIN plan[c].actions = 1..Len(plan[c].actions)
        /\ ActionAt(c).file \in Files
        /\ ActionAt(c).expected \in ValuesOf(ActionAt(c).file)
        /\ PolicyAt(c) \in Policies
    BY <1>2, DriverStands DEF Undo, UndoFails, CheckUndo, TypeOK, CommandsTyped, PlanShape
  <2>2. faults' \in 0..MaxFaults
    BY <1>2, FaultsBounded DEF Undo, UndoFails, CheckUndo
  <2>3. CASE Undo(c)
    <3>1. sysfs \in Hosts /\ (Holds(c, ActionAt(c).expected) \/ sysfs' = sysfs)
      BY <2>3 DEF Undo, TypeOK, HostTyped
    <3>2. sysfs' \in Hosts
      BY <2>1, <3>1, HostFiles DEF Holds
    <3>3. CommandsTyped' /\ DriverInPlan'
      BY <2>1, <2>3 DEF Undo, TypeOK, CommandsTyped, DriverInPlan, Goto, Labels, Ended
    <3> QED
      BY <2>2, <2>3, <3>2, <3>3 DEF Undo, TypeOK, HostTyped
  <2>4. CASE UndoFails(c) \/ CheckUndo(c)
    <3> DEFINE before == Preceding(at[c])
    <3>1. before \in [action : 0..3, cpu : CPU] /\ before.action \in 0..Len(plan[c].actions)
      BY <2>1, LoopSteps
    <3>2. at' = [at EXCEPT ![c] = before] /\ pc' = [pc EXCEPT ![c] = "undo"]
      BY <2>4 DEF UndoFails, CheckUndo, Goto, TypeOK, CommandsTyped
    <3>3. failed' \in [Commands -> BOOLEAN]
      BY <2>4 DEF UndoFails, CheckUndo, TypeOK, CommandsTyped
    <3> HIDE DEF before
    <3>4. CommandsTyped'
      BY <2>4, <3>1, <3>2, <3>3 DEF UndoFails, CheckUndo, TypeOK, CommandsTyped, Labels, Ended
    <3>5. DriverInPlan'
      BY <2>4, <3>1, <3>2 DEF UndoFails, CheckUndo, TypeOK, CommandsTyped, DriverInPlan
    <3> QED
      BY <2>2, <2>4, <3>4, <3>5 DEF UndoFails, CheckUndo, TypeOK, HostTyped
  <2> QED
    BY <1>2, <2>3, <2>4
<1> QED
  BY <1>1, <1>2 DEF Undo, UndoFails, CheckUndo, RolledBack

LEMMA TypeNext == TypeOK /\ [Next]_vars => TypeOK'
<1> SUFFICES ASSUME TypeOK, [Next]_vars PROVE TypeOK'
  OBVIOUS
<1>1. CASE UNCHANGED vars
  BY <1>1 DEF vars, local, TypeOK, HostTyped, CommandsTyped, DriverInPlan
<1>2. ASSUME NEW c \in Commands, Step(c) PROVE TypeOK'
  BY <1>2, TypeCollect, TypeSaveOriginal, TypePlanApply, TypeGuardApply, TypePlanRestore,
     TypeExecute, TypeDrift, TypeWrite, TypeVerify, TypeUndo
     DEF Step
<1> QED
  BY <1>1, <1>2, TypeStart, TypeCrash DEF Next

\* Whatever overlaps, dies or fails, a plan names a file at most once and only
\* values the file can hold, and the driver's loops, forward over the writes and
\* back over the rollback, stay inside the plan and among the CPUs
\* (LinuxCpufreqDriver.apply, _roll_back).
THEOREM TypeCorrect == Spec => []TypeOK
BY TypeInit, TypeNext, PTL DEF Spec

-------------------------------------------------------------------------------
(* However the commands overlap *)

Found0 == [f \in Files |-> baseline[f][Lead]]
RestGoal(s) == PerFile(RestGovernor, RestCeiling(SnapshotOf(s)))

\* What was found of the lead policy is a reading, with nothing unknown.
LEMMA FoundIsReading ==
  ASSUME TypeOK
  PROVE  Found0 \in Readings /\ \A f \in Files : Found0[f] # None
<1>1. \A f \in Files : baseline[f][Lead] \in ValuesOf(f)
  BY HostFiles, LeadIsPolicy DEF TypeOK, HostTyped
<1>2. Found0 = PerFile(Found0["scaling_governor"], Found0["scaling_max_freq"])
  BY DEF Found0, PerFile, Files
<1> QED
  BY <1>1, <1>2, ReadingShape, PowerControlAssumption DEF Found0, ValuesOf, Files

\* The plan that economizing would carry out on the host as it was found.
FirstPlan == plan_changes(SnapshotOf(Found0), desired_state(SnapshotOf(Found0), "economize"),
                          RecordOf(baseline))

\* Economizing leaves the host as it was found, or in the state of rest.
LEMMA EconomizedIs ==
  ASSUME TypeOK, NEW f \in Files
  PROVE  /\ FirstPlan.actions = <<>> =>
              \A p \in Policies : Economized(baseline)[f][p] = baseline[f][p]
         /\ FirstPlan.actions # <<>> =>
              /\ Economized(baseline)[f][Lead] = RestGoal(Found0)[f]
              /\ Alike(baseline) =>
                   \A p \in Policies : Economized(baseline)[f][p] = RestGoal(Found0)[f]
<1> DEFINE acts == FirstPlan.actions
           action == {i \in DOMAIN acts : acts[i].file = f}
<1>1. \A p \in Policies : Economized(baseline)[f][p] =
        IF action = {} THEN baseline[f][p] ELSE acts[CHOOSE i \in action : TRUE].target
  BY DEF Economized, FirstPlan, Found0
<1>2. CASE acts = <<>>
  <2>1. action = {}
    BY <1>2
  <2> QED
    BY <1>1, <1>2, <2>1
<1>3. CASE acts # <<>>
  <2>1. Leads(acts, Found0, RestGoal(Found0))
    BY <1>3, FoundIsReading, PlanChangesCases DEF FirstPlan, RestGoal
  <2> HIDE DEF acts
  <2>2. CASE action = {}
    <3>1. Found0[f] = RestGoal(Found0)[f]
      BY <2>1, <2>2 DEF Leads
    <3> QED
      BY <1>1, <1>3, <2>2, <3>1, LeadIsPolicy DEF Found0, Alike, acts
  <2>3. CASE action # {}
    <3>1. (CHOOSE i \in action : TRUE) \in action
      BY <2>3
    <3>2. acts[CHOOSE i \in action : TRUE].target = RestGoal(Found0)[f]
      BY <2>1, <3>1 DEF Leads
    <3> QED
      BY <1>1, <1>3, <2>3, <3>2, LeadIsPolicy DEF acts
  <2> QED
    BY <2>2, <2>3
<1> QED
  BY <1>2, <1>3

\* A reading with nothing unknown, of a host that economizing leaves as it was found.
LEMMA OnlyReading ==
  ASSUME TypeOK, FirstPlan.actions = <<>>,
         NEW s, OwnReading(baseline, s), \A f \in Files : s[f] # None
  PROVE  s = Found0
<1>1. ASSUME NEW f \in Files PROVE s[f] = Found0[f]
  <2>1. Economized(baseline)[f][Lead] = Found0[f]
    BY EconomizedIs, LeadIsPolicy DEF Found0
  <2> QED
    BY <2>1 DEF OwnReading, Own, Found0
<1>2. s \in Readings /\ Found0 \in Readings
  BY FoundIsReading DEF OwnReading
<1> QED
  BY <1>1, <1>2, ReadingShape DEF Files

\* A ceiling that rest has lowered is not lowered again.
LEMMA RestIsRest ==
  ASSUME NEW s, NEW t, t["scaling_max_freq"] = s["scaling_max_freq"]
                       \/ t["scaling_max_freq"] = RestCeiling(SnapshotOf(s))
  PROVE  RestCeiling(SnapshotOf(t)) = RestCeiling(SnapshotOf(s))
<1> DEFINE share == (Hardware.hardware_max_khz * REST_CPU_MAX_PERCENT) \div 100
           rest == Higher(Hardware.hardware_min_khz, Lower(share, Hardware.hardware_max_khz))
<1>1. \A u : RestCeiling(SnapshotOf(u)) = Lower(rest, u["scaling_max_freq"])
  BY DEF RestCeiling, SnapshotOf
<1> HIDE DEF rest
<1> QED
  BY <1>1 DEF Lower

\* Where apply wants to lead is the state of rest, seen from wherever it starts.
LEMMA RestIsOwn ==
  ASSUME TypeOK, OwnValues, NEW s, OwnReading(baseline, s), NEW intent,
         plan_changes(SnapshotOf(s), desired_state(SnapshotOf(s), intent), original).actions # <<>>
  PROVE  \A f \in Files : RestGoal(s)[f] \in Own(baseline, f)
<1>1. s \in Readings
  BY DEF OwnReading
<1>2. original # None /\ \A f \in Files : s[f] # None
  BY <1>1, PlanChangesCases
<1>3. CASE FirstPlan.actions # <<>>
  <2>1. \A f \in Files : Own(baseline, f) = {Found0[f], RestGoal(Found0)[f]}
    BY <1>3, EconomizedIs DEF Own, Found0
  <2>2. s["scaling_max_freq"] \in {Found0["scaling_max_freq"], RestCeiling(SnapshotOf(Found0))}
    BY <1>2, <2>1 DEF OwnReading, RestGoal, PerFile, Files
  <2>3. RestGoal(s) = RestGoal(Found0)
    BY <2>2, RestIsRest DEF RestGoal
  <2> QED
    BY <2>1, <2>3
<1>4. CASE FirstPlan.actions = <<>>
  <2>1. s = Found0
    BY <1>2, <1>4, OnlyReading
  <2>2. PICK t \in Readings :
          OwnReading(baseline, t) /\ original = original_state_from(SnapshotOf(t))
    BY <1>2 DEF OwnValues, OwnRecord
  <2>3. \A f \in Files : t[f] # None
    BY <1>2, <2>2 DEF original_state_from, Recordable, SnapshotOf, Files
  <2>4. original = RecordOf(baseline)
    BY <1>4, <2>2, <2>3, OnlyReading DEF RecordOf, Found0
  <2>5. desired_state(SnapshotOf(s), intent) = RestState(SnapshotOf(s))
    <3>1. desired_state(SnapshotOf(s), intent).mode = "rest"
      BY DEF plan_changes, Refusal, Plan
    <3> QED
      BY <3>1 DEF desired_state, Undirected
  <2>6. desired_state(SnapshotOf(Found0), "economize") = RestState(SnapshotOf(Found0))
    BY DEF desired_state
  <2> QED
    BY <1>4, <2>1, <2>4, <2>5, <2>6 DEF FirstPlan
<1> QED
  BY <1>3, <1>4

\* A plan that leads from one's own values to one's own is made of one's own.
LEMMA LeadsOwn ==
  ASSUME NEW actions, NEW s, NEW goal, Leads(actions, s, goal),
         \A f \in Files : s[f] \in Own(baseline, f) /\ goal[f] \in Own(baseline, f)
  PROVE  OwnActions(baseline, actions)
BY DEF Leads, OwnActions

LEMMA NoActionsOwn ==
  ASSUME NEW actions, actions = <<>>
  PROVE  OwnActions(baseline, actions)
BY DEF OwnActions

\* An apply and a restore plan only what is nordfir's own.
LEMMA PlansOwn ==
  ASSUME TypeOK, OwnValues, NEW s, OwnReading(baseline, s)
  PROVE  /\ \A intent : OwnActions(baseline,
              plan_changes(SnapshotOf(s), desired_state(SnapshotOf(s), intent), original).actions)
         /\ OwnActions(baseline, plan_restore(SnapshotOf(s), original).actions)
<1>1. s \in Readings /\ \A f \in Files : s[f] # None => s[f] \in Own(baseline, f)
  BY DEF OwnReading
<1>2. ASSUME NEW intent
      PROVE  OwnActions(baseline,
               plan_changes(SnapshotOf(s), desired_state(SnapshotOf(s), intent), original).actions)
  <2> DEFINE p == plan_changes(SnapshotOf(s), desired_state(SnapshotOf(s), intent), original)
  <2>1. CASE p.actions = <<>>
    BY <2>1, NoActionsOwn
  <2>2. CASE p.actions # <<>>
    <3>1. \A f \in Files : RestGoal(s)[f] \in Own(baseline, f)
      BY <2>2, RestIsOwn
    <3>2. Leads(p.actions, s, RestGoal(s)) /\ \A f \in Files : s[f] # None
      BY <1>1, <2>2, PlanChangesCases DEF RestGoal
    <3> QED
      BY <1>1, <3>1, <3>2, LeadsOwn
  <2> QED
    BY <2>1, <2>2
<1>3. OwnActions(baseline, plan_restore(SnapshotOf(s), original).actions)
  <2> DEFINE p == plan_restore(SnapshotOf(s), original)
             goal == PerFile(original.governor, original.scaling_max_khz)
  <2>1. CASE p.actions = <<>>
    BY <2>1, NoActionsOwn
  <2>2. CASE p.actions # <<>>
    <3>1. original # None /\ Leads(p.actions, s, goal) /\ \A f \in Files : s[f] # None
      BY <1>1, <2>2, PlanRestoreCases
    <3>2. PICK t \in Readings :
            OwnReading(baseline, t) /\ original = original_state_from(SnapshotOf(t))
      BY <3>1 DEF OwnValues, OwnRecord
    <3>3. \A f \in Files : t[f] # None /\ goal[f] = t[f]
      BY <3>1, <3>2 DEF original_state_from, Recordable, SnapshotOf, Files, PerFile
    <3>4. \A f \in Files : goal[f] \in Own(baseline, f)
      BY <3>2, <3>3 DEF OwnReading
    <3> QED
      BY <1>1, <3>1, <3>4, LeadsOwn
  <2> QED
    BY <2>1, <2>2
<1> QED
  BY <1>2, <1>3

\* A step that changes at most what one command has seen and plans, or the record.
LEMMA OwnStep ==
  ASSUME OwnValues, NEW c \in Commands, UNCHANGED baseline,
         \A d \in Commands \ {c} : seen'[d] = seen[d] /\ plan'[d] = plan[d],
         OwnReading(baseline, seen'[c]), OwnActions(baseline, plan'[c].actions),
         \A f \in Files, p \in Policies : sysfs'[f][p] \in Own(baseline, f),
         OwnRecord(baseline, original')
  PROVE  OwnValues'
BY DEF OwnValues, Acts

LEMMA OwnNext ==
  ASSUME TypeOK, OwnValues, [Next]_vars
  PROVE  OwnValues'
<1>1. /\ \A d \in Commands : OwnReading(baseline, seen[d]) /\ OwnActions(baseline, plan[d].actions)
      /\ \A f \in Files, p \in Policies : sysfs[f][p] \in Own(baseline, f)
  BY DEF OwnValues, Acts
<1>2. CASE UNCHANGED <<sysfs, original, seen, plan, baseline>>
  BY <1>2 DEF OwnValues, Acts
<1>3. ASSUME NEW c \in Commands, NEW label, Exit(c, label), UNCHANGED <<sysfs, baseline>>,
             original' # None => original' = original
                                 \/ original' = original_state_from(SnapshotOf(seen[c]))
      PROVE  OwnValues'
  <2>1. seen'[c] = PerFile(None, None) /\ plan'[c] = Refusal({})
    BY <1>3 DEF Exit, TypeOK, CommandsTyped
  <2>2. OwnReading(baseline, seen'[c])
    BY <2>1 DEF OwnReading, Readings, PerFile
  <2>3. OwnActions(baseline, plan'[c].actions)
    BY <2>1, NoActionsOwn, RefusalShape
  <2>4. OwnRecord(baseline, original')
    BY <1>1, <1>3 DEF OwnValues, OwnRecord, OwnReading
  <2>5. \A d \in Commands \ {c} : seen'[d] = seen[d] /\ plan'[d] = plan[d]
    BY <1>3 DEF Exit, TypeOK, CommandsTyped
  <2> QED
    BY <1>1, <1>3, <2>2, <2>3, <2>4, <2>5, OwnStep
<1>4. ASSUME NEW c \in Commands, UNCHANGED <<sysfs, original, seen, baseline>>,
             plan' = [plan EXCEPT ![c] = plan'[c]], OwnActions(baseline, plan'[c].actions)
      PROVE  OwnValues'
  <2>1. \A d \in Commands \ {c} : seen'[d] = seen[d] /\ plan'[d] = plan[d]
    BY <1>4 DEF TypeOK, CommandsTyped
  <2> QED
    BY <1>1, <1>4, <2>1, OwnStep DEF OwnValues
<1>5. ASSUME NEW c \in Commands, CollectGovernor(c) \/ CollectCeiling(c) PROVE OwnValues'
  <2>1. PICK file \in Files, next \in {"ceiling", "database"} : Collect(c, file, next)
    BY <1>5 DEF CollectGovernor, CollectCeiling, Files
  <2>2. TypeOK'
    BY <1>5, TypeCollect
  <2>3. seen'[c] \in Readings
    BY <2>2 DEF TypeOK, CommandsTyped
  <2>4. seen[c] \in Readings /\ DOMAIN seen[c] = Files
    BY ReadingShape DEF TypeOK, CommandsTyped, PerFile
  <2>5. \A f \in Files : seen'[c][f] \in {seen[c][f], sysfs[f][Lead], None}
    BY <2>1, <2>4 DEF Collect, TypeOK, CommandsTyped
  <2>6. OwnReading(baseline, seen'[c])
    BY <1>1, <2>3, <2>5, LeadIsPolicy DEF OwnReading
  <2>7. \A d \in Commands \ {c} : seen'[d] = seen[d] /\ plan'[d] = plan[d]
    BY <2>1 DEF Collect, TypeOK, CommandsTyped
  <2>8. UNCHANGED <<sysfs, original, plan, baseline>>
    BY <2>1 DEF Collect
  <2> QED
    BY <1>1, <2>6, <2>7, <2>8, OwnStep DEF OwnValues
<1>6. ASSUME NEW c \in Commands, NEW intent, PlanApply(c, intent) PROVE OwnValues'
  <2>1. plan'[c] = plan_changes(SnapshotOf(seen[c]), desired_state(SnapshotOf(seen[c]), intent),
                                original)
    BY <1>6 DEF PlanApply, TypeOK, CommandsTyped
  <2>2. OwnActions(baseline, plan'[c].actions)
    BY <1>1, <2>1, PlansOwn
  <2> QED
    BY <1>4, <1>6, <2>1, <2>2 DEF PlanApply
<1>7. ASSUME NEW c \in Commands, NEW age, NEW activity, GuardApply(c, age, activity)
      PROVE  OwnValues'
  <2>1. plan'[c] = guard_plan(plan[c], age, activity)
    BY <1>7 DEF GuardApply, TypeOK, CommandsTyped
  <2>2. OwnActions(baseline, plan'[c].actions)
    BY <1>1, <2>1, GuardPlanCases, NoActionsOwn
  <2> QED
    BY <1>4, <1>7, <2>1, <2>2 DEF GuardApply
<1>8. ASSUME NEW c \in Commands, PlanRestore(c) PROVE OwnValues'
  <2>1. plan'[c] = plan_restore(SnapshotOf(seen[c]), original)
    BY <1>8 DEF PlanRestore, TypeOK, CommandsTyped
  <2>2. OwnActions(baseline, plan'[c].actions)
    BY <1>1, <2>1, PlansOwn
  <2> QED
    BY <1>4, <1>8, <2>1, <2>2 DEF PlanRestore
<1>9. ASSUME NEW c \in Commands, Write(c) \/ Undo(c) PROVE OwnValues'
  <2>1. /\ at[c].action \in DOMAIN plan[c].actions
        /\ ActionAt(c).file \in Files /\ PolicyAt(c) \in Policies
    BY <1>9, DriverStands DEF Write, Undo
  <2>2. {ActionAt(c).expected, ActionAt(c).target} \subseteq Own(baseline, ActionAt(c).file)
    BY <1>1, <2>1 DEF OwnActions, ActionAt
  <2>3. PICK v \in {ActionAt(c).expected, ActionAt(c).target} : Holds(c, v) \/ sysfs' = sysfs
    BY <1>9 DEF Write, Undo
  <2>4. DOMAIN sysfs = Files /\ \A f \in Files : DOMAIN sysfs[f] = Policies
    <3>1. sysfs \in Hosts
      BY DEF TypeOK, HostTyped
    <3>2. \A f \in Files : sysfs[f] \in [Policies -> ValuesOf(f)] /\ DOMAIN sysfs = Files
      BY <3>1, HostFiles, LeadIsPolicy
    <3> QED
      BY <3>2 DEF Files
  <2>5. \A f \in Files, p \in Policies :
          sysfs'[f][p] = sysfs[f][p] \/ (f = ActionAt(c).file /\ sysfs'[f][p] = v)
    BY <2>1, <2>3, <2>4 DEF Holds
  <2>6. \A f \in Files, p \in Policies : sysfs'[f][p] \in Own(baseline, f)
    BY <1>1, <2>2, <2>5
  <2>7. UNCHANGED <<original, seen, plan, baseline>>
    BY <1>9 DEF Write, Undo
  <2> QED
    BY <1>1, <2>6, <2>7, OwnStep DEF OwnValues
<1>10. ASSUME NEW c \in Commands, Retire(c) PROVE OwnValues'
  <2>1. original' = None /\ UNCHANGED <<sysfs, seen, plan, baseline>>
    BY <1>10 DEF Retire
  <2> QED
    BY <1>1, <2>1, OwnStep DEF OwnRecord
<1>11. ASSUME NEW c \in Commands, SaveOriginal(c) PROVE OwnValues'
  BY <1>3, <1>11 DEF SaveOriginal, Inserted
<1>12. ASSUME NEW c \in Commands, Refuse(c) \/ AuditRetired(c) \/ Crash(c) \/ Outcome(c)
       PROVE  OwnValues'
  BY <1>2, <1>3, <1>12 DEF Refuse, AuditRetired, Crash, Outcome
<1> QED
  BY <1>2, <1>5, <1>6, <1>7, <1>8, <1>9, <1>10, <1>11, <1>12
  DEF Next, Step, Start, Begin, Skip, Drive, Agrees, Drifted, WriteFails, Verified, Mismatch,
      UndoFails, CheckUndo, RolledBack, vars, local

LEMMA BaselineStays == [Next]_vars => UNCHANGED baseline
<1>1. UNCHANGED vars => UNCHANGED baseline
  BY DEF vars
<1>2. ASSUME NEW c \in Commands, Start(c) \/ Crash(c) PROVE UNCHANGED baseline
  BY <1>2 DEF Start, Crash
<1>3. ASSUME NEW c \in Commands, Step(c) PROVE UNCHANGED baseline
  <2>1. CollectGovernor(c) \/ CollectCeiling(c) \/ SaveOriginal(c) => UNCHANGED baseline
    BY DEF CollectGovernor, CollectCeiling, Collect, SaveOriginal
  <2>2. \/ \E intent \in Intents : PlanApply(c, intent)
        \/ \E age \in Ages, activity \in Activities : GuardApply(c, age, activity)
        \/ PlanRestore(c) \/ Refuse(c)
        => UNCHANGED baseline
    BY DEF PlanApply, GuardApply, PlanRestore, Refuse
  <2>3. Begin(c) \/ Skip(c) \/ Drive(c) \/ Agrees(c) \/ Drifted(c) => UNCHANGED baseline
    BY DEF Begin, Skip, Drive, Agrees, Drifted
  <2>4. Write(c) \/ WriteFails(c) \/ Verified(c) \/ Mismatch(c) => UNCHANGED baseline
    BY DEF Write, WriteFails, Verified, Mismatch
  <2>5. Undo(c) \/ UndoFails(c) \/ CheckUndo(c) \/ RolledBack(c) => UNCHANGED baseline
    BY DEF Undo, UndoFails, CheckUndo, RolledBack
  <2>6. Outcome(c) \/ Retire(c) \/ AuditRetired(c) => UNCHANGED baseline
    BY DEF Outcome, Retire, AuditRetired
  <2> QED
    BY <1>3, <2>1, <2>2, <2>3, <2>4, <2>5, <2>6 DEF Step
<1> QED
  BY <1>1, <1>2, <1>3 DEF Next

LEMMA OwnInit == Init /\ Alike(baseline) => OwnValues
<1> SUFFICES ASSUME Init, Alike(baseline) PROVE OwnValues
  OBVIOUS
<1>1. \A f \in Files, p \in Policies : sysfs[f][p] \in Own(baseline, f)
  BY DEF Init, Alike, Own
<1>2. OwnReading(baseline, PerFile(None, None))
  BY DEF OwnReading, Readings, PerFile
<1>3. \A c \in Commands : OwnReading(baseline, seen[c]) /\ plan[c].actions = <<>>
  BY <1>2, RefusalShape DEF Init
<1>4. OwnRecord(baseline, original)
  BY DEF Init, OwnRecord
<1>5. \A c \in Commands : OwnActions(baseline, Acts(c))
  BY <1>3 DEF OwnActions, Acts
<1> QED
  BY <1>1, <1>3, <1>4, <1>5 DEF OwnValues

\* Whatever overlaps, dies or fails, a file holds what nordfir found in it or the
\* value of the state of rest, for every host whose policies started out alike: no
\* command reads, plans, records, writes or rolls back to anything else
\* (plan_changes, plan_restore, LinuxCpufreqDriver._roll_back).
THEOREM NeverForeign == Spec => []NoForeignValue
<1>1. Init => (Alike(baseline) => OwnValues)
  BY OwnInit
<1>2. TypeOK /\ (Alike(baseline) => OwnValues) /\ [Next]_vars => (Alike(baseline) => OwnValues)'
  <2> SUFFICES ASSUME TypeOK, Alike(baseline) => OwnValues, [Next]_vars, Alike(baseline)'
               PROVE  OwnValues'
    OBVIOUS
  <2>1. UNCHANGED baseline
    BY BaselineStays
  <2> QED
    BY <2>1, OwnNext
<1>3. TypeOK /\ (Alike(baseline) => OwnValues) => NoForeignValue
  <2> SUFFICES ASSUME TypeOK, Alike(baseline), OwnValues, NEW f \in Files, NEW p \in Policies
               PROVE  sysfs[f][p] \in {baseline[f][p], Economized(baseline)[f][p]}
    BY DEF NoForeignValue, Alike
  <2>1. sysfs[f][p] \in Own(baseline, f) /\ baseline[f][p] = baseline[f][Lead]
    BY DEF OwnValues, Alike
  <2>2. Economized(baseline)[f][p] = Economized(baseline)[f][Lead]
    BY <2>1, EconomizedIs, LeadIsPolicy
  <2> QED
    BY <2>1, <2>2 DEF Own
<1> QED
  BY <1>1, <1>2, <1>3, TypeCorrect, PTL DEF Spec

-------------------------------------------------------------------------------
(* While commands do not overlap: the order in which the loops come to a policy *)

LEMMA LoopsAdvance ==
  ASSUME NEW p \in [action : 0..3, cpu : CPU], NEW i \in 1..2, NEW q
  PROVE  /\ ~Past(First, i, q)
         /\ Reached(p, i, q) <=> Past(p, i, q) \/ (i = p.action /\ q = PolicyOf[p.cpu])
         /\ q \in Policies => (Past(Following(p), i, q) <=> Reached(p, i, q))
         /\ q \in Policies => (Reached(Preceding(p), i, q) <=> Past(p, i, q))
<1>1. p.action \in 0..3 /\ p.cpu \in 1..NumCPUs /\ NumCPUs \in Nat \ {0}
  BY PowerControlAssumption DEF CPU
<1>2. ~Covered(q, 0)
  BY DEF Covered
<1>3. \A k \in 1..NumCPUs : Covered(q, k) <=> Covered(q, k - 1) \/ q = PolicyOf[k]
  BY <1>1 DEF Covered
<1>4. q \in Policies => Covered(q, NumCPUs)
  BY DEF Covered, Policies, CPU
<1>5. ~Past(First, i, q)
  BY <1>2 DEF Past, First
<1>6. Reached(p, i, q) <=> Past(p, i, q) \/ (i = p.action /\ q = PolicyOf[p.cpu])
  BY <1>1, <1>3 DEF Past, Reached
<1>7. ASSUME q \in Policies PROVE Past(Following(p), i, q) <=> Reached(p, i, q)
  <2>1. CASE p.cpu < NumCPUs
    BY <1>1, <2>1 DEF Past, Reached, Following
  <2>2. CASE p.cpu = NumCPUs
    BY <1>1, <1>2, <1>4, <1>7, <2>2 DEF Past, Reached, Following
  <2> QED
    BY <1>1, <2>1, <2>2
<1>8. ASSUME q \in Policies PROVE Reached(Preceding(p), i, q) <=> Past(p, i, q)
  <2>1. CASE p.cpu > 1
    BY <1>1, <2>1 DEF Past, Reached, Preceding
  <2>2. CASE p.cpu = 1
    BY <1>1, <1>2, <1>4, <1>8, <2>2 DEF Past, Reached, Preceding
  <2> QED
    BY <1>1, <2>1, <2>2
<1> QED
  BY <1>5, <1>6, <1>7, <1>8

-------------------------------------------------------------------------------
(* Who else is there *)

\* What c does leaves the other commands alone.
Alone(c) ==
  \A d \in Commands : d # c =>
    pc'[d] = pc[d] /\ failed'[d] = failed[d] /\ result'[d] = result[d]

\* A command that does not run knows nothing.
LEMMA IdleForgets ==
  ASSUME NEW d \in Commands, ~Running(d), CommandSound(d)
  PROVE  failed[d] = FALSE /\ result[d] = NoResult
BY DEF Running, Ended, CommandSound, DriverIsAt, ResultSoFar

\* So only what the running command knows is at stake when it takes a step.
LEMMA OthersSound ==
  ASSUME Inductive, NEW c \in Commands, Alone(c),
         Running(c) \/ \A d \in Commands : ~Running(d)
  PROVE  /\ OneAtATime'
         /\ \A d \in Commands : d # c => CommandSound(d)'
<1>1. ASSUME NEW d \in Commands, d # c PROVE ~Running(d)
  BY <1>1 DEF Inductive, OneAtATime
<1>2. ASSUME NEW d \in Commands, d # c PROVE ~Running(d)'
  BY <1>1, <1>2 DEF Running, Alone
<1>3. OneAtATime'
  BY <1>2 DEF OneAtATime
<1>4. ASSUME NEW d \in Commands, d # c PROVE CommandSound(d)'
  <2>1. failed[d] = FALSE /\ result[d] = NoResult
    BY <1>1, <1>4, IdleForgets DEF Inductive
  <2>2. (failed[d] = FALSE)' /\ (result[d] = NoResult)'
    BY <1>4, <2>1 DEF Alone, NoResult, Result
  <2> QED
    BY <1>2, <1>4, <2>2 DEF Running, Ended, CommandSound, SeenIsTrue, PlanIsSound, DriverIsAt,
       ResultSoFar, Planned, Writing, Executing, BeforeWrites, NoResult
<1> QED
  BY <1>3, <1>4

\* A command that ends is sound.
LEMMA ExitSound ==
  ASSUME Inductive, NEW c \in Commands, NEW label \in {"done", "crashed"}, Exit(c, label)
  PROVE  CommandSound(c)' /\ Alone(c)
<1>1. pc'[c] = label /\ failed'[c] = FALSE /\ result'[c] = NoResult
  BY DEF Exit, Goto, Inductive, TypeOK, CommandsTyped
<1>2. CommandSound(c)'
  BY <1>1 DEF CommandSound, SeenIsTrue, PlanIsSound, DriverIsAt, ResultSoFar,
     Planned, Writing, Executing, BeforeWrites, NoResult, Result
<1>3. Alone(c)
  BY DEF Alone, Exit, Goto, Inductive, TypeOK, CommandsTyped
<1> QED
  BY <1>2, <1>3

\* The record and the host are as they were.
LEMMA HostKept ==
  ASSUME Inductive, UNCHANGED <<sysfs, original, baseline>>
  PROVE  RecordIsOriginal' /\ LeadRecoverable'
BY DEF Inductive, RecordIsOriginal, LeadRecoverable, RecordOf, SnapshotOf

\* What one step has to establish.
LEMMA StepSound ==
  ASSUME Inductive, TypeOK', NEW c \in Commands, Alone(c),
         Running(c) \/ \A d \in Commands : ~Running(d),
         CommandSound(c)', RecordIsOriginal', LeadRecoverable'
  PROVE  Inductive'
BY OthersSound DEF Inductive

-------------------------------------------------------------------------------
(* Starting, observing, planning *)

LEMMA SoundStart ==
  ASSUME Inductive, TypeOK', ~Concurrent, NEW c \in Commands, Start(c)
  PROVE  Inductive'
<1>1. \A d \in Commands : ~Running(d)
  BY DEF Start
<1>2. failed[c] = FALSE /\ result[c] = NoResult
  BY <1>1, IdleForgets DEF Inductive
<1>3. pc'[c] = "governor" /\ failed' = failed /\ result' = result
  BY DEF Start, Goto, Inductive, TypeOK, CommandsTyped
<1>4. CommandSound(c)'
  BY <1>2, <1>3 DEF CommandSound, SeenIsTrue, PlanIsSound, DriverIsAt, ResultSoFar,
     Planned, Writing, Executing, BeforeWrites, NoResult, Result
<1>5. Alone(c)
  BY DEF Alone, Start, Goto, Inductive, TypeOK, CommandsTyped
<1> QED
  BY <1>1, <1>4, <1>5, HostKept, StepSound DEF Start

LEMMA SoundCollect ==
  ASSUME Inductive, TypeOK', NEW c \in Commands, CollectGovernor(c) \/ CollectCeiling(c)
  PROVE  Inductive'
<1>1. PICK file \in Files, next \in {"ceiling", "database"} :
        /\ Collect(c, file, next)
        /\ \/ pc[c] = "governor" /\ file = "scaling_governor" /\ next = "ceiling"
           \/ pc[c] = "ceiling" /\ file = "scaling_max_freq" /\ next = "database"
  BY DEF CollectGovernor, CollectCeiling, Files
<1>2. /\ pc' = [pc EXCEPT ![c] = next] /\ pc'[c] = next
      /\ UNCHANGED <<sysfs, original, op, plan, at, failed, result, baseline>>
  BY <1>1 DEF Collect, Goto, Inductive, TypeOK, CommandsTyped
<1>3. CommandSound(c)
  BY DEF Inductive
<1>4. \A f \in Files : seen[c][f] \in {None, sysfs[f][Lead]} \/ f = file =>
        seen'[c][f] \in {None, sysfs[f][Lead]}
  <2>1. seen[c] \in Readings /\ DOMAIN seen[c] = Files /\ c \in DOMAIN seen
    BY ReadingShape DEF Inductive, TypeOK, CommandsTyped, PerFile
  <2> QED
    BY <1>1, <2>1 DEF Collect
<1>5. SeenIsTrue(c)'
  BY <1>1, <1>2, <1>3, <1>4 DEF CommandSound, SeenIsTrue, BeforeWrites, Executing, Writing, Files
<1>6. PlanIsSound(c)' /\ DriverIsAt(c)' /\ ResultSoFar(c)'
  BY <1>1, <1>2, <1>3 DEF CommandSound, PlanIsSound, DriverIsAt, ResultSoFar,
     Planned, Writing, Executing, NoResult, Result
<1>7. Alone(c) /\ Running(c)
  BY <1>1, <1>2 DEF Alone, Running, Ended, Inductive, TypeOK, CommandsTyped
<1> QED
  BY <1>2, <1>5, <1>6, <1>7, HostKept, StepSound DEF CommandSound

\* What is stored is what would be recorded of the host now.
LEMMA RecordsHost ==
  ASSUME Inductive, NEW c \in Commands, SaveOriginal(c), original' # original
  PROVE  original = None /\ original' = RecordOf(sysfs)
<1>1. original = None /\ original' = original_state_from(SnapshotOf(seen[c])) /\ original' # None
  BY DEF SaveOriginal, Inserted
<1>2. \A f \in Files : seen[c][f] \in {None, sysfs[f][Lead]}
  BY DEF SaveOriginal, Inductive, CommandSound, SeenIsTrue, BeforeWrites
<1>3. seen[c] = PerFile(seen[c]["scaling_governor"], seen[c]["scaling_max_freq"])
  BY ReadingShape DEF Inductive, TypeOK, CommandsTyped
<1>4. \A f \in Files : seen[c][f] # None
  BY <1>1 DEF original_state_from, Recordable, SnapshotOf, Files
<1>5. seen[c] = [f \in Files |-> sysfs[f][Lead]]
  BY <1>2, <1>3, <1>4 DEF PerFile, Files
<1> QED
  BY <1>1, <1>5 DEF RecordOf

LEMMA SoundSaveOriginal ==
  ASSUME Inductive, TypeOK', NEW c \in Commands, SaveOriginal(c)
  PROVE  Inductive'
<1>1. CASE original' = original
  BY <1>1, ExitSound, HostKept, StepSound DEF SaveOriginal, Running, Ended
<1>2. CASE original' # original
  <2>1. original = None /\ original' = RecordOf(sysfs)
    BY <1>2, RecordsHost
  <2>2. \A f \in Files : sysfs[f][Lead] = baseline[f][Lead]
    BY <2>1 DEF Inductive, LeadRecoverable
  <2>3. original' = RecordOf(baseline)
    BY <2>1, <2>2 DEF RecordOf
  <2>4. UNCHANGED <<sysfs, baseline>>
    BY DEF SaveOriginal
  <2>5. RecordIsOriginal' /\ LeadRecoverable'
    BY <2>2, <2>3, <2>4 DEF RecordIsOriginal, LeadRecoverable, RecordOf, SnapshotOf
  <2> QED
    BY <2>5, ExitSound, StepSound DEF SaveOriginal, Running, Ended
<1> QED
  BY <1>1, <1>2

\* A step that makes or refuses a plan.
LEMMA SoundPlan ==
  ASSUME Inductive, TypeOK', NEW c \in Commands, pc[c] \in {"database", "guard"},
         pc'[c] \in Planned, Alone(c),
         UNCHANGED <<sysfs, original, baseline, op, seen, failed, result>>,
         PlanIsSound(c)'
  PROVE  Inductive'
<1>1. SeenIsTrue(c)'
  BY DEF Inductive, CommandSound, SeenIsTrue, BeforeWrites, Executing, Writing, Planned
<1>2. DriverIsAt(c)' /\ ResultSoFar(c)'
  BY DEF Inductive, CommandSound, DriverIsAt, ResultSoFar, Planned, NoResult, Result
<1> QED
  BY <1>1, <1>2, HostKept, StepSound DEF CommandSound, Running, Ended

LEMMA SoundPlanApply ==
  ASSUME Inductive, TypeOK', NEW c \in Commands, NEW intent, PlanApply(c, intent)
  PROVE  Inductive'
<1> DEFINE cpu == SnapshotOf(seen[c])
           p == plan_changes(cpu, desired_state(cpu, intent), original)
<1>1. seen[c] \in Readings
  BY DEF Inductive, TypeOK, CommandsTyped
<1>2. p.actions = <<>> \/ (~blocked(p) /\ original # None)
  BY <1>1, PlanChangesCases
<1>3. plan'[c] = p /\ pc'[c] = "guard" /\ Alone(c)
  BY DEF PlanApply, Goto, Alone, Inductive, TypeOK, CommandsTyped
<1> HIDE DEF p, cpu
<1>4. PlanIsSound(c)'
  BY <1>2, <1>3 DEF PlanApply, PlanIsSound, Planned, Executing, Writing, Acts, blocked
<1> QED
  BY <1>3, <1>4, SoundPlan DEF PlanApply, Planned

LEMMA SoundGuardApply ==
  ASSUME Inductive, TypeOK', NEW c \in Commands, NEW age, NEW activity, GuardApply(c, age, activity)
  PROVE  Inductive'
<1> DEFINE p == guard_plan(plan[c], age, activity)
<1>1. p = plan[c] \/ (p.actions = <<>> /\ blocked(p))
  BY GuardPlanCases
<1>2. plan'[c] = p /\ pc'[c] = "execute" /\ Alone(c)
  BY DEF GuardApply, Goto, Alone, Inductive, TypeOK, CommandsTyped
<1>3. PlanIsSound(c)
  BY DEF Inductive, CommandSound
<1> HIDE DEF p
<1>4. PlanIsSound(c)'
  BY <1>1, <1>2, <1>3
     DEF GuardApply, PlanIsSound, Planned, Executing, Writing, Acts, InPlan, Wanted, blocked
<1> QED
  BY <1>2, <1>4, SoundPlan DEF GuardApply, Planned

LEMMA SoundPlanRestore ==
  ASSUME Inductive, TypeOK', NEW c \in Commands, PlanRestore(c)
  PROVE  Inductive'
<1> DEFINE p == plan_restore(SnapshotOf(seen[c]), original)
           goal == PerFile(original.governor, original.scaling_max_khz)
<1>1. seen[c] \in Readings
  BY DEF Inductive, TypeOK, CommandsTyped
<1>2. \/ p.actions = <<>> /\ blocked(p)
      \/ ~blocked(p) /\ original # None /\ Leads(p.actions, seen[c], goal)
  BY <1>1, PlanRestoreCases
<1>3. /\ plan'[c] = p /\ pc'[c] = "execute" /\ Alone(c)
      /\ UNCHANGED <<original, seen>>
  BY DEF PlanRestore, Goto, Alone, Inductive, TypeOK, CommandsTyped
<1>4. \A f \in Files : goal[f] = Wanted(f)
  BY DEF PerFile, Wanted, Files
<1> HIDE DEF p, goal
<1>5. p.actions = <<>> /\ blocked(p) => PlanIsSound(c)'
  BY <1>3 DEF PlanIsSound, Planned, Executing, Writing, Acts, blocked
<1>6. ASSUME ~blocked(p), original # None, Leads(p.actions, seen[c], goal)
      PROVE  PlanIsSound(c)'
  <2>1. \A f \in Files : seen[c][f] # Wanted(f) =>
          \E i \in DOMAIN p.actions : p.actions[i].file = f
    BY <1>4, <1>6 DEF Leads
  <2>2. \A i \in DOMAIN p.actions : p.actions[i].target = Wanted(p.actions[i].file)
    BY <1>4, <1>6 DEF Leads
  <2> QED
    BY <1>3, <1>6, <2>1, <2>2
       DEF PlanIsSound, Planned, Executing, Writing, Acts, InPlan, Wanted, blocked
<1> QED
  BY <1>2, <1>3, <1>5, <1>6, SoundPlan DEF PlanRestore, Planned

-------------------------------------------------------------------------------
(* execute_plan *)

LEMMA SoundEnd ==
  ASSUME Inductive, TypeOK', NEW c \in Commands, Refuse(c) \/ AuditRetired(c) \/ Crash(c)
  PROVE  Inductive'
<1>1. UNCHANGED <<sysfs, original, baseline>> /\ Running(c)
  BY DEF Refuse, AuditRetired, Crash, Running, Ended
<1>2. CommandSound(c)' /\ Alone(c)
  BY ExitSound DEF Refuse, AuditRetired, Crash
<1> QED
  BY <1>1, <1>2, HostKept, StepSound

LEMMA SoundBegin ==
  ASSUME Inductive, TypeOK', NEW c \in Commands, Begin(c) \/ Skip(c)
  PROVE  Inductive'
<1>1. /\ UNCHANGED <<sysfs, original, op, seen, plan, at, failed, result, baseline>>
      /\ \/ pc[c] = "execute" /\ ~blocked(plan[c]) /\ pc'[c] = "driver"
         \/ pc[c] = "driver" /\ pc'[c] = "outcome"
      /\ Alone(c)
  BY DEF Begin, Skip, Goto, Alone, Inductive, TypeOK, CommandsTyped
<1>2. CommandSound(c)
  BY DEF Inductive
<1>3. SeenIsTrue(c)'
  BY <1>1, <1>2 DEF CommandSound, SeenIsTrue, BeforeWrites, Executing, Writing, InPlan, Acts
<1>4. PlanIsSound(c)'
  BY <1>1, <1>2
     DEF CommandSound, PlanIsSound, Planned, Executing, Writing, Acts, InPlan, Wanted, blocked
<1>5. DriverIsAt(c)'
  BY <1>1, <1>2 DEF CommandSound, DriverIsAt, Acts
<1>6. ResultSoFar(c)'
  BY <1>1, <1>2 DEF CommandSound, ResultSoFar, NoResult, Result
<1> QED
  BY <1>1, <1>3, <1>4, <1>5, <1>6, HostKept, StepSound DEF CommandSound, Running, Ended

-------------------------------------------------------------------------------
(* The driver *)

\* A step of the driver that writes nothing leaves what was seen and planned.
LEMMA KnowledgeKept ==
  ASSUME Inductive, NEW c \in Commands, pc[c] \in Executing, pc'[c] \in Executing,
         pc'[c] \in BeforeWrites => pc[c] \in BeforeWrites,
         UNCHANGED <<sysfs, original, op, seen, plan>>
  PROVE  SeenIsTrue(c)' /\ PlanIsSound(c)'
<1>1. CommandSound(c)
  BY DEF Inductive
<1>2. SeenIsTrue(c)'
  BY <1>1 DEF CommandSound, SeenIsTrue, BeforeWrites, Executing, Writing, InPlan, Acts
<1>3. PlanIsSound(c)'
  BY <1>1
     DEF CommandSound, PlanIsSound, Planned, Executing, Writing, Acts, InPlan, Wanted, blocked
<1> QED
  BY <1>2, <1>3

LEMMA ActionsNumbered ==
  ASSUME Inductive, NEW c \in Commands
  PROVE  \A i \in DOMAIN Acts(c) : i \in 1..2
<1>1. PlanShape(Acts(c))
  BY DEF Inductive, TypeOK, CommandsTyped, Acts
<1>2. DOMAIN Acts(c) = 1..Len(Acts(c)) /\ Len(Acts(c)) \in {0, 1, 2}
  BY <1>1 DEF PlanShape
<1> HIDE DEF Acts
<1> QED
  BY <1>2

\* Where a driver at work is, and how its loops go on from there.
LEMMA DriverMoves ==
  ASSUME Inductive, NEW c \in Commands,
         \/ pc[c] \in {"drift", "write", "verify", "undone"}
         \/ pc[c] = "undo" /\ at[c].action > 0
  PROVE  /\ at[c] \in [action : 0..3, cpu : CPU]
         /\ at[c].action \in DOMAIN Acts(c)
         /\ DOMAIN Acts(c) = 1..Len(Acts(c)) /\ Len(Acts(c)) \in 1..2
         /\ PolicyAt(c) = PolicyOf[at[c].cpu] /\ PolicyAt(c) \in Policies
         /\ ActionAt(c) = Acts(c)[at[c].action]
         /\ \A i \in DOMAIN Acts(c), q \in Policies :
              /\ ~Past(First, i, q)
              /\ Reached(at[c], i, q) <=>
                   Past(at[c], i, q) \/ (i = at[c].action /\ q = PolicyAt(c))
              /\ Past(Following(at[c]), i, q) <=> Reached(at[c], i, q)
              /\ Reached(Preceding(at[c]), i, q) <=> Past(at[c], i, q)
<1>1. TypeOK
  BY DEF Inductive
<1>2. /\ at[c] \in [action : 0..3, cpu : CPU]
      /\ at[c].action \in DOMAIN plan[c].actions
      /\ Len(plan[c].actions) \in 1..2
      /\ PolicyAt(c) \in Policies
  BY <1>1, DriverStands
<1>3. DOMAIN Acts(c) = 1..Len(Acts(c))
  BY <1>1 DEF TypeOK, CommandsTyped, PlanShape, Acts
<1>4. \A i \in DOMAIN Acts(c) : i \in 1..2
  BY <1>3, ActionsNumbered DEF Inductive
<1> QED
  BY <1>2, <1>3, <1>4, LoopsAdvance DEF Acts, PolicyAt, ActionAt

\* When the loops have come past the last action they have come to everything.
LEMMA LoopsEnd ==
  ASSUME Inductive, NEW c \in Commands, pc[c] \in {"drift", "verify"},
         Following(at[c]).action > Len(Acts(c))
  PROVE  \A i \in DOMAIN Acts(c), q \in Policies : Reached(at[c], i, q)
<1>1. /\ \A i \in DOMAIN Acts(c), q \in Policies :
           Past(Following(at[c]), i, q) <=> Reached(at[c], i, q)
      /\ DOMAIN Acts(c) = 1..Len(Acts(c)) /\ Len(Acts(c)) \in 1..2
      /\ at[c] \in [action : 0..3, cpu : CPU] /\ at[c].action \in 1..Len(Acts(c))
  BY DriverMoves
<1>2. Following(at[c]).action \in 1..3
  BY <1>1, LoopSteps
<1>3. \A i \in DOMAIN Acts(c), q \in Policies : Past(Following(at[c]), i, q)
  BY <1>1, <1>2 DEF Past
<1> QED
  BY <1>1, <1>3

LEMMA SoundDrive ==
  ASSUME Inductive, TypeOK', NEW c \in Commands, Drive(c)
  PROVE  Inductive'
<1>1. /\ UNCHANGED <<sysfs, original, op, seen, plan, failed, result, baseline>>
      /\ pc[c] = "driver" /\ pc'[c] = "drift" /\ at'[c] = First
      /\ Alone(c)
  BY DEF Drive, Goto, Alone, Inductive, TypeOK, CommandsTyped
<1>2. CommandSound(c)
  BY DEF Inductive
<1>3. SeenIsTrue(c)' /\ PlanIsSound(c)'
  BY <1>1, KnowledgeKept DEF Executing, BeforeWrites
<1>4. \A i \in DOMAIN Acts(c), q \in Policies : ~Past(First, i, q)
  <2>1. First \in [action : 0..3, cpu : CPU]
    BY LoopStart
  <2>2. \A i \in DOMAIN Acts(c) : i \in 1..2
    BY ActionsNumbered
  <2> QED
    BY <2>1, <2>2, LoopsAdvance
<1>5. DriverIsAt(c)'
  BY <1>1, <1>2, <1>4 DEF CommandSound, DriverIsAt, Acts, Past
<1>6. ResultSoFar(c)'
  BY <1>1, <1>2 DEF CommandSound, ResultSoFar, NoResult, Result
<1> QED
  BY <1>1, <1>3, <1>5, <1>6, HostKept, StepSound DEF CommandSound, Running, Ended

LEMMA SoundAgrees ==
  ASSUME Inductive, TypeOK', NEW c \in Commands, Agrees(c)
  PROVE  Inductive'
<1> DEFINE next == Following(at[c])
           last == next.action > Len(Acts(c))
<1>1. /\ UNCHANGED <<sysfs, original, op, seen, plan, failed, result, baseline>>
      /\ pc[c] = "drift" /\ pc'[c] = (IF last THEN "write" ELSE "drift")
      /\ at'[c] = IF last THEN First ELSE next
      /\ Found(c) = ActionAt(c).expected
      /\ Alone(c)
  BY DEF Agrees, Goto, Alone, Acts, Inductive, TypeOK, CommandsTyped
<1>2. CommandSound(c)
  BY DEF Inductive
<1>3. SeenIsTrue(c)' /\ PlanIsSound(c)'
  BY <1>1, KnowledgeKept DEF Executing, BeforeWrites, Writing
<1>4. \A i \in DOMAIN Acts(c), q \in Policies : Reached(at[c], i, q) => HasExpected(c, i, q)
  BY <1>1, <1>2, DriverMoves DEF CommandSound, DriverIsAt, HasExpected, Found
<1>5. DriverIsAt(c)'
  <2>1. CASE last
    <3>1. \A i \in DOMAIN Acts(c), q \in Policies :
            HasExpected(c, i, q) /\ ~Past(First, i, q)
      BY <1>1, <1>4, <2>1, LoopsEnd, DriverMoves
    <3> QED
      BY <1>1, <1>2, <2>1, <3>1 DEF CommandSound, DriverIsAt, Acts, Past, HasExpected, HasTarget
  <2>2. CASE ~last
    <3>1. \A i \in DOMAIN Acts(c), q \in Policies :
            Past(next, i, q) => HasExpected(c, i, q)
      BY <1>1, <1>4, DriverMoves
    <3> HIDE DEF next
    <3> QED
      BY <1>1, <1>2, <2>2, <3>1 DEF CommandSound, DriverIsAt, Acts, Past, HasExpected
  <2> QED
    BY <2>1, <2>2
<1>6. ResultSoFar(c)'
  BY <1>1, <1>2 DEF CommandSound, ResultSoFar, NoResult, Result
<1> QED
  BY <1>1, <1>3, <1>5, <1>6, HostKept, StepSound DEF CommandSound, Running, Ended

LEMMA SoundDrifted ==
  ASSUME Inductive, TypeOK', NEW c \in Commands, Drifted(c)
  PROVE  Inductive'
<1>1. /\ UNCHANGED <<sysfs, original, op, seen, plan, at, failed, baseline>>
      /\ pc[c] = "drift" /\ pc'[c] = "outcome"
      /\ result'[c] = Result(FALSE, TRUE, FALSE)
      /\ Alone(c)
  BY DEF Drifted, Goto, Alone, Inductive, TypeOK, CommandsTyped
<1>2. SeenIsTrue(c)' /\ PlanIsSound(c)'
  BY <1>1, KnowledgeKept DEF Executing, BeforeWrites, Writing
<1>3. DriverIsAt(c)' /\ ResultSoFar(c)'
  BY <1>1 DEF DriverIsAt, ResultSoFar, Result
<1> QED
  BY <1>1, <1>2, <1>3, HostKept, StepSound DEF CommandSound, Running, Ended

\* A write, of the driver or of its rollback, reaches one file of one policy, and
\* the record is there when it happens.
LEMMA WriteReaches ==
  ASSUME Inductive, NEW c \in Commands, pc[c] \in {"write", "undo"}, at[c].action > 0,
         NEW v, Holds(c, v) \/ sysfs' = sysfs,
         UNCHANGED <<original, baseline, plan>>
  PROVE  /\ \A i \in DOMAIN Acts(c), q \in Policies :
              i # at[c].action \/ q # PolicyAt(c) =>
                sysfs'[Acts(c)[i].file][q] = sysfs[Acts(c)[i].file][q]
         /\ \A f \in Files : ~InPlan(c, f) => sysfs'[f] = sysfs[f]
         /\ Holds(c, v) => sysfs'[ActionAt(c).file][PolicyAt(c)] = v
         /\ RecordIsOriginal' /\ LeadRecoverable'
<1>1. /\ at[c].action \in DOMAIN Acts(c) /\ PolicyAt(c) \in Policies
      /\ ActionAt(c) = Acts(c)[at[c].action]
  BY DriverMoves
<1>2. PlanShape(Acts(c)) /\ sysfs \in Hosts
  BY DEF Inductive, TypeOK, CommandsTyped, HostTyped, Acts
<1>3. ActionAt(c).file \in Files
  BY <1>1, <1>2 DEF PlanShape
<1>4. DOMAIN sysfs = Files /\ DOMAIN sysfs[ActionAt(c).file] = Policies
  BY <1>1, <1>2, <1>3, HostFiles
<1>5. ASSUME NEW i \in DOMAIN Acts(c), NEW q \in Policies, i # at[c].action \/ q # PolicyAt(c)
      PROVE  sysfs'[Acts(c)[i].file][q] = sysfs[Acts(c)[i].file][q]
  <2>1. Acts(c)[i].file \in Files /\ (i # at[c].action => Acts(c)[i].file # ActionAt(c).file)
    BY <1>1, <1>2 DEF PlanShape
  <2> QED
    BY <1>4, <1>5, <2>1 DEF Holds
<1>6. ASSUME NEW f \in Files, ~InPlan(c, f) PROVE sysfs'[f] = sysfs[f]
  <2>1. f # ActionAt(c).file
    BY <1>1, <1>6 DEF InPlan
  <2> QED
    BY <1>4, <2>1 DEF Holds
<1>7. Holds(c, v) => sysfs'[ActionAt(c).file][PolicyAt(c)] = v
  BY <1>1, <1>3, <1>4 DEF Holds
<1>8. original # None
  <2>1. Acts(c) # <<>>
    BY <1>1, <1>2 DEF PlanShape
  <2> QED
    BY <2>1 DEF Inductive, CommandSound, PlanIsSound, Executing, Writing
<1>9. RecordIsOriginal' /\ LeadRecoverable'
  BY <1>8 DEF Inductive, RecordIsOriginal, LeadRecoverable, RecordOf, SnapshotOf
<1> QED
  BY <1>5, <1>6, <1>7, <1>9

\* What is known of files outside the plan, and of the plan, outlives a write.
LEMMA KnowledgeSurvives ==
  ASSUME Inductive, NEW c \in Commands, pc[c] \in {"write", "undo"}, pc'[c] \in Writing,
         \A f \in Files : ~InPlan(c, f) => sysfs'[f] = sysfs[f],
         UNCHANGED <<original, op, seen, plan>>
  PROVE  SeenIsTrue(c)' /\ PlanIsSound(c)'
<1>1. CommandSound(c)
  BY DEF Inductive
<1>2. SeenIsTrue(c)'
  BY <1>1 DEF CommandSound, SeenIsTrue, BeforeWrites, Executing, Writing, InPlan, Acts
<1>3. PlanIsSound(c)'
  BY <1>1
     DEF CommandSound, PlanIsSound, Planned, Executing, Writing, Acts, InPlan, Wanted, blocked
<1> QED
  BY <1>2, <1>3

LEMMA SoundWrite ==
  ASSUME Inductive, TypeOK', NEW c \in Commands, Write(c)
  PROVE  Inductive'
<1>1. /\ UNCHANGED <<original, op, seen, plan, at, failed, result, baseline>>
      /\ pc[c] = "write" /\ pc'[c] = "verify"
      /\ Holds(c, ActionAt(c).target) \/ sysfs' = sysfs
      /\ Alone(c)
  BY DEF Write, Goto, Alone, Inductive, TypeOK, CommandsTyped
<1>2. CommandSound(c)
  BY DEF Inductive
<1>3. at[c].action > 0
  BY <1>1, DriverMoves
<1>4. /\ \A i \in DOMAIN Acts(c), q \in Policies :
           i # at[c].action \/ q # PolicyAt(c) =>
             sysfs'[Acts(c)[i].file][q] = sysfs[Acts(c)[i].file][q]
      /\ \A f \in Files : ~InPlan(c, f) => sysfs'[f] = sysfs[f]
      /\ \/ sysfs'[ActionAt(c).file][PolicyAt(c)] = ActionAt(c).target
         \/ sysfs' = sysfs
      /\ RecordIsOriginal' /\ LeadRecoverable'
  BY <1>1, <1>3, WriteReaches
<1>5. SeenIsTrue(c)' /\ PlanIsSound(c)'
  BY <1>1, <1>4, KnowledgeSurvives DEF Writing
<1>6. ASSUME NEW i \in DOMAIN Acts(c), NEW q \in Policies
      PROVE  /\ Past(at[c], i, q) => sysfs'[Acts(c)[i].file][q] = Acts(c)[i].target
             /\ ~Reached(at[c], i, q) => sysfs'[Acts(c)[i].file][q] = Acts(c)[i].expected
  <2>1. /\ Past(at[c], i, q) => sysfs[Acts(c)[i].file][q] = Acts(c)[i].target
        /\ ~Past(at[c], i, q) => sysfs[Acts(c)[i].file][q] = Acts(c)[i].expected
    BY <1>1, <1>2 DEF CommandSound, DriverIsAt, HasExpected, HasTarget
  <2>2. /\ Reached(at[c], i, q) <=> Past(at[c], i, q) \/ (i = at[c].action /\ q = PolicyAt(c))
        /\ ActionAt(c) = Acts(c)[at[c].action]
    BY <1>1, DriverMoves
  <2> QED
    BY <1>4, <2>1, <2>2
<1>7. DriverIsAt(c)'
  BY <1>1, <1>2, <1>6
     DEF CommandSound, DriverIsAt, Acts, HasExpected, HasTarget, Past, Reached
<1>8. ResultSoFar(c)'
  BY <1>1, <1>2 DEF CommandSound, ResultSoFar, NoResult, Result
<1> QED
  BY <1>1, <1>4, <1>5, <1>7, <1>8, StepSound DEF CommandSound, Running, Ended

LEMMA SoundWriteFails ==
  ASSUME Inductive, TypeOK', NEW c \in Commands, WriteFails(c)
  PROVE  Inductive'
<1> DEFINE before == Preceding(at[c])
<1>1. /\ UNCHANGED <<sysfs, original, op, seen, plan, failed, result, baseline>>
      /\ pc[c] = "write" /\ pc'[c] = "undo" /\ at'[c] = before
      /\ Alone(c)
  BY DEF WriteFails, Goto, Alone, Inductive, TypeOK, CommandsTyped
<1>2. CommandSound(c)
  BY DEF Inductive
<1>3. SeenIsTrue(c)' /\ PlanIsSound(c)'
  BY <1>1, KnowledgeKept DEF Executing, BeforeWrites, Writing
<1>4. \A i \in DOMAIN Acts(c), q \in Policies : ~Reached(before, i, q) => HasExpected(c, i, q)
  BY <1>1, <1>2, DriverMoves DEF CommandSound, DriverIsAt
<1> HIDE DEF before
<1>5. DriverIsAt(c)'
  BY <1>1, <1>4 DEF DriverIsAt, Acts, HasExpected, Reached
<1>6. ResultSoFar(c)'
  BY <1>1, <1>2 DEF CommandSound, ResultSoFar, NoResult, Result
<1> QED
  BY <1>1, <1>3, <1>5, <1>6, HostKept, StepSound DEF CommandSound, Running, Ended

LEMMA SoundVerified ==
  ASSUME Inductive, TypeOK', NEW c \in Commands, Verified(c)
  PROVE  Inductive'
<1> DEFINE next == Following(at[c])
           last == next.action > Len(Acts(c))
<1>1. /\ UNCHANGED <<sysfs, original, op, seen, plan, failed, baseline>>
      /\ pc[c] = "verify" /\ pc'[c] = (IF last THEN "outcome" ELSE "write")
      /\ at'[c] = next
      /\ result'[c] = IF last THEN Result(TRUE, FALSE, FALSE) ELSE result[c]
      /\ Found(c) = ActionAt(c).target
      /\ Alone(c)
  BY DEF Verified, Goto, Alone, Acts, Inductive, TypeOK, CommandsTyped
<1>2. CommandSound(c)
  BY DEF Inductive
<1>3. SeenIsTrue(c)' /\ PlanIsSound(c)'
  BY <1>1, KnowledgeKept DEF Executing, BeforeWrites, Writing
<1>4. \A i \in DOMAIN Acts(c), q \in Policies :
        /\ Past(next, i, q) <=> Reached(at[c], i, q)
        /\ Reached(at[c], i, q) => HasTarget(c, i, q)
        /\ ~Reached(at[c], i, q) => HasExpected(c, i, q)
  BY <1>1, <1>2, DriverMoves DEF CommandSound, DriverIsAt, HasTarget, Found
<1>5. last => \A i \in DOMAIN Acts(c), q \in Policies : HasTarget(c, i, q)
  BY <1>1, <1>4, LoopsEnd
<1> HIDE DEF next
<1>6. DriverIsAt(c)'
  BY <1>1, <1>2, <1>4 DEF CommandSound, DriverIsAt, Acts, Past, HasTarget, HasExpected
<1>7. ResultSoFar(c)'
  BY <1>1, <1>2, <1>5 DEF CommandSound, ResultSoFar, NoResult, Result, Acts, HasTarget
<1> QED
  BY <1>1, <1>3, <1>6, <1>7, HostKept, StepSound DEF CommandSound, Running, Ended

LEMMA SoundMismatch ==
  ASSUME Inductive, TypeOK', NEW c \in Commands, Mismatch(c)
  PROVE  Inductive'
<1>1. /\ UNCHANGED <<sysfs, original, op, seen, plan, at, failed, result, baseline>>
      /\ pc[c] = "verify" /\ pc'[c] = "undo"
      /\ Alone(c)
  BY DEF Mismatch, Goto, Alone, Inductive, TypeOK, CommandsTyped
<1>2. CommandSound(c)
  BY DEF Inductive
<1>3. SeenIsTrue(c)' /\ PlanIsSound(c)'
  BY <1>1, KnowledgeKept DEF Executing, BeforeWrites, Writing
<1>4. DriverIsAt(c)'
  BY <1>1, <1>2 DEF CommandSound, DriverIsAt, Acts, HasExpected, Reached
<1>5. ResultSoFar(c)'
  BY <1>1, <1>2 DEF CommandSound, ResultSoFar, NoResult, Result
<1> QED
  BY <1>1, <1>3, <1>4, <1>5, HostKept, StepSound DEF CommandSound, Running, Ended

-------------------------------------------------------------------------------
(* The rollback *)

LEMMA SoundUndo ==
  ASSUME Inductive, TypeOK', NEW c \in Commands, Undo(c)
  PROVE  Inductive'
<1>1. /\ UNCHANGED <<original, op, seen, plan, at, failed, result, baseline>>
      /\ pc[c] = "undo" /\ pc'[c] = "undone" /\ at[c].action > 0
      /\ Holds(c, ActionAt(c).expected) \/ sysfs' = sysfs
      /\ Alone(c)
  BY DEF Undo, Goto, Alone, Inductive, TypeOK, CommandsTyped
<1>2. CommandSound(c)
  BY DEF Inductive
<1>3. /\ \A i \in DOMAIN Acts(c), q \in Policies :
           i # at[c].action \/ q # PolicyAt(c) =>
             sysfs'[Acts(c)[i].file][q] = sysfs[Acts(c)[i].file][q]
      /\ \A f \in Files : ~InPlan(c, f) => sysfs'[f] = sysfs[f]
      /\ RecordIsOriginal' /\ LeadRecoverable'
  BY <1>1, WriteReaches
<1>4. SeenIsTrue(c)' /\ PlanIsSound(c)'
  BY <1>1, <1>3, KnowledgeSurvives DEF Writing
<1>5. ASSUME NEW i \in DOMAIN Acts(c), NEW q \in Policies, ~failed[c], ~Reached(at[c], i, q)
      PROVE  sysfs'[Acts(c)[i].file][q] = Acts(c)[i].expected
  <2>1. sysfs[Acts(c)[i].file][q] = Acts(c)[i].expected
    BY <1>1, <1>2, <1>5 DEF CommandSound, DriverIsAt, HasExpected
  <2>2. i # at[c].action \/ q # PolicyAt(c)
    BY <1>1, <1>5, DriverMoves
  <2> QED
    BY <1>3, <2>1, <2>2
<1>6. DriverIsAt(c)'
  BY <1>1, <1>5 DEF DriverIsAt, Acts, HasExpected, Reached
<1>7. ResultSoFar(c)'
  BY <1>1, <1>2 DEF CommandSound, ResultSoFar, NoResult, Result
<1> QED
  BY <1>1, <1>3, <1>4, <1>6, <1>7, StepSound DEF CommandSound, Running, Ended

LEMMA SoundUndone ==
  ASSUME Inductive, TypeOK', NEW c \in Commands, UndoFails(c) \/ CheckUndo(c)
  PROVE  Inductive'
<1> DEFINE before == Preceding(at[c])
<1>1. /\ UNCHANGED <<sysfs, original, op, seen, plan, result, baseline>>
      /\ pc[c] \in {"undo", "undone"} /\ pc'[c] = "undo" /\ at'[c] = before
      /\ pc[c] = "undo" => at[c].action > 0
      /\ ~failed'[c] => ~failed[c] /\ Found(c) = ActionAt(c).expected
      /\ Alone(c)
  BY DEF UndoFails, CheckUndo, Goto, Alone, Inductive, TypeOK, CommandsTyped
<1>2. CommandSound(c)
  BY DEF Inductive
<1>3. SeenIsTrue(c)' /\ PlanIsSound(c)'
  BY <1>1, KnowledgeKept DEF Executing, BeforeWrites, Writing
<1>4. ASSUME NEW i \in DOMAIN Acts(c), NEW q \in Policies, ~failed'[c], ~Reached(before, i, q)
      PROVE  HasExpected(c, i, q)
  <2>1. /\ ~Past(at[c], i, q)
        /\ Reached(at[c], i, q) => i = at[c].action /\ q = PolicyAt(c)
        /\ ActionAt(c) = Acts(c)[at[c].action]
    BY <1>1, <1>4, DriverMoves
  <2>2. ~Reached(at[c], i, q) => HasExpected(c, i, q)
    BY <1>1, <1>2, <1>4 DEF CommandSound, DriverIsAt
  <2> QED
    BY <1>1, <1>4, <2>1, <2>2 DEF HasExpected, Found
<1> HIDE DEF before
<1>5. DriverIsAt(c)'
  BY <1>1, <1>4 DEF DriverIsAt, Acts, HasExpected, Reached
<1>6. ResultSoFar(c)'
  BY <1>1, <1>2 DEF CommandSound, ResultSoFar, NoResult, Result
<1> QED
  BY <1>1, <1>3, <1>5, <1>6, HostKept, StepSound DEF CommandSound, Running, Ended

LEMMA SoundRolledBack ==
  ASSUME Inductive, TypeOK', NEW c \in Commands, RolledBack(c)
  PROVE  Inductive'
<1>1. /\ UNCHANGED <<sysfs, original, op, seen, plan, at, failed, baseline>>
      /\ pc[c] = "undo" /\ pc'[c] = "outcome" /\ at[c].action = 0
      /\ result'[c] = Result(failed[c], TRUE, ~failed[c])
      /\ Alone(c)
  BY DEF RolledBack, Goto, Alone, Inductive, TypeOK, CommandsTyped
<1>2. CommandSound(c)
  BY DEF Inductive
<1>3. SeenIsTrue(c)' /\ PlanIsSound(c)'
  BY <1>1, KnowledgeKept DEF Executing, BeforeWrites, Writing
<1>4. \A i \in DOMAIN Acts(c), q \in Policies : ~Reached(at[c], i, q)
  BY <1>1, ActionsNumbered DEF Reached
<1>5. ~failed[c] => \A i \in DOMAIN Acts(c), q \in Policies : HasExpected(c, i, q)
  BY <1>1, <1>2, <1>4 DEF CommandSound, DriverIsAt
<1>6. DriverIsAt(c)'
  BY <1>1 DEF DriverIsAt
<1>7. ResultSoFar(c)'
  <2>1. result'[c].error /\ (result'[c].rolled_back => ~failed[c])
    <3>1. failed[c] \in BOOLEAN
      BY DEF Inductive, TypeOK, CommandsTyped
    <3>2. result'[c].error = TRUE /\ result'[c].rolled_back = ~failed[c]
      BY <1>1 DEF Result
    <3> QED
      BY <3>1, <3>2
  <2>2. result'[c].rolled_back => \A i \in DOMAIN Acts(c)', q \in Policies : HasExpected(c, i, q)'
    BY <1>1, <1>5, <2>1 DEF Acts, HasExpected
  <2> QED
    BY <1>1, <2>1, <2>2 DEF ResultSoFar
<1> QED
  BY <1>1, <1>3, <1>6, <1>7, HostKept, StepSound DEF CommandSound, Running, Ended

-------------------------------------------------------------------------------
(* The outcome of a command, and the end of a restore *)

\* A restore that counts as restored has brought the lead policy home.
LEMMA RestoredIsBack ==
  ASSUME Inductive, NEW c \in Commands, pc[c] = "outcome", Restored(c)
  PROVE  /\ original # None
         /\ \A f \in Files : sysfs[f][Lead] = baseline[f][Lead]
<1>1. CommandSound(c) /\ TypeOK /\ RecordIsOriginal
  BY DEF Inductive
<1>2. /\ original # None
      /\ \A f \in Files : ~InPlan(c, f) => seen[c][f] = Wanted(f)
      /\ \A i \in DOMAIN Acts(c) : Acts(c)[i].target = Wanted(Acts(c)[i].file)
  BY <1>1 DEF CommandSound, PlanIsSound, Restored, Executing
<1>3. \A f \in Files : Wanted(f) = baseline[f][Lead]
  <2>1. original = RecordOf(baseline)
    BY <1>1, <1>2 DEF RecordIsOriginal
  <2> QED
    BY <1>2, <2>1 DEF RecordOf, original_state_from, SnapshotOf, Wanted, Files
<1>4. \A f \in Files : Wanted(f) # None
  BY <1>1, <1>2, PowerControlAssumption DEF TypeOK, HostTyped, Wanted
<1>5. ASSUME NEW f \in Files, ~InPlan(c, f) PROVE sysfs[f][Lead] = baseline[f][Lead]
  <2>1. seen[c][f] \in {None, sysfs[f][Lead]}
    BY <1>1, <1>5 DEF CommandSound, SeenIsTrue, Executing
  <2> QED
    BY <1>2, <1>3, <1>4, <1>5, <2>1
<1>6. ASSUME NEW f \in Files, InPlan(c, f) PROVE sysfs[f][Lead] = baseline[f][Lead]
  <2>1. PICK i \in DOMAIN Acts(c) : Acts(c)[i].file = f
    BY <1>6 DEF InPlan
  <2>2. result[c].applied /\ ~result[c].error
    <3>1. Acts(c) # <<>>
      BY <1>1, <2>1 DEF TypeOK, CommandsTyped, PlanShape, Acts
    <3> QED
      BY <3>1 DEF Restored, Acts
  <2>3. HasTarget(c, i, Lead)
    BY <1>1, <2>1, <2>2, LeadIsPolicy DEF CommandSound, ResultSoFar
  <2> QED
    BY <1>2, <1>3, <2>1, <2>3 DEF HasTarget
<1> QED
  BY <1>2, <1>5, <1>6

LEMMA SoundOutcome ==
  ASSUME Inductive, TypeOK', NEW c \in Commands, Outcome(c)
  PROVE  Inductive'
<1>1. UNCHANGED <<sysfs, original, baseline>> /\ pc[c] = "outcome"
  BY DEF Outcome
<1>2. CASE ~Restored(c)
  BY <1>1, <1>2, ExitSound, HostKept, StepSound DEF Outcome, Running, Ended
<1>3. CASE Restored(c)
  <2>1. /\ UNCHANGED <<op, seen, plan, at, failed, result>>
        /\ pc'[c] = "retire"
        /\ Alone(c)
    BY <1>3 DEF Outcome, Goto, Alone, Inductive, TypeOK, CommandsTyped
  <2>2. SeenIsTrue(c)' /\ PlanIsSound(c)'
    BY <1>1, <2>1, KnowledgeKept DEF Executing, BeforeWrites, Writing
  <2>3. DriverIsAt(c)' /\ ResultSoFar(c)'
    BY <1>1, <1>3, <2>1, RestoredIsBack DEF DriverIsAt, ResultSoFar
  <2> QED
    BY <1>1, <2>1, <2>2, <2>3, HostKept, StepSound DEF CommandSound, Running, Ended
<1> QED
  BY <1>2, <1>3

LEMMA SoundRetire ==
  ASSUME Inductive, TypeOK', NEW c \in Commands, Retire(c)
  PROVE  Inductive'
<1>1. /\ UNCHANGED <<sysfs, op, seen, plan, at, failed, result, baseline>>
      /\ pc[c] = "retire" /\ pc'[c] = "retired" /\ original' = None
      /\ Alone(c)
  BY DEF Retire, Goto, Alone, Inductive, TypeOK, CommandsTyped
<1>2. \A f \in Files : sysfs[f][Lead] = baseline[f][Lead]
  BY <1>1 DEF Inductive, CommandSound, ResultSoFar
<1>3. RecordIsOriginal' /\ LeadRecoverable'
  BY <1>1, <1>2 DEF RecordIsOriginal, LeadRecoverable
<1>4. CommandSound(c)'
  BY <1>1 DEF CommandSound, SeenIsTrue, PlanIsSound, DriverIsAt, ResultSoFar,
     Planned, Executing, Writing, BeforeWrites
<1> QED
  BY <1>1, <1>3, <1>4, StepSound DEF Running, Ended

-------------------------------------------------------------------------------
(* The theorems *)

LEMMA InductiveInit == Init => Inductive
<1> SUFFICES ASSUME Init PROVE Inductive
  OBVIOUS
<1>1. TypeOK
  BY TypeInit
<1>2. OneAtATime /\ RecordIsOriginal /\ LeadRecoverable
  BY DEF Init, OneAtATime, Running, Ended, RecordIsOriginal, LeadRecoverable
<1>3. \A c \in Commands : CommandSound(c)
  BY DEF Init, CommandSound, SeenIsTrue, PlanIsSound, DriverIsAt, ResultSoFar,
     Planned, Executing, Writing, BeforeWrites
<1> QED
  BY <1>1, <1>2, <1>3 DEF Inductive

LEMMA InductiveNext == ~Concurrent /\ Inductive /\ [Next]_vars => Inductive'
<1> SUFFICES ASSUME ~Concurrent, Inductive, [Next]_vars PROVE Inductive'
  OBVIOUS
<1>1. TypeOK'
  BY TypeNext DEF Inductive
<1>2. CASE UNCHANGED vars
  <2>1. (OneAtATime /\ RecordIsOriginal /\ LeadRecoverable)'
    BY <1>2 DEF vars, local, Inductive, OneAtATime, Running, RecordIsOriginal,
       LeadRecoverable, RecordOf, SnapshotOf
  <2>2. ASSUME NEW c \in Commands
        PROVE  CommandSound(c)' <=> CommandSound(c)
    BY <1>2 DEF vars, local, RecordOf, SnapshotOf, CommandSound, SeenIsTrue, PlanIsSound,
       DriverIsAt, ResultSoFar, Acts, InPlan, Wanted, HasExpected, HasTarget, Past, Reached,
       blocked
  <2> QED
    BY <1>1, <2>1, <2>2 DEF Inductive
<1>3. ASSUME NEW c \in Commands, Start(c) \/ Crash(c) PROVE Inductive'
  BY <1>1, <1>3, SoundStart, SoundEnd
<1>4. ASSUME NEW c \in Commands, Step(c) PROVE Inductive'
  BY <1>1, <1>4, SoundCollect, SoundSaveOriginal, SoundPlanApply, SoundGuardApply,
     SoundPlanRestore, SoundEnd, SoundBegin, SoundDrive, SoundAgrees, SoundDrifted, SoundWrite,
     SoundWriteFails, SoundVerified, SoundMismatch, SoundUndo, SoundUndone, SoundRolledBack,
     SoundOutcome, SoundRetire
     DEF Step
<1> QED
  BY <1>2, <1>3, <1>4 DEF Next

\* Only a write, a rollback, a save and a retirement change the host or the record.
LEMMA WhoActs ==
  [Next]_vars =>
    \/ UNCHANGED <<sysfs, original, baseline>>
    \/ \E c \in Commands : Write(c) \/ Undo(c) \/ SaveOriginal(c) \/ Retire(c)
<1> DEFINE still == UNCHANGED <<sysfs, original, baseline>>
<1>1. UNCHANGED vars => still
  BY DEF vars
<1>2. ASSUME NEW c \in Commands, Start(c) \/ Crash(c) PROVE still
  BY <1>2 DEF Start, Crash, local
<1>3. ASSUME NEW c \in Commands, Step(c)
      PROVE  still \/ Write(c) \/ Undo(c) \/ SaveOriginal(c) \/ Retire(c)
  <2>1. CollectGovernor(c) \/ CollectCeiling(c) => still
    BY DEF CollectGovernor, CollectCeiling, Collect
  <2>2. \/ \E intent \in Intents : PlanApply(c, intent)
        \/ \E age \in Ages, activity \in Activities : GuardApply(c, age, activity)
        \/ PlanRestore(c) \/ Refuse(c)
        => still
    BY DEF PlanApply, GuardApply, PlanRestore, Refuse, local
  <2>3. Begin(c) \/ Skip(c) \/ Drive(c) \/ Agrees(c) \/ Drifted(c) => still
    BY DEF Begin, Skip, Drive, Agrees, Drifted, local
  <2>4. WriteFails(c) \/ Verified(c) \/ Mismatch(c) \/ UndoFails(c) \/ CheckUndo(c) => still
    BY DEF WriteFails, Verified, Mismatch, UndoFails, CheckUndo, local
  <2>5. RolledBack(c) \/ Outcome(c) \/ AuditRetired(c) => still
    BY DEF RolledBack, Outcome, AuditRetired, local
  <2> HIDE DEF still
  <2> QED
    BY <1>3, <2>1, <2>2, <2>3, <2>4, <2>5 DEF Step
<1> HIDE DEF still
<1>4. [Next]_vars =>
        still \/ \E c \in Commands : Write(c) \/ Undo(c) \/ SaveOriginal(c) \/ Retire(c)
  BY <1>1, <1>2, <1>3 DEF Next
<1> QED
  BY <1>4 DEF still

\* While commands do not overlap, whatever dies, fails or is repeated, all that a
\* command knows of the host stays true until it acts on it.
THEOREM AlwaysInductive ==
  ASSUME ~Concurrent
  PROVE  Spec => []Inductive
BY InductiveInit, InductiveNext, PTL DEF Spec

\* The active record is the configuration nordfir found (save_original_state,
\* retire_original_state).
THEOREM RecordIsAlwaysOriginal ==
  ASSUME ~Concurrent
  PROVE  Spec => []RecordIsOriginal
<1>1. Inductive => RecordIsOriginal
  BY DEF Inductive
<1> QED
  BY <1>1, AlwaysInductive, PTL

\* "Recovery before change" for the policy the snapshots look at: the record
\* that leads back is there as long as the policy differs from what was found.
THEOREM LeadAlwaysRecoverable ==
  ASSUME ~Concurrent
  PROVE  Spec => []LeadRecoverable
<1>1. Inductive => LeadRecoverable
  BY DEF Inductive
<1> QED
  BY <1>1, AlwaysInductive, PTL

\* The driver's result is true of every file of every policy
\* (LinuxCpufreqDriver.apply, _roll_back).
THEOREM ResultIsAlwaysTrue ==
  ASSUME ~Concurrent
  PROVE  Spec => []ResultIsTrue
<1>1. Inductive => ResultIsTrue
  BY DEF Inductive, CommandSound, ResultSoFar, ResultIsTrue, HasTarget, HasExpected, Acts
<1> QED
  BY <1>1, AlwaysInductive, PTL

\* No write happens while no record is stored (plan_changes, plan_restore).
THEOREM NeverWritesWithoutRecord ==
  ASSUME ~Concurrent
  PROVE  Spec => NoWriteWithoutRecord
<1>1. Inductive /\ [Next]_vars => [sysfs' # sysfs => original # None]_vars
  <2> SUFFICES ASSUME Inductive, Next, sysfs' # sysfs PROVE original # None
    BY DEF vars, local
  <2>1. PICK c \in Commands : Write(c) \/ Undo(c)
    BY WhoActs DEF SaveOriginal, Retire
  <2>2. at[c].action \in DOMAIN Acts(c) /\ pc[c] \in Writing
    BY <2>1, DriverMoves DEF Write, Undo, Writing
  <2>3. Acts(c) # <<>>
    BY <2>2 DEF Inductive, TypeOK, CommandsTyped, PlanShape, Acts
  <2> QED
    BY <2>2, <2>3 DEF Inductive, CommandSound, PlanIsSound, Executing
<1> QED
  BY <1>1, AlwaysInductive, PTL DEF Spec, NoWriteWithoutRecord

-------------------------------------------------------------------------------
(* A host whose CPUs share one policy *)

\* The lead policy is then the host.
LEMMA LeadIsHost ==
  ASSUME Policies = {Lead}, NEW s \in Hosts, NEW t \in Hosts,
         \A f \in Files : s[f][Lead] = t[f][Lead]
  PROVE  s = t
<1>1. s["scaling_governor"] = t["scaling_governor"]
  BY HostShape DEF Files
<1>2. s["scaling_max_freq"] = t["scaling_max_freq"]
  BY HostShape DEF Files
<1> QED
  BY <1>1, <1>2, HostShape

LEMMA UnchangedOrRecorded ==
  ASSUME Policies = {Lead}, Inductive
  PROVE  HostRecoverable
<1>1. sysfs \in Hosts /\ baseline \in Hosts
  BY DEF Inductive, TypeOK, HostTyped
<1>2. sysfs # baseline => \E f \in Files : sysfs[f][Lead] # baseline[f][Lead]
  BY <1>1, LeadIsHost
<1> QED
  BY <1>2 DEF Inductive, LeadRecoverable, HostRecoverable

\* "Recovery before change" for the whole of such a host.
THEOREM HostAlwaysRecoverable ==
  ASSUME ~Concurrent, Policies = {Lead}
  PROVE  Spec => []HostRecoverable
<1>1. Inductive => HostRecoverable
  BY UnchangedOrRecorded
<1> QED
  BY <1>1, AlwaysInductive, PTL

LEMMA RetiredIsBack ==
  ASSUME Policies = {Lead}, Inductive, NEW c \in Commands, Retire(c)
  PROVE  sysfs = baseline /\ original # None
<1>1. original # None /\ \A f \in Files : sysfs[f][Lead] = baseline[f][Lead]
  BY DEF Retire, Inductive, CommandSound, ResultSoFar
<1> QED
  BY <1>1, LeadIsHost DEF Inductive, TypeOK, HostTyped

\* The record goes only while such a host is in its original configuration
\* (restore_original).
THEOREM RetiresOnlyWhenBack ==
  ASSUME ~Concurrent, Policies = {Lead}
  PROVE  Spec => RetireOnlyWhenBack
<1>1. Inductive /\ [Next]_vars =>
        [original # None /\ original' = None => sysfs = baseline]_vars
  <2> SUFFICES ASSUME Inductive, [Next]_vars, original # None, original' = None
               PROVE  sysfs = baseline
    OBVIOUS
  <2>1. PICK c \in Commands : Retire(c)
    BY WhoActs DEF Write, Undo, SaveOriginal, Inserted
  <2> QED
    BY <2>1, RetiredIsBack
<1> QED
  BY <1>1, AlwaysInductive, PTL DEF Spec, RetireOnlyWhenBack

\* PowerControl implements the promise: every step of a command is a Save, a Write or a
\* Retire of RecoveryProtocol, or does not concern it (engine.py restore_original,
\* state.py save_original_state).
THEOREM PromiseKept ==
  ASSUME ~Concurrent, Policies = {Lead}
  PROVE  Spec => KeepsPromise
<1> DEFINE image == <<RecordOf(sysfs), original, RecordOf(baseline)>>
<1>1. Init => Recovery!Init
  BY DEF Init, Recovery!Init
<1>2. Inductive /\ [Next]_vars => [Recovery!Next]_image
  <2> SUFFICES ASSUME Inductive, [Next]_vars
               PROVE  Recovery!Next \/ UNCHANGED image
    OBVIOUS
  <2>1. UNCHANGED <<sysfs, original, baseline>> => UNCHANGED image
    BY DEF RecordOf, SnapshotOf
  <2>2. ASSUME NEW c \in Commands, Write(c) \/ Undo(c) PROVE Recovery!Write
    <3>1. original # None
      <4>1. at[c].action \in DOMAIN Acts(c) /\ pc[c] \in Writing
        BY <2>2, DriverMoves DEF Write, Undo, Writing
      <4>2. Acts(c) # <<>>
        BY <4>1 DEF Inductive, TypeOK, CommandsTyped, PlanShape, Acts
      <4> QED
        BY <4>1, <4>2 DEF Inductive, CommandSound, PlanIsSound, Executing
    <3>2. original = RecordOf(baseline)
      BY <3>1 DEF Inductive, RecordIsOriginal
    <3>3. UNCHANGED <<original, baseline>>
      BY <2>2 DEF Write, Undo
    <3>4. UNCHANGED RecordOf(baseline)
      BY <3>3 DEF RecordOf, SnapshotOf
    <3> QED
      BY <3>1, <3>2, <3>3, <3>4 DEF Recovery!Write
  <2>3. ASSUME NEW c \in Commands, SaveOriginal(c), original' # original PROVE Recovery!Save
    <3>1. original = None /\ original' = RecordOf(sysfs)
      BY <2>3, RecordsHost
    <3>2. sysfs = baseline
      BY <3>1, UnchangedOrRecorded DEF HostRecoverable
    <3>3. UNCHANGED <<sysfs, baseline>>
      BY <2>3 DEF SaveOriginal
    <3>4. RecordOf(sysfs) = RecordOf(baseline) /\ UNCHANGED <<RecordOf(sysfs), RecordOf(baseline)>>
      BY <3>2, <3>3 DEF RecordOf, SnapshotOf
    <3> QED
      BY <3>1, <3>4 DEF Recovery!Save
  <2>4. ASSUME NEW c \in Commands, SaveOriginal(c), original' = original
        PROVE  UNCHANGED <<sysfs, original, baseline>>
    BY <2>4 DEF SaveOriginal
  <2>5. ASSUME NEW c \in Commands, Retire(c) PROVE Recovery!Retire
    <3>1. sysfs = baseline /\ original # None
      BY <2>5, RetiredIsBack
    <3>2. original' = None /\ UNCHANGED <<sysfs, baseline>>
      BY <2>5 DEF Retire
    <3>3. original = RecordOf(baseline)
      BY <3>1 DEF Inductive, RecordIsOriginal
    <3>4. RecordOf(sysfs) = original /\ UNCHANGED <<RecordOf(sysfs), RecordOf(baseline)>>
      BY <3>1, <3>2, <3>3 DEF RecordOf, SnapshotOf
    <3> QED
      BY <3>1, <3>2, <3>3, <3>4 DEF Recovery!Retire
  <2> HIDE DEF image
  <2> QED
    BY <2>1, <2>2, <2>3, <2>4, <2>5, WhoActs DEF Recovery!Next
<1> QED
  BY <1>1, <1>2, AlwaysInductive, PTL DEF Spec, KeepsPromise, Recovery!Spec

-------------------------------------------------------------------------------
(* Whole hosts *)

LEMMA HostIs ==
  ASSUME NEW s \in Hosts
  PROVE  s = [f \in Files |-> [p \in Policies |-> s[f][p]]]
<1>1. s = PerFile(s["scaling_governor"], s["scaling_max_freq"])
  BY HostShape
<1>2. s = [f \in Files |-> s[f]]
  BY <1>1 DEF PerFile
<1>3. \A f \in Files : s[f] = [p \in Policies |-> s[f][p]]
  BY HostFiles, LeadIsPolicy
<1> QED
  BY <1>2, <1>3

\* Economizing leaves a file as it was found, or makes it the same everywhere; and it
\* leads to the state of rest, if anywhere.
LEMMA EconomizedEach ==
  ASSUME TypeOK, NEW f \in Files
  PROVE  \/ \A p \in Policies : Economized(baseline)[f][p] = baseline[f][p]
         \/ \A p \in Policies : Economized(baseline)[f][p] = Economized(baseline)[f][Lead]
<1> DEFINE acts == FirstPlan.actions
           action == {i \in DOMAIN acts : acts[i].file = f}
<1>1. \A p \in Policies : Economized(baseline)[f][p] =
        IF action = {} THEN baseline[f][p] ELSE acts[CHOOSE i \in action : TRUE].target
  BY DEF Economized, FirstPlan, Found0
<1> QED
  BY <1>1, LeadIsPolicy

LEMMA HostsAre ==
  ASSUME TypeOK
  PROVE  /\ sysfs = [f \in Files |-> [p \in Policies |-> sysfs[f][p]]]
         /\ baseline = [f \in Files |-> [p \in Policies |-> baseline[f][p]]]
BY HostIs DEF TypeOK, HostTyped

LEMMA EconomizedIsHost ==
  Economized(baseline) = [f \in Files |-> [p \in Policies |-> Economized(baseline)[f][p]]]
BY DEF Economized

\* What economizing leaves in one file of one policy.
LEMMA EconomizedFile ==
  ASSUME NEW f \in Files, NEW q \in Policies, NEW plans, plans = FirstPlan.actions
  PROVE  LET action == {i \in DOMAIN plans : plans[i].file = f}
         IN  Economized(baseline)[f][q] =
               IF action = {} THEN baseline[f][q] ELSE plans[CHOOSE i \in action : TRUE].target
<1> DEFINE action(g) == {i \in DOMAIN plans : plans[i].file = g}
<1>1. Economized(baseline) =
        [g \in Files |-> [r \in Policies |->
           IF action(g) = {} THEN baseline[g][r]
                             ELSE plans[CHOOSE i \in action(g) : TRUE].target]]
  BY Zenon DEF Economized, FirstPlan, Found0
<1> QED
  BY <1>1

\* A plan has one action for a file.
LEMMA OneAction ==
  ASSUME TypeOK, NEW c \in Commands, NEW f \in Files, InPlan(c, f)
  PROVE  \E i \in DOMAIN Acts(c) : /\ Acts(c)[i].file = f /\ ActionOn(c, f) = Acts(c)[i]
                                   /\ \A j \in DOMAIN Acts(c) : Acts(c)[j].file = f => j = i
<1>1. PlanShape(Acts(c))
  BY DEF TypeOK, CommandsTyped, Acts
<1>2. PICK i \in DOMAIN Acts(c) : Acts(c)[i].file = f
  BY DEF InPlan
<1>3. (CHOOSE j \in DOMAIN Acts(c) : Acts(c)[j].file = f) = i
  BY <1>1, <1>2 DEF PlanShape
<1> QED
  BY <1>1, <1>2, <1>3 DEF ActionOn, PlanShape

\* Where every policy holds what was expected, or what was wanted, the host is that.
LEMMA HostIsBefore ==
  ASSUME TypeOK, NEW c \in Commands,
         \A i \in DOMAIN Acts(c), q \in Policies : HasExpected(c, i, q)
  PROVE  sysfs = Before(c)
<1>1. \A f \in Files, q \in Policies :
        sysfs[f][q] = IF InPlan(c, f) THEN ActionOn(c, f).expected ELSE sysfs[f][q]
  BY OneAction DEF HasExpected
<1> QED
  BY <1>1, HostsAre DEF Before

LEMMA HostIsAfter ==
  ASSUME TypeOK, NEW c \in Commands,
         \A i \in DOMAIN Acts(c), q \in Policies : HasTarget(c, i, q)
  PROVE  sysfs = After(c)
<1>1. \A f \in Files, q \in Policies :
        sysfs[f][q] = IF InPlan(c, f) THEN ActionOn(c, f).target ELSE sysfs[f][q]
  BY OneAction DEF HasTarget
<1> QED
  BY <1>1, HostsAre DEF After

\* A host that is whole, and whose lead policy is home, is home.
LEMMA WholeIsHome ==
  ASSUME TypeOK, Whole(sysfs), \A f \in Files : sysfs[f][Lead] = baseline[f][Lead]
  PROVE  sysfs = baseline
<1>1. CASE sysfs = Economized(baseline) /\ sysfs # baseline
  <2>1. ASSUME NEW f \in Files, NEW p \in Policies PROVE sysfs[f][p] = baseline[f][p]
    <3>1. CASE sysfs[f] = baseline[f]
      BY <3>1
    <3>2. CASE sysfs[f] # baseline[f]
      <4>1. \A q \in Policies : baseline[f][q] = baseline[f][Lead]
        BY <1>1, <3>2 DEF Whole
      <4> QED
        BY <1>1, <4>1, EconomizedEach
    <3> QED
      BY <3>1, <3>2
  <2> QED
    BY <2>1, HostsAre
<1> QED
  BY <1>1 DEF Whole

\* What a driver that is about to write has before it (LinuxCpufreqDriver.apply): all of
\* its files are as its plan expects, and where the plan leads is a whole host again.
LEMMA ApplyLeadsToWhole ==
  ASSUME TrailInductive, NEW c \in Commands, pc[c] = "drift", op[c] = "apply",
         Whole(sysfs), \A i \in DOMAIN Acts(c), q \in Policies : HasExpected(c, i, q)
  PROVE  Whole(After(c))
<1>1. TypeOK /\ CommandSound(c) /\ PlansRest(c)
  BY DEF TrailInductive, Inductive
<1>2. sysfs = Before(c)
  BY <1>1, HostIsBefore
<1> DEFINE cpu == SnapshotOf(seen[c])
           p == plan_changes(cpu, desired_state(cpu, "economize"), RecordOf(baseline))
<1>3. CASE Acts(c) = <<>>
  <2>1. \A i \in DOMAIN Acts(c), q \in Policies : HasTarget(c, i, q)
    BY <1>3
  <2> QED
    BY <1>1, <2>1, HostIsAfter
<1>4. CASE Acts(c) # <<>>
  <2>1. Acts(c) = p.actions
    BY <1>1, <1>4 DEF PlansRest, Executing
  <2>2. seen[c] \in Readings /\ \A f \in Files : seen[c][f] \in {None, sysfs[f][Lead]}
    BY <1>1 DEF TypeOK, CommandsTyped, CommandSound, SeenIsTrue, BeforeWrites
  <2>3. /\ \A f \in Files : seen[c][f] # None
        /\ Leads(Acts(c), seen[c], RestGoal(seen[c]))
    BY <1>4, <2>1, <2>2, PlanChangesCases DEF RestGoal
  <2>4. CASE sysfs = baseline
    <3>1. seen[c] = Found0
      <4>1. \A f \in Files : seen[c][f] = Found0[f]
        BY <2>2, <2>3, <2>4 DEF Found0
      <4>2. Found0 \in Readings
        BY <1>1, FoundIsReading
      <4> QED
        BY <2>2, <4>1, <4>2, ReadingShape DEF Files
    <3>2. Acts(c) = FirstPlan.actions
      BY <2>1, <3>1 DEF FirstPlan
    <3> DEFINE acts == Acts(c)
               action(f) == {i \in DOMAIN acts : acts[i].file = f}
    <3>3. ASSUME NEW f \in Files, NEW q \in Policies
          PROVE  Economized(baseline)[f][q] = After(c)[f][q]
      <4>1. Economized(baseline)[f][q] =
              IF action(f) = {} THEN baseline[f][q] ELSE acts[CHOOSE i \in action(f) : TRUE].target
        <5>1. acts = FirstPlan.actions
          BY <3>2
        <5> HIDE DEF acts
        <5> QED
          BY <5>1, EconomizedFile
      <4>2. CASE InPlan(c, f)
        <5>1. PICK i \in DOMAIN acts : /\ acts[i].file = f /\ ActionOn(c, f) = acts[i]
                                       /\ \A j \in DOMAIN acts : acts[j].file = f => j = i
          BY <1>1, <4>2, OneAction
        <5> HIDE DEF acts
        <5>2. action(f) = {i}
          BY <5>1
        <5>3. (CHOOSE j \in action(f) : TRUE) = i
          BY <5>2
        <5> QED
          BY <4>1, <4>2, <5>1, <5>2, <5>3 DEF After
      <4>3. CASE ~InPlan(c, f)
        <5>1. action(f) = {}
          BY <4>3 DEF InPlan
        <5> QED
          BY <2>4, <4>1, <4>3, <5>1 DEF After
      <4> QED
        BY <4>2, <4>3
    <3>4. After(c) = Economized(baseline)
      BY <3>3, EconomizedIsHost DEF After
    <3>5. ASSUME NEW f \in Files, After(c)[f] # baseline[f], NEW q \in Policies
          PROVE  baseline[f][q] = baseline[f][Lead]
      <4>1. InPlan(c, f)
        <5>1. ~InPlan(c, f) => After(c)[f] = [r \in Policies |-> baseline[f][r]]
          BY <2>4 DEF After
        <5>2. baseline[f] = [r \in Policies |-> baseline[f][r]]
          BY <1>1, HostFiles, LeadIsPolicy DEF TypeOK, HostTyped
        <5> QED
          BY <3>5, <5>1, <5>2
      <4> QED
        BY <2>4, <4>1, LeadIsPolicy DEF InPlan, HasExpected
    <3> QED
      BY <3>4, <3>5 DEF Whole
  <2>5. CASE sysfs # baseline
    <3>1. sysfs = Economized(baseline)
      BY <2>5 DEF Whole
    <3>2. FirstPlan.actions # <<>>
      <4>1. FirstPlan.actions = <<>> =>
              \A f \in Files, q \in Policies : sysfs[f][q] = baseline[f][q]
        BY <1>1, <3>1, EconomizedIs
      <4> QED
        BY <1>1, <2>5, <4>1, HostsAre
    <3>3. \A f \in Files : seen[c][f] = RestGoal(Found0)[f]
      BY <1>1, <2>2, <2>3, <3>1, <3>2, EconomizedIs
    <3>4. RestGoal(seen[c]) = RestGoal(Found0)
      <4>1. seen[c]["scaling_max_freq"] = RestCeiling(SnapshotOf(Found0))
        BY <3>3 DEF RestGoal, PerFile, Files
      <4> QED
        BY <4>1, RestIsRest DEF RestGoal
    <3>5. \A i \in DOMAIN Acts(c) : Acts(c)[i].target = Acts(c)[i].expected
      BY <2>3, <3>3, <3>4 DEF Leads
    <3>6. \A i \in DOMAIN Acts(c), q \in Policies : HasTarget(c, i, q)
      BY <3>5 DEF HasTarget, HasExpected
    <3> QED
      BY <1>1, <3>6, HostIsAfter
  <2> QED
    BY <2>4, <2>5
<1> QED
  BY <1>3, <1>4

LEMMA RestoreLeadsToWhole ==
  ASSUME TrailInductive, NEW c \in Commands, pc[c] = "drift", op[c] = "restore",
         Whole(sysfs), \A i \in DOMAIN Acts(c), q \in Policies : HasExpected(c, i, q)
  PROVE  After(c) = baseline
<1>1. TypeOK /\ CommandSound(c) /\ RecordIsOriginal
  BY DEF TrailInductive, Inductive
<1>2. /\ original # None
      /\ \A f \in Files : ~InPlan(c, f) => seen[c][f] = Wanted(f)
      /\ \A i \in DOMAIN Acts(c) : Acts(c)[i].target = Wanted(Acts(c)[i].file)
  BY <1>1 DEF CommandSound, PlanIsSound, Executing
<1>3. \A f \in Files : Wanted(f) = baseline[f][Lead]
  <2>1. original = RecordOf(baseline)
    BY <1>1, <1>2 DEF RecordIsOriginal
  <2> QED
    BY <1>2, <2>1 DEF RecordOf, original_state_from, SnapshotOf, Wanted, Files
<1>4. \A f \in Files : Wanted(f) # None
  BY <1>1, <1>2, PowerControlAssumption DEF TypeOK, HostTyped, Wanted
<1>5. \A f \in Files : sysfs[f] # baseline[f] =>
        /\ \A q \in Policies : sysfs[f][q] = sysfs[f][Lead]
        /\ \A q \in Policies : baseline[f][q] = baseline[f][Lead]
  <2>1. ASSUME NEW f \in Files, sysfs[f] # baseline[f]
        PROVE  /\ \A q \in Policies : sysfs[f][q] = sysfs[f][Lead]
               /\ \A q \in Policies : baseline[f][q] = baseline[f][Lead]
    <3>1. sysfs = Economized(baseline) /\ \A q \in Policies : baseline[f][q] = baseline[f][Lead]
      BY <2>1 DEF Whole
    <3> QED
      BY <1>1, <3>1, EconomizedEach, LeadIsPolicy
  <2> QED
    BY <2>1
<1>6. ASSUME NEW f \in Files, NEW q \in Policies PROVE After(c)[f][q] = baseline[f][q]
  <2>1. CASE InPlan(c, f)
    <3>1. PICK i \in DOMAIN Acts(c) : Acts(c)[i].file = f /\ ActionOn(c, f) = Acts(c)[i]
      BY <1>1, <2>1, OneAction
    <3>2. After(c)[f][q] = baseline[f][Lead]
      BY <1>2, <1>3, <2>1, <3>1 DEF After
    <3>3. sysfs[f][q] = sysfs[f][Lead]
      BY <3>1, LeadIsPolicy DEF HasExpected
    <3>4. baseline[f][q] = baseline[f][Lead]
      BY <1>5, <3>3
    <3> QED
      BY <3>2, <3>4
  <2>2. CASE ~InPlan(c, f)
    <3>1. After(c)[f][q] = sysfs[f][q]
      BY <2>2 DEF After
    <3>2. seen[c][f] \in {None, sysfs[f][Lead]}
      BY <1>1 DEF CommandSound, SeenIsTrue, BeforeWrites
    <3>3. sysfs[f][Lead] = baseline[f][Lead]
      BY <1>2, <1>3, <1>4, <2>2, <3>2
    <3> QED
      BY <1>5, <3>1, <3>3
  <2> QED
    BY <2>1, <2>2
<1> QED
  BY <1>1, <1>6, HostsAre DEF After

-------------------------------------------------------------------------------
(* The trail *)

\* What an event adds to the trail.
LEMMA TrailGrows ==
  ASSUME AuditTyped, NEW c \in Commands, NEW event \in {"refused", "started", "outcome", "retired"},
         NEW r \in [applied : BOOLEAN, error : BOOLEAN, rolled_back : BOOLEAN],
         record_audit(c, event, r)
  PROVE  /\ AuditTyped'
         /\ \A d, e : Recorded(d, e)' <=> Recorded(d, e) \/ (d = c /\ e = event)
         /\ \A i \in DOMAIN audit : i \in DOMAIN audit' /\ audit'[i] = audit[i]
         /\ \A i \in DOMAIN audit' :
              (i \in DOMAIN audit /\ audit'[i] = audit[i])
              \/ audit'[i] = [command |-> c, event |-> event, result |-> r]
         /\ \E i \in DOMAIN audit' : audit'[i] = [command |-> c, event |-> event, result |-> r]
<1> DEFINE new == [command |-> c, event |-> event, result |-> r]
<1>1. audit \in Seq(AuditRecords) /\ new \in AuditRecords /\ audit' = Append(audit, new)
  BY DEF AuditTyped, AuditRecords, record_audit
<1>2. /\ audit' \in Seq(AuditRecords)
      /\ DOMAIN audit = 1..Len(audit) /\ DOMAIN audit' = 1..(Len(audit) + 1) /\ Len(audit) \in Nat
      /\ \A i \in 1..Len(audit) : audit'[i] = audit[i]
      /\ audit'[Len(audit) + 1] = new
  <2> HIDE DEF new, AuditRecords
  <2> QED
    BY <1>1
<1>3. /\ \A i \in DOMAIN audit : i \in DOMAIN audit' /\ audit'[i] = audit[i]
      /\ \A i \in DOMAIN audit' : i \in DOMAIN audit \/ i = Len(audit) + 1
      /\ Len(audit) + 1 \in DOMAIN audit'
  BY <1>2
<1>4. /\ \A i \in DOMAIN audit' :
           (i \in DOMAIN audit /\ audit'[i] = audit[i]) \/ audit'[i] = new
      /\ \E i \in DOMAIN audit' : audit'[i] = new
  BY <1>2, <1>3
<1>5. \A d, e : Recorded(d, e)' <=> Recorded(d, e) \/ (d = c /\ e = event)
  <2>1. new.command = c /\ new.event = event
    OBVIOUS
  <2> HIDE DEF new
  <2> QED
    BY <1>3, <1>4, <2>1 DEF Recorded
<1>6. AuditTyped'
  BY <1>2 DEF AuditTyped
<1> QED
  BY <1>3, <1>4, <1>5, <1>6

\* What a step of c does to the trail: nothing, or it adds an event of c.
TrailOf(c) ==
  /\ AuditTyped'
  /\ \A d, e : d # c => (Recorded(d, e)' <=> Recorded(d, e))
  /\ \A i \in DOMAIN audit : i \in DOMAIN audit' /\ audit'[i] = audit[i]
  /\ \A i \in DOMAIN audit' : audit'[i].command = c \/ (i \in DOMAIN audit /\ audit'[i] = audit[i])

LEMMA TrailKept ==
  ASSUME AuditTyped, NEW c \in Commands, UNCHANGED audit
  PROVE  /\ TrailOf(c)
         /\ \A d, e : Recorded(d, e)' <=> Recorded(d, e)
BY DEF TrailOf, AuditTyped, Recorded

LEMMA TrailAdded ==
  ASSUME AuditTyped, NEW c \in Commands, NEW event \in {"refused", "started", "outcome", "retired"},
         NEW r \in [applied : BOOLEAN, error : BOOLEAN, rolled_back : BOOLEAN],
         record_audit(c, event, r)
  PROVE  TrailOf(c)
<1>1. \A i \in DOMAIN audit' :
        audit'[i].command = c \/ (i \in DOMAIN audit /\ audit'[i] = audit[i])
  BY TrailGrows
<1>2. \A d, e : d # c => (Recorded(d, e)' <=> Recorded(d, e))
  BY TrailGrows
<1>3. AuditTyped' /\ \A i \in DOMAIN audit : i \in DOMAIN audit' /\ audit'[i] = audit[i]
  BY TrailGrows
<1> QED
  BY <1>1, <1>2, <1>3 DEF TrailOf

\* A command that steps was running, or had done nothing yet.
HasTurn(c) ==
  \/ Running(c)
  \/ /\ \A d \in Commands : ~Running(d)
     /\ pc[c] = "new"

\* What the trail has once told of it keeps telling.
LEMMA TornStays ==
  ASSUME TrailInductive, NEW c \in Commands, Alone(c), HasTurn(c), TrailOf(c), Torn
  PROVE  Torn'
<1>1. ASSUME NEW d \in Commands, ~Running(d), Recorded(d, "started"), ~Recorded(d, "outcome")
      PROVE  Torn'
  <2>1. d # c
    <3>1. pc[c] = "new" => ~Recorded(c, "started")
      BY DEF TrailInductive, TrailGoesAlong, Recorded
    <3> QED
      BY <1>1, <3>1 DEF HasTurn
  <2>2. ~Running(d)' /\ Recorded(d, "started")' /\ ~Recorded(d, "outcome")'
    BY <1>1, <2>1 DEF Alone, Running, TrailOf
  <2> QED
    BY <2>2 DEF Torn
<1>2. ASSUME NEW i \in DOMAIN audit, audit[i].event = "outcome", Incomplete(audit[i].result)
      PROVE  Torn'
  <2>1. i \in DOMAIN audit' /\ audit'[i] = audit[i]
    BY DEF TrailOf
  <2> QED
    BY <1>2, <2>1 DEF Torn, Incomplete
<1> QED
  BY <1>1, <1>2 DEF Torn

\* What a step of c has to establish.
LEMMA TrailStep ==
  ASSUME TrailInductive, Inductive', NEW c \in Commands, Alone(c), HasTurn(c), TrailOf(c),
         TrailGoesAlong(c)', PlansRest(c)',
         ~Torn /\ ~Torn' /\ HostSettled => HostSettled'
  PROVE  TrailInductive'
<1>1. ASSUME NEW d \in Commands, d # c PROVE TrailGoesAlong(d)' /\ PlansRest(d)'
  <2>1. ~Running(d) /\ pc'[d] = pc[d]
    BY <1>1 DEF Alone, HasTurn, TrailInductive, Inductive, OneAtATime
  <2>2. pc[d] \in {"new", "done", "crashed"}
    BY <2>1 DEF Running, Ended
  <2>3. PlansRest(d)'
    BY <2>1, <2>2 DEF PlansRest, Planned, Executing, Writing
  <2>4. TrailGoesAlong(d)'
    <3>1. /\ Recorded(d, "started")' <=> Recorded(d, "started")
          /\ Recorded(d, "outcome")' <=> Recorded(d, "outcome")
      BY <1>1 DEF TrailOf
    <3>2. pc[d] = "new" => \A i \in DOMAIN audit' : audit'[i].command # d
      BY <1>1 DEF TrailOf, TrailInductive, TrailGoesAlong
    <3> QED
      BY <2>1, <2>2, <3>1, <3>2 DEF TrailInductive, TrailGoesAlong, Executing, Writing
  <2> QED
    BY <2>3, <2>4
<1>2. ~Torn' => HostSettled'
  BY TornStays DEF TrailInductive
<1> QED
  BY <1>1, <1>2 DEF TrailInductive, TrailOf

\* A step that neither writes nor retires, of a driver that is not between two hosts.
LEMMA SettledStays ==
  ASSUME Inductive, HostSettled, NEW c \in Commands, Alone(c), HasTurn(c),
         UNCHANGED <<sysfs, baseline>>, original' = None => original = None,
         ~Between(c), ~Between(c)'
  PROVE  HostSettled'
<1>1. ASSUME NEW d \in Commands PROVE ~Between(d) /\ ~Between(d)'
  <2>1. CASE d = c
    BY <2>1
  <2>2. CASE d # c
    <3>1. pc[d] \in {"new", "done", "crashed"} /\ pc'[d] = pc[d]
      BY <2>2 DEF Alone, HasTurn, Running, Ended, Inductive, OneAtATime
    <3> QED
      BY <3>1 DEF Between, Writing
  <2> QED
    BY <2>1, <2>2
<1>2. Whole(sysfs)' <=> Whole(sysfs)
  BY DEF Whole, Economized, RecordOf, SnapshotOf
<1> QED
  BY <1>1, <1>2 DEF HostSettled, Between

LEMMA StepIsAlone ==
  ASSUME TypeOK, NEW c \in Commands, Start(c) \/ Step(c) \/ Crash(c)
  PROVE  Alone(c)
<1> USE DEF Alone, Goto, TypeOK, CommandsTyped
<1>1. ASSUME NEW label, Exit(c, label) PROVE Alone(c)
  BY <1>1 DEF Exit
<1>2. CASE Start(c) \/ CollectGovernor(c) \/ CollectCeiling(c)
  BY <1>2 DEF Start, CollectGovernor, CollectCeiling, Collect
<1>3. CASE SaveOriginal(c) \/ Refuse(c) \/ AuditRetired(c) \/ Crash(c)
  BY <1>1, <1>3 DEF SaveOriginal, Refuse, AuditRetired, Crash
<1>4. ASSUME NEW intent, PlanApply(c, intent) PROVE Alone(c)
  BY <1>4 DEF PlanApply
<1>5. ASSUME NEW age, NEW activity, GuardApply(c, age, activity) PROVE Alone(c)
  BY <1>5 DEF GuardApply
<1>6. CASE PlanRestore(c) \/ Begin(c) \/ Skip(c) \/ Drive(c) \/ Agrees(c) \/ Drifted(c)
  BY <1>6 DEF PlanRestore, Begin, Skip, Drive, Agrees, Drifted
<1>7. CASE Write(c) \/ WriteFails(c) \/ Verified(c) \/ Mismatch(c)
  BY <1>7 DEF Write, WriteFails, Verified, Mismatch
<1>8. CASE Undo(c) \/ UndoFails(c) \/ CheckUndo(c) \/ RolledBack(c)
  BY <1>8 DEF Undo, UndoFails, CheckUndo, RolledBack
<1>9. CASE Outcome(c)
  BY <1>1, <1>9 DEF Outcome
<1>10. CASE Retire(c)
  BY <1>10 DEF Retire
<1> QED
  BY <1>2, <1>3, <1>4, <1>5, <1>6, <1>7, <1>8, <1>9, <1>10 DEF Step

LEMMA StepHasTurn ==
  ASSUME NEW c \in Commands, ~Concurrent, Start(c) \/ Step(c) \/ Crash(c)
  PROVE  HasTurn(c)
<1>1. CASE Start(c)
  BY <1>1 DEF Start, HasTurn
<1>2. CASE Crash(c)
  BY <1>2 DEF Crash, HasTurn
<1>3. CASE Step(c)
  BY <1>3 DEF HasTurn, Running, Ended, Step, CollectGovernor, CollectCeiling, SaveOriginal,
     PlanApply, GuardApply, PlanRestore, Refuse, Begin, Skip, Drive, Agrees, Drifted, Write,
     WriteFails, Verified, Mismatch, Undo, UndoFails, CheckUndo, RolledBack, Outcome, Retire,
     AuditRetired
<1> QED
  BY <1>1, <1>2, <1>3

\* Before a command has begun.
LEMMA TrailPlans ==
  ASSUME TrailInductive, Inductive', NEW c \in Commands, Alone(c), HasTurn(c),
         \/ Start(c) \/ CollectGovernor(c) \/ CollectCeiling(c)
         \/ SaveOriginal(c)
         \/ \E intent \in Intents : PlanApply(c, intent)
         \/ \E age \in Ages, activity \in Activities : GuardApply(c, age, activity)
         \/ PlanRestore(c)
  PROVE  TrailInductive'
<1>1. /\ UNCHANGED <<sysfs, audit, baseline>>
      /\ original' = None => original = None
      /\ pc[c] \in {"new", "governor", "ceiling", "database", "guard"}
      /\ pc'[c] \in {"governor", "ceiling", "database", "guard", "execute", "done"}
  <2>1. CASE Start(c) \/ CollectGovernor(c) \/ CollectCeiling(c)
    BY <2>1 DEF Start, CollectGovernor, CollectCeiling, Collect, Goto, TrailInductive, Inductive,
       TypeOK, CommandsTyped
  <2>2. CASE SaveOriginal(c)
    BY <2>2 DEF SaveOriginal, Inserted, Exit, Goto, TrailInductive, Inductive, TypeOK,
       CommandsTyped
  <2>3. CASE PlanRestore(c) \/ (\E intent \in Intents : PlanApply(c, intent))
             \/ \E age \in Ages, activity \in Activities : GuardApply(c, age, activity)
    BY <2>3 DEF PlanRestore, PlanApply, GuardApply, Goto, TrailInductive, Inductive, TypeOK,
       CommandsTyped
  <2> QED
    BY <2>1, <2>2, <2>3
<1>2. AuditTyped /\ TrailGoesAlong(c) /\ PlansRest(c) /\ Inductive
  BY DEF TrailInductive
<1>3. TrailOf(c) /\ \A d, e : Recorded(d, e)' <=> Recorded(d, e)
  BY <1>1, <1>2, TrailKept
<1>4. \A i \in DOMAIN audit : audit[i].command # c
  BY <1>1, <1>2 DEF TrailGoesAlong
<1>5. TrailGoesAlong(c)'
  BY <1>1, <1>4 DEF TrailGoesAlong, Recorded, Executing, Writing
<1>6. ~Between(c) /\ ~Between(c)'
  BY <1>1 DEF Between, Writing
<1>7. PlansRest(c)'
  <2>1. CASE ~(pc'[c] \in Planned)
    BY <1>1, <2>1 DEF PlansRest, Planned, Executing, Writing
  <2>2. ASSUME NEW intent, PlanApply(c, intent) PROVE PlansRest(c)'
    <3> DEFINE cpu == SnapshotOf(seen[c])
               p == plan_changes(cpu, desired_state(cpu, intent), original)
    <3>1. /\ plan'[c] = p /\ op'[c] = op[c] /\ seen'[c] = seen[c]
          /\ pc'[c] = "guard" /\ op[c] \in {"apply", "dry-run"}
      BY <1>2, <2>2 DEF PlanApply, Goto, Inductive, TypeOK, CommandsTyped
    <3>2. ASSUME p.actions # <<>>
          PROVE  p = plan_changes(cpu, desired_state(cpu, "economize"), RecordOf(baseline))
      <4>1. seen[c] \in Readings
        BY <1>2 DEF Inductive, TypeOK, CommandsTyped
      <4>2. original # None
        BY <3>2, <4>1, PlanChangesCases
      <4>3. original = RecordOf(baseline)
        BY <1>2, <4>2 DEF Inductive, RecordIsOriginal
      <4>4. desired_state(cpu, intent) = RestState(cpu)
        <5>1. desired_state(cpu, intent).mode = "rest"
          BY <3>2 DEF plan_changes, Refusal, Plan
        <5> QED
          BY <5>1 DEF desired_state, Undirected
      <4>5. desired_state(cpu, "economize") = RestState(cpu)
        BY DEF desired_state
      <4> QED
        BY <4>3, <4>4, <4>5
    <3> HIDE DEF p
    <3>3. Acts(c)' = p.actions
      BY <3>1 DEF Acts
    <3>4. (RecordOf(baseline) = RecordOf(baseline)') /\ SnapshotOf(seen[c]) = SnapshotOf(seen[c])'
      BY <1>1, <3>1 DEF RecordOf, SnapshotOf
    <3> QED
      BY <3>1, <3>2, <3>3, <3>4 DEF PlansRest, Writing
  <2>3. ASSUME NEW age, NEW activity, GuardApply(c, age, activity) PROVE PlansRest(c)'
    <3>1. /\ plan'[c] = guard_plan(plan[c], age, activity)
          /\ UNCHANGED <<op, seen>> /\ pc[c] = "guard" /\ pc'[c] = "execute"
      BY <1>2, <2>3 DEF GuardApply, Goto, Inductive, TypeOK, CommandsTyped
    <3>2. Acts(c)' = Acts(c) \/ Acts(c)' = <<>>
      BY <3>1, GuardPlanCases DEF Acts
    <3>3. RecordOf(baseline) = RecordOf(baseline)' /\ SnapshotOf(seen[c]) = SnapshotOf(seen[c])'
      BY <1>1, <3>1 DEF RecordOf, SnapshotOf
    <3> QED
      BY <1>2, <3>1, <3>2, <3>3 DEF PlansRest, Planned, Writing
  <2>4. CASE PlanRestore(c)
    <3>1. op'[c] = "restore" /\ pc'[c] = "execute"
      BY <1>2, <2>4 DEF PlanRestore, Goto, Inductive, TypeOK, CommandsTyped
    <3> QED
      BY <3>1 DEF PlansRest, Writing
  <2>5. CASE Start(c) \/ CollectGovernor(c) \/ CollectCeiling(c) \/ SaveOriginal(c)
    <3>1. pc'[c] \in {"governor", "ceiling", "database", "done"}
      <4>1. CASE SaveOriginal(c)
        BY <1>2, <4>1 DEF SaveOriginal, Exit, Goto, Inductive, TypeOK, CommandsTyped
      <4>2. CASE Start(c) \/ CollectGovernor(c) \/ CollectCeiling(c)
        BY <1>2, <4>2 DEF Start, CollectGovernor, CollectCeiling, Collect, Goto, Inductive, TypeOK,
           CommandsTyped
      <4> QED
        BY <2>5, <4>1, <4>2
    <3> QED
      BY <2>1, <3>1 DEF Planned
  <2> QED
    BY <2>2, <2>3, <2>4, <2>5
<1> QED
  BY <1>1, <1>2, <1>3, <1>5, <1>6, <1>7, SettledStays, TrailStep

\* The plan of a command that goes on with it.
LEMMA PlansStay ==
  ASSUME TrailInductive, NEW c \in Commands, UNCHANGED <<op, seen, plan, baseline>>,
         pc[c] \in Planned \cup Executing,
         pc'[c] \in {"drift"} \cup Writing => op[c] # "dry-run"
  PROVE  PlansRest(c)'
<1>1. PlansRest(c)
  BY DEF TrailInductive
<1>2. /\ RecordOf(baseline) = RecordOf(baseline)' /\ SnapshotOf(seen[c]) = SnapshotOf(seen[c])'
      /\ Acts(c)' = Acts(c)
  BY DEF RecordOf, SnapshotOf, Acts
<1> QED
  BY <1>1, <1>2 DEF PlansRest

\* It begins, or it refuses to.
LEMMA TrailBegins ==
  ASSUME TrailInductive, Inductive', NEW c \in Commands, Alone(c), HasTurn(c),
         Refuse(c) \/ Begin(c)
  PROVE  TrailInductive'
<1>1. AuditTyped /\ TrailGoesAlong(c) /\ Inductive
  BY DEF TrailInductive
<1>2. /\ UNCHANGED <<sysfs, original, baseline>>
      /\ pc[c] = "execute" /\ pc'[c] \in {"driver", "done"}
      /\ \A e : ~Recorded(c, e)
  BY <1>1 DEF Refuse, Begin, Exit, Goto, Inductive, TypeOK, CommandsTyped, TrailGoesAlong, Recorded
<1>3. ~Between(c) /\ ~Between(c)'
  BY <1>2 DEF Between, Writing
<1>4. NoResult \in [applied : BOOLEAN, error : BOOLEAN, rolled_back : BOOLEAN]
  BY DEF NoResult, Result
<1>5. CASE Refuse(c)
  <2>1. TrailOf(c) /\ ~Recorded(c, "started")'
    BY <1>1, <1>2, <1>4, <1>5, TrailGrows, TrailAdded DEF Refuse
  <2>2. pc'[c] = "done"
    BY <1>1, <1>5 DEF Refuse, Exit, Goto, Inductive, TypeOK, CommandsTyped
  <2>3. TrailGoesAlong(c)' /\ PlansRest(c)'
    BY <2>1, <2>2 DEF TrailGoesAlong, PlansRest, Planned, Executing, Writing
  <2> QED
    BY <1>1, <1>2, <1>3, <2>1, <2>3, SettledStays, TrailStep
<1>6. CASE Begin(c)
  <2>1. TrailOf(c) /\ Recorded(c, "started")' /\ ~Recorded(c, "outcome")'
    BY <1>1, <1>2, <1>4, <1>6, TrailGrows, TrailAdded DEF Begin
  <2>2. pc'[c] = "driver"
    BY <1>1, <1>6 DEF Begin, Goto, Inductive, TypeOK, CommandsTyped
  <2>3. TrailGoesAlong(c)'
    BY <2>1, <2>2 DEF TrailGoesAlong
  <2>4. PlansRest(c)'
    BY <1>2, <1>6, <2>2, PlansStay DEF Begin, Planned, Writing
  <2> QED
    BY <1>1, <1>2, <1>3, <2>1, <2>3, <2>4, SettledStays, TrailStep
<1> QED
  BY <1>5, <1>6

\* A driver that goes on keeps its intent on record, and its outcome off it.
LEMMA TrailDrives ==
  ASSUME TrailInductive, NEW c \in Commands, UNCHANGED audit,
         pc[c] \in Executing \ {"retire"}, pc'[c] \in Executing \ {"retire"}
  PROVE  TrailGoesAlong(c)' /\ TrailOf(c)
<1>1. TrailGoesAlong(c) /\ AuditTyped
  BY DEF TrailInductive
<1>2. TrailOf(c) /\ \A d, e : Recorded(d, e)' <=> Recorded(d, e)
  BY <1>1, TrailKept
<1> QED
  BY <1>1, <1>2 DEF TrailGoesAlong, Executing, Writing

\* Who is not c is not between two hosts.
LEMMA OthersBetween ==
  ASSUME Inductive, NEW c \in Commands, HasTurn(c), NEW d \in Commands, d # c
  PROVE  ~Between(d)
<1>1. pc[d] \in {"new", "done", "crashed"}
  BY DEF HasTurn, Running, Ended, Inductive, OneAtATime
<1> QED
  BY <1>1 DEF Between, Writing

LEMMA WholeKept ==
  ASSUME UNCHANGED baseline, NEW state
  PROVE  Whole(state)' <=> Whole(state')
BY DEF Whole, Economized, RecordOf, SnapshotOf

\* Before the first write.
LEMMA TrailChecks ==
  ASSUME TrailInductive, Inductive', NEW c \in Commands, Alone(c), HasTurn(c),
         Skip(c) \/ Drive(c) \/ Agrees(c) \/ Drifted(c)
  PROVE  TrailInductive'
<1> DEFINE last == Following(at[c]).action > Len(Acts(c))
<1>1. Inductive /\ CommandSound(c)
  BY DEF TrailInductive, Inductive
<1>2. /\ UNCHANGED <<sysfs, original, audit, op, seen, plan, baseline>>
      /\ pc[c] \in {"driver", "drift"} /\ pc'[c] \in {"drift", "write", "outcome"}
      /\ pc[c] = "driver" /\ pc'[c] # "outcome" => op[c] # "dry-run"
  BY <1>1 DEF Skip, Drive, Agrees, Drifted, Goto, Inductive, TypeOK, CommandsTyped
<1>3. TrailGoesAlong(c)' /\ TrailOf(c)
  BY <1>2, TrailDrives DEF Executing, Writing
<1>4. PlansRest(c)'
  <2>1. pc[c] = "drift" => op[c] # "dry-run"
    BY DEF TrailInductive, PlansRest
  <2> QED
    BY <1>2, <2>1, PlansStay DEF Executing, Writing
<1>5. ~Between(c)
  BY <1>2 DEF Between, Writing
<1>6. CASE pc'[c] # "write"
  <2>1. ~Between(c)'
    <3>1. CASE Skip(c)
      <4>1. result'[c] = NoResult
        BY <1>1, <3>1 DEF Skip, CommandSound, ResultSoFar
      <4> QED
        BY <1>2, <1>6, <4>1 DEF Between, Writing, Incomplete, NoResult, Result
    <3>2. CASE Drifted(c)
      <4>1. result'[c] = Result(FALSE, TRUE, FALSE)
        BY <1>1, <3>2 DEF Drifted, Inductive, TypeOK, CommandsTyped
      <4> QED
        BY <1>2, <1>6, <4>1 DEF Between, Writing, Incomplete, Result
    <3>3. CASE Drive(c) \/ Agrees(c)
      <4>1. pc'[c] \in {"drift", "write"}
        BY <1>1, <3>3 DEF Drive, Agrees, Goto, Inductive, TypeOK, CommandsTyped
      <4> QED
        BY <1>6, <4>1 DEF Between, Writing
    <3> QED
      BY <3>1, <3>2, <3>3
  <2> QED
    BY <1>1, <1>2, <1>3, <1>4, <1>5, <2>1, SettledStays, TrailStep
<1>7. CASE pc'[c] = "write"
  <2>1. Agrees(c) /\ pc[c] = "drift" /\ last
    BY <1>1, <1>7 DEF Skip, Drive, Agrees, Drifted, Goto, Acts, Inductive, TypeOK, CommandsTyped
  <2>2. \A i \in DOMAIN Acts(c), q \in Policies : HasExpected(c, i, q)
    <3>1. \A i \in DOMAIN Acts(c), q \in Policies : Reached(at[c], i, q)
      BY <1>1, <2>1, LoopsEnd
    <3>2. Found(c) = ActionAt(c).expected
      BY <2>1 DEF Agrees
    <3>3. \A i \in DOMAIN Acts(c), q \in Policies :
            Reached(at[c], i, q) => HasExpected(c, i, q)
      BY <1>1, <2>1, <3>2, DriverMoves DEF CommandSound, DriverIsAt, HasExpected, Found
    <3> QED
      BY <3>1, <3>3
  <2>3. ASSUME HostSettled PROVE HostSettled'
    <3>1. Whole(sysfs)
      BY <1>1, <1>5, <2>3, OthersBetween DEF HostSettled
    <3>2. Whole(Before(c))
      BY <1>1, <2>2, <3>1, HostIsBefore DEF Inductive
    <3>3. op[c] \in {"apply", "restore"}
      BY <2>1 DEF TrailInductive, PlansRest, Executing
    <3>4. Whole(After(c))
      BY <2>1, <2>2, <3>1, <3>3, ApplyLeadsToWhole, RestoreLeadsToWhole DEF Whole
    <3>5. Before(c)' = Before(c) /\ After(c)' = After(c)
      BY <1>2 DEF Before, After, InPlan, ActionOn, Acts
    <3>6. Whole(Before(c))' /\ Whole(After(c))'
      BY <1>2, <3>2, <3>4, <3>5, WholeKept
    <3>7. \A d \in Commands : d # c => pc'[d] \notin Writing
      BY <1>1, OthersBetween DEF Alone, Between
    <3>8. Between(c)'
      BY <1>7 DEF Between, Writing
    <3> QED
      BY <1>2, <2>3, <3>6, <3>7, <3>8 DEF HostSettled
  <2> QED
    BY <1>3, <1>4, <2>3, TrailStep
<1> QED
  BY <1>6, <1>7

\* While it writes, reads back and rolls back, the two hosts it is between stay the same.
LEMMA TrailWrites ==
  ASSUME TrailInductive, Inductive', NEW c \in Commands, Alone(c), HasTurn(c),
         pc[c] \in Writing, pc'[c] \in Writing, UNCHANGED <<original, audit, op, seen, plan, baseline>>,
         \A f \in Files : ~InPlan(c, f) => sysfs'[f] = sysfs[f]
  PROVE  TrailInductive'
<1>1. Inductive /\ CommandSound(c)
  BY DEF TrailInductive, Inductive
<1>2. TrailGoesAlong(c)' /\ TrailOf(c)
  BY TrailDrives DEF Executing, Writing
<1>3. PlansRest(c)'
  <2>1. op[c] # "dry-run"
    BY DEF TrailInductive, PlansRest
  <2> QED
    BY <2>1, PlansStay DEF Executing
<1>4. ASSUME HostSettled PROVE HostSettled'
  <2>1. Before(c)' = Before(c)
    <3>1. \A f \in Files, q \in Policies :
            (IF InPlan(c, f) THEN ActionOn(c, f).expected ELSE sysfs'[f][q])
              = IF InPlan(c, f) THEN ActionOn(c, f).expected ELSE sysfs[f][q]
      OBVIOUS
    <3> QED
      BY <3>1 DEF Before, InPlan, ActionOn, Acts
  <2>2. After(c)' = After(c)
    <3>1. \A f \in Files, q \in Policies :
            (IF InPlan(c, f) THEN ActionOn(c, f).target ELSE sysfs'[f][q])
              = IF InPlan(c, f) THEN ActionOn(c, f).target ELSE sysfs[f][q]
      OBVIOUS
    <3> QED
      BY <3>1 DEF After, InPlan, ActionOn, Acts
  <2>3. Whole(Before(c))' /\ Whole(After(c))'
    BY <1>4, <2>1, <2>2, WholeKept DEF HostSettled
  <2>4. \A d \in Commands : d # c => pc'[d] \notin Writing
    BY <1>1, OthersBetween DEF Alone, Between
  <2>5. Between(c)'
    BY DEF Between
  <2>6. original = None => sysfs' = baseline
    <3>1. ASSUME original = None PROVE sysfs' = baseline
      <4>1. Acts(c) = <<>>
        BY <1>1, <3>1 DEF CommandSound, PlanIsSound, Executing
      <4>2. \A f \in Files : ~InPlan(c, f)
        BY <1>1, <4>1 DEF InPlan, Inductive, TypeOK, CommandsTyped, PlanShape, Acts
      <4>3. sysfs = baseline /\ sysfs' \in Hosts /\ sysfs \in Hosts
        BY <1>1, <1>4, <3>1 DEF HostSettled, Inductive, TypeOK, HostTyped
      <4>4. \A f \in Files, q \in Policies : sysfs'[f][q] = sysfs[f][q]
        BY <4>2
      <4>5. sysfs' = [f \in Files |-> [q \in Policies |-> sysfs'[f][q]]]
        BY <4>3, HostIs
      <4>6. sysfs = [f \in Files |-> [q \in Policies |-> sysfs[f][q]]]
        BY <4>3, HostIs
      <4> QED
        BY <4>3, <4>4, <4>5, <4>6
    <3> QED
      BY <3>1
  <2> QED
    BY <2>3, <2>4, <2>5, <2>6 DEF HostSettled
<1> QED
  BY <1>2, <1>3, <1>4, TrailStep

\* A driver that comes to an end knows which of the two hosts it left, or that it is neither.
LEMMA TrailEnds ==
  ASSUME TrailInductive, Inductive', NEW c \in Commands, Alone(c), HasTurn(c),
         pc[c] \in Writing, pc'[c] = "outcome",
         UNCHANGED <<sysfs, original, audit, op, seen, plan, baseline>>,
         \/ Incomplete(result'[c])
         \/ \A i \in DOMAIN Acts(c), q \in Policies : HasExpected(c, i, q)
         \/ \A i \in DOMAIN Acts(c), q \in Policies : HasTarget(c, i, q)
  PROVE  TrailInductive'
<1>1. Inductive
  BY DEF TrailInductive
<1>2. TrailGoesAlong(c)' /\ TrailOf(c)
  BY TrailDrives DEF Executing, Writing
<1>3. PlansRest(c)'
  BY PlansStay DEF Executing, Writing
<1>4. ASSUME HostSettled PROVE HostSettled'
  <2>1. Whole(sysfs) \/ Incomplete(result'[c])
    BY <1>1, <1>4, HostIsBefore, HostIsAfter DEF HostSettled, Inductive
  <2>2. Whole(sysfs)' <=> Whole(sysfs)
    BY WholeKept
  <2>3. Incomplete(result[c])' <=> Incomplete(result'[c])
    BY DEF Incomplete
  <2>4. Between(c)' <=> Incomplete(result'[c])
    BY <2>3 DEF Between, Writing
  <2>5. \A d \in Commands : pc'[d] \notin Writing
    <3>1. \A d \in Commands : d # c => pc'[d] \notin Writing
      BY <1>1, OthersBetween DEF Alone, Between
    <3> QED
      BY <3>1 DEF Writing
  <2> QED
    BY <1>4, <2>1, <2>2, <2>4, <2>5 DEF HostSettled
<1> QED
  BY <1>2, <1>3, <1>4, TrailStep

\* The steps of the driver, from its first write on.
LEMMA TrailDriver ==
  ASSUME TrailInductive, Inductive', NEW c \in Commands, Alone(c), HasTurn(c),
         \/ Write(c) \/ WriteFails(c) \/ Verified(c) \/ Mismatch(c)
         \/ Undo(c) \/ UndoFails(c) \/ CheckUndo(c) \/ RolledBack(c)
  PROVE  TrailInductive'
<1>1. Inductive /\ CommandSound(c) /\ CommandSound(c)'
  BY DEF TrailInductive, Inductive
<1>2. UNCHANGED <<original, audit, op, seen, plan, baseline>> /\ pc[c] \in Writing
  BY DEF Write, WriteFails, Verified, Mismatch, Undo, UndoFails, CheckUndo, RolledBack, Writing
<1>3. CASE Write(c) \/ Undo(c)
  <2>1. pc[c] \in {"write", "undo"} /\ at[c].action > 0 /\ pc'[c] \in Writing
    BY <1>1, <1>3, DriverMoves DEF Write, Undo, Goto, Writing, Inductive, TypeOK, CommandsTyped
  <2>2. PICK v : Holds(c, v) \/ sysfs' = sysfs
    BY <1>3 DEF Write, Undo
  <2>3. \A f \in Files : ~InPlan(c, f) => sysfs'[f] = sysfs[f]
    BY <1>1, <1>2, <2>1, <2>2, WriteReaches
  <2> QED
    BY <1>2, <2>1, <2>3, TrailWrites
<1>4. CASE WriteFails(c) \/ Mismatch(c) \/ UndoFails(c) \/ CheckUndo(c)
  <2>1. pc'[c] \in Writing /\ sysfs' = sysfs
    BY <1>1, <1>4 DEF WriteFails, Mismatch, UndoFails, CheckUndo, Goto, Writing, Inductive, TypeOK,
       CommandsTyped
  <2> QED
    BY <1>2, <2>1, TrailWrites
<1>5. CASE Verified(c)
  <2>1. CASE pc'[c] = "write"
    BY <1>2, <1>5, <2>1, TrailWrites DEF Verified, Writing
  <2>2. CASE pc'[c] # "write"
    <3>1. /\ sysfs' = sysfs /\ pc'[c] = "outcome"
          /\ result'[c] = Result(TRUE, FALSE, FALSE)
      BY <1>1, <1>5, <2>2 DEF Verified, Goto, Inductive, TypeOK, CommandsTyped
    <3>2. \A i \in DOMAIN Acts(c)', q \in Policies : HasTarget(c, i, q)'
      BY <1>1, <3>1 DEF CommandSound, ResultSoFar, Result
    <3>3. \A i \in DOMAIN Acts(c), q \in Policies : HasTarget(c, i, q)
      BY <1>2, <3>1, <3>2 DEF HasTarget, Acts
    <3> QED
      BY <1>2, <3>1, <3>3, TrailEnds
  <2> QED
    BY <2>1, <2>2
<1>6. CASE RolledBack(c)
  <2>1. /\ sysfs' = sysfs /\ pc'[c] = "outcome"
        /\ result'[c] = Result(failed[c], TRUE, ~failed[c])
    BY <1>1, <1>6 DEF RolledBack, Goto, Inductive, TypeOK, CommandsTyped
  <2>2. CASE failed[c] = TRUE
    <3>1. Incomplete(result'[c])
      BY <2>1, <2>2 DEF Result, Incomplete
    <3> QED
      BY <1>2, <2>1, <3>1, TrailEnds
  <2>3. CASE failed[c] = FALSE
    <3>1. \A i \in DOMAIN Acts(c), q \in Policies : ~Reached(at[c], i, q)
      BY <1>1, <1>6, ActionsNumbered DEF RolledBack, Reached
    <3>2. \A i \in DOMAIN Acts(c), q \in Policies : HasExpected(c, i, q)
      BY <1>1, <1>6, <2>3, <3>1 DEF RolledBack, CommandSound, DriverIsAt
    <3> QED
      BY <1>2, <2>1, <3>2, TrailEnds
  <2> QED
    BY <1>1, <2>2, <2>3 DEF Inductive, TypeOK, CommandsTyped
<1> QED
  BY <1>3, <1>4, <1>5, <1>6

LEMMA TrailOutcome ==
  ASSUME TrailInductive, Inductive', NEW c \in Commands, Alone(c), HasTurn(c), Outcome(c)
  PROVE  TrailInductive'
<1>1. Inductive /\ AuditTyped /\ TrailGoesAlong(c)
  BY DEF TrailInductive
<1>2. /\ UNCHANGED <<sysfs, original, baseline>>
      /\ pc[c] = "outcome" /\ pc'[c] \in {"retire", "done"}
      /\ record_audit(c, "outcome", result[c])
      /\ result[c] \in [applied : BOOLEAN, error : BOOLEAN, rolled_back : BOOLEAN]
  BY <1>1 DEF Outcome, Exit, Goto, Inductive, TypeOK, CommandsTyped
<1>3. /\ TrailOf(c)
      /\ Recorded(c, "started")' /\ Recorded(c, "outcome")'
      /\ \E i \in DOMAIN audit' :
           audit'[i] = [command |-> c, event |-> "outcome", result |-> result[c]]
  BY <1>1, <1>2, TrailGrows, TrailAdded DEF TrailGoesAlong, Executing
<1>4. TrailGoesAlong(c)'
  BY <1>2, <1>3 DEF TrailGoesAlong, Executing, Writing
<1>5. PlansRest(c)'
  <2>1. CASE pc'[c] = "retire"
    <3>1. UNCHANGED <<op, seen, plan>>
      BY <1>1, <2>1 DEF Outcome, Exit, Goto, Inductive, TypeOK, CommandsTyped
    <3> QED
      BY <1>2, <2>1, <3>1, PlansStay DEF Executing, Writing
  <2>2. CASE pc'[c] = "done"
    BY <2>2 DEF PlansRest, Planned, Executing, Writing
  <2> QED
    BY <1>2, <2>1, <2>2
<1>6. CASE Incomplete(result[c])
  <2>1. Torn'
    BY <1>3, <1>6 DEF Torn, Incomplete
  <2> QED
    BY <1>3, <1>4, <1>5, <2>1, TrailStep
<1>7. CASE ~Incomplete(result[c])
  <2>1. ~Between(c) /\ ~Between(c)'
    BY <1>2, <1>7 DEF Between, Writing
  <2> QED
    BY <1>1, <1>2, <1>3, <1>4, <1>5, <2>1, SettledStays, TrailStep
<1> QED
  BY <1>6, <1>7

LEMMA TrailRetires ==
  ASSUME TrailInductive, Inductive', NEW c \in Commands, Alone(c), HasTurn(c),
         Retire(c) \/ AuditRetired(c)
  PROVE  TrailInductive'
<1>1. Inductive /\ AuditTyped /\ TrailGoesAlong(c) /\ CommandSound(c)
  BY DEF TrailInductive, Inductive
<1>2. UNCHANGED <<sysfs, baseline>> /\ pc[c] \in {"retire", "retired"} /\ pc'[c] \in {"retired", "done"}
  BY <1>1 DEF Retire, AuditRetired, Exit, Goto, Inductive, TypeOK, CommandsTyped
<1>3. ~Between(c) /\ ~Between(c)' /\ PlansRest(c)'
  BY <1>2 DEF Between, PlansRest, Planned, Executing, Writing
<1>4. CASE Retire(c)
  <2>1. TrailOf(c) /\ \A d, e : Recorded(d, e)' <=> Recorded(d, e)
    BY <1>1, <1>4, TrailKept DEF Retire
  <2>2. TrailGoesAlong(c)'
    <3>1. Recorded(c, "outcome")'
      BY <1>1, <1>2, <2>1 DEF TrailGoesAlong
    <3> QED
      BY <1>2, <3>1 DEF TrailGoesAlong, Executing, Writing
  <2>3. ASSUME HostSettled PROVE HostSettled'
    <3>1. Whole(sysfs)
      BY <1>1, <1>3, <2>3, OthersBetween DEF HostSettled
    <3>2. sysfs = baseline
      <4>1. \A f \in Files : sysfs[f][Lead] = baseline[f][Lead]
        BY <1>1, <1>4 DEF Retire, CommandSound, ResultSoFar
      <4> QED
        BY <1>1, <3>1, <4>1, WholeIsHome DEF Inductive
    <3>3. \A d \in Commands : ~Between(d)'
      <4>1. \A d \in Commands : d # c => ~Between(d)'
        BY <1>1, OthersBetween DEF Alone, Between
      <4> QED
        BY <1>3, <4>1
    <3>4. (sysfs = baseline)' /\ Whole(sysfs)'
      BY <1>2, <3>1, <3>2, WholeKept
    <3> QED
      BY <3>3, <3>4 DEF HostSettled, Between
  <2> QED
    BY <1>3, <2>1, <2>2, <2>3, TrailStep
<1>5. CASE AuditRetired(c)
  <2>1. NoResult \in [applied : BOOLEAN, error : BOOLEAN, rolled_back : BOOLEAN]
    BY DEF NoResult, Result
  <2>2. TrailOf(c) /\ (Recorded(c, "outcome") => Recorded(c, "outcome")')
    BY <1>1, <1>5, <2>1, TrailGrows, TrailAdded DEF AuditRetired
  <2>3. pc'[c] = "done" /\ original' = original
    BY <1>1, <1>5 DEF AuditRetired, Exit, Goto, Inductive, TypeOK, CommandsTyped
  <2>4. TrailGoesAlong(c)'
    <3>1. Recorded(c, "outcome")'
      BY <1>1, <1>2, <2>2 DEF TrailGoesAlong
    <3> QED
      BY <2>3, <3>1 DEF TrailGoesAlong, Executing, Writing
  <2> QED
    BY <1>1, <1>2, <1>3, <2>2, <2>3, <2>4, SettledStays, TrailStep
<1> QED
  BY <1>4, <1>5

\* A driver that dies between two hosts has its intent on record, and no outcome.
LEMMA TrailCrash ==
  ASSUME TrailInductive, Inductive', NEW c \in Commands, Alone(c), HasTurn(c), Crash(c)
  PROVE  TrailInductive'
<1>1. Inductive /\ AuditTyped /\ TrailGoesAlong(c)
  BY DEF TrailInductive
<1>2. UNCHANGED <<sysfs, original, audit, baseline>> /\ pc'[c] = "crashed"
  BY <1>1 DEF Crash, Exit, Goto, Inductive, TypeOK, CommandsTyped
<1>3. TrailOf(c) /\ \A d, e : Recorded(d, e)' <=> Recorded(d, e)
  BY <1>1, <1>2, TrailKept
<1>4. TrailGoesAlong(c)' /\ PlansRest(c)' /\ ~Between(c)'
  BY <1>2 DEF TrailGoesAlong, PlansRest, Between, Planned, Executing, Writing
<1>5. CASE Between(c)
  <2>1. Recorded(c, "started") /\ ~Recorded(c, "outcome")
    BY <1>1, <1>5 DEF Between, TrailGoesAlong, Executing, Writing
  <2>2. Torn'
    BY <1>2, <1>3, <2>1 DEF Torn, Running, Ended
  <2> QED
    BY <1>3, <1>4, <2>2, TrailStep
<1>6. CASE ~Between(c)
  BY <1>1, <1>2, <1>3, <1>4, <1>6, SettledStays, TrailStep
<1> QED
  BY <1>5, <1>6

LEMMA TrailInit == Init => TrailInductive
<1> SUFFICES ASSUME Init PROVE TrailInductive
  OBVIOUS
<1>1. Inductive
  BY InductiveInit
<1>2. AuditTyped /\ \A c \in Commands : TrailGoesAlong(c) /\ PlansRest(c)
  BY DEF Init, AuditTyped, TrailGoesAlong, PlansRest, Planned, Executing, Writing
<1>3. HostSettled
  BY DEF Init, HostSettled, Whole, Between, Writing
<1> QED
  BY <1>1, <1>2, <1>3 DEF TrailInductive

LEMMA TrailNext == ~Concurrent /\ TrailInductive /\ [Next]_vars => TrailInductive'
<1> SUFFICES ASSUME ~Concurrent, TrailInductive, [Next]_vars PROVE TrailInductive'
  OBVIOUS
<1>1. Inductive /\ TypeOK /\ Inductive'
  BY InductiveNext DEF TrailInductive, Inductive
<1>2. CASE UNCHANGED vars
  <2>1. UNCHANGED <<sysfs, original, audit, pc, op, seen, plan, result, baseline>>
    BY <1>2 DEF vars, local
  <2>2. AuditTyped' /\ \A d, e : Recorded(d, e)' <=> Recorded(d, e)
    BY <2>1 DEF TrailInductive, AuditTyped, Recorded
  <2>3. ASSUME NEW c \in Commands PROVE TrailGoesAlong(c)' /\ PlansRest(c)'
    <3>1. TrailGoesAlong(c) /\ PlansRest(c)
      BY DEF TrailInductive
    <3>2. TrailGoesAlong(c)'
      BY <2>1, <2>2, <3>1 DEF TrailGoesAlong
    <3>3. PlansRest(c)'
      BY <2>1, <3>1 DEF PlansRest, Acts, RecordOf, SnapshotOf
    <3> QED
      BY <3>2, <3>3
  <2>4. Torn' <=> Torn
    BY <2>1, <2>2 DEF Torn, Running, Incomplete
  <2>5. HostSettled => HostSettled'
    <3>1. /\ Whole(sysfs)' <=> Whole(sysfs)
          /\ \A c \in Commands : /\ Between(c)' <=> Between(c)
                                /\ Before(c)' = Before(c) /\ After(c)' = After(c)
      BY <2>1, WholeKept DEF Between, Incomplete, Before, After, InPlan, ActionOn, Acts
    <3>2. ASSUME NEW c \in Commands
          PROVE  (Whole(Before(c))' <=> Whole(Before(c))) /\ (Whole(After(c))' <=> Whole(After(c)))
      <4>1. Before(c)' = Before(c) /\ After(c)' = After(c)
        BY <3>1
      <4> QED
        BY <2>1, <4>1, WholeKept
    <3> QED
      BY <2>1, <3>1, <3>2 DEF HostSettled
  <2> QED
    BY <1>1, <2>2, <2>3, <2>4, <2>5 DEF TrailInductive
<1>3. ASSUME NEW c \in Commands, Start(c) \/ Step(c) \/ Crash(c)
      PROVE  HasTurn(c) /\ Alone(c)
  BY <1>1, <1>3, StepIsAlone, StepHasTurn
<1>4. ASSUME NEW c \in Commands, Start(c) \/ Step(c) \/ Crash(c) PROVE TrailInductive'
  BY <1>1, <1>3, <1>4, TrailPlans, TrailBegins, TrailChecks, TrailDriver, TrailOutcome,
     TrailRetires, TrailCrash DEF Step
<1> QED
  BY <1>2, <1>4 DEF Next

-------------------------------------------------------------------------------
(* How many faults it takes *)

\* Faults are only added.
LEMMA FaultsAdded ==
  ASSUME Inductive, [Next]_vars
  PROVE  faults \in Nat /\ faults' \in Nat /\ faults <= faults'
<1>1. faults \in Nat /\ MaxFaults \in Nat
  BY PowerControlAssumption DEF Inductive, TypeOK, HostTyped
<1> DEFINE added == faults' = faults \/ faults' = faults + 1
<1>2. ASSUME NEW c \in Commands, Start(c) \/ Crash(c) PROVE added
  BY <1>2 DEF Start, Crash
<1>3. ASSUME NEW c \in Commands, Step(c) PROVE added
  <2>1. CollectGovernor(c) \/ CollectCeiling(c) \/ SaveOriginal(c) => added
    BY DEF CollectGovernor, CollectCeiling, Collect, SaveOriginal, Fault, NoFault
  <2>2. \/ \E intent \in Intents : PlanApply(c, intent)
        \/ \E age \in Ages, activity \in Activities : GuardApply(c, age, activity)
        \/ PlanRestore(c) \/ Refuse(c)
        => added
    BY DEF PlanApply, GuardApply, PlanRestore, Refuse, Fault, NoFault
  <2>3. Begin(c) \/ Skip(c) \/ Drive(c) \/ Agrees(c) \/ Drifted(c) => added
    BY DEF Begin, Skip, Drive, Agrees, Drifted, Fault, NoFault
  <2>4. Write(c) \/ WriteFails(c) \/ Verified(c) \/ Mismatch(c) => added
    BY DEF Write, WriteFails, Verified, Mismatch, Fault, NoFault
  <2>5. Undo(c) \/ UndoFails(c) \/ CheckUndo(c) \/ RolledBack(c) => added
    BY DEF Undo, UndoFails, CheckUndo, RolledBack, Fault, NoFault
  <2>6. Outcome(c) \/ Retire(c) \/ AuditRetired(c) => added
    BY DEF Outcome, Retire, AuditRetired, Fault, NoFault
  <2> HIDE DEF added
  <2> QED
    BY <1>3, <2>1, <2>2, <2>3, <2>4, <2>5, <2>6 DEF Step
<1>4. faults' = faults \/ faults' = faults + 1
  BY <1>2, <1>3 DEF Next, vars
<1> QED
  BY <1>1, <1>4

\* What the count says of a command stays so.
LEMMA CountedStep ==
  ASSUME Inductive, Inductive', FaultsCounted, NEW c \in Commands, Alone(c), HasTurn(c),
         Start(c) \/ Step(c) \/ Crash(c), faults \in Nat, faults' \in Nat, faults <= faults'
  PROVE  Counted(c)'
<1> USE DEF Goto, Inductive, TypeOK, CommandsTyped
<1>1. Counted(c)
  BY DEF FaultsCounted
<1>2. CASE pc'[c] \notin {"verify", "undo", "undone", "outcome", "retire", "retired"}
  <2>1. failed'[c] = FALSE
    BY <1>2 DEF CommandSound, DriverIsAt
  <2> QED
    BY <1>2, <2>1 DEF Counted
<1>3. CASE Write(c)
  <2>1. /\ pc[c] = "write" /\ pc'[c] = "verify" /\ UNCHANGED <<plan, at, failed>>
        /\ Holds(c, ActionAt(c).target) \/ faults' = faults + 1
    BY <1>3 DEF Write, Fault
  <2>2. failed[c] = FALSE
    BY <2>1 DEF CommandSound, DriverIsAt
  <2>3. Holds(c, ActionAt(c).target) => Found(c)' = ActionAt(c)'.target
    <3>1. at[c].action > 0
      BY <2>1, DriverMoves
    <3>2. Holds(c, ActionAt(c).target) =>
            sysfs'[ActionAt(c).file][PolicyAt(c)] = ActionAt(c).target
      BY <1>3, <2>1, <3>1, WriteReaches DEF Write
    <3>3. Found(c)' = sysfs'[ActionAt(c).file][PolicyAt(c)] /\ ActionAt(c)' = ActionAt(c)
      BY <2>1 DEF Found, ActionAt, PolicyAt
    <3> QED
      BY <3>2, <3>3
  <2> QED
    BY <2>1, <2>2, <2>3 DEF Counted
<1>4. CASE WriteFails(c)
  <2>1. pc[c] = "write" /\ pc'[c] = "undo" /\ failed'[c] = failed[c] /\ faults' = faults + 1
    BY <1>4 DEF WriteFails, Fault
  <2>2. failed[c] = FALSE
    BY <2>1 DEF CommandSound, DriverIsAt
  <2> QED
    BY <2>1, <2>2 DEF Counted
<1>5. CASE Mismatch(c)
  <2>1. /\ pc[c] = "verify" /\ pc'[c] = "undo" /\ failed'[c] = failed[c]
        /\ Found(c) # ActionAt(c).target \/ faults' = faults + 1
    BY <1>5 DEF Mismatch, Fault
  <2>2. failed[c] = FALSE
    BY <2>1 DEF CommandSound, DriverIsAt
  <2>3. faults' >= 1
    BY <1>1, <2>1 DEF Counted
  <2> QED
    BY <2>1, <2>2, <2>3 DEF Counted
<1>6. CASE Undo(c)
  <2>1. /\ pc[c] = "undo" /\ pc'[c] = "undone" /\ UNCHANGED <<plan, at, failed>>
        /\ Holds(c, ActionAt(c).expected) \/ faults' = faults + 1
    BY <1>6 DEF Undo, Fault
  <2>2. faults >= 1 /\ (failed[c] => faults >= 2)
    BY <1>1, <2>1 DEF Counted
  <2>3. Holds(c, ActionAt(c).expected) => Found(c)' = ActionAt(c)'.expected
    <3>1. at[c].action > 0
      BY <1>6 DEF Undo
    <3>2. Holds(c, ActionAt(c).expected) =>
            sysfs'[ActionAt(c).file][PolicyAt(c)] = ActionAt(c).expected
      BY <1>6, <2>1, <3>1, WriteReaches DEF Undo
    <3>3. Found(c)' = sysfs'[ActionAt(c).file][PolicyAt(c)] /\ ActionAt(c)' = ActionAt(c)
      BY <2>1 DEF Found, ActionAt, PolicyAt
    <3> QED
      BY <3>2, <3>3
  <2>4. faults' >= 1 /\ (failed[c] => faults' >= 2)
    BY <2>2
  <2>5. Holds(c, ActionAt(c).expected) \/ faults' >= 2
    BY <2>1, <2>2
  <2> QED
    BY <2>1, <2>3, <2>4, <2>5 DEF Counted
<1>7. CASE UndoFails(c) \/ CheckUndo(c)
  <2>1. /\ pc[c] \in {"undo", "undone"} /\ pc'[c] = "undo"
        /\ failed'[c] => failed[c] \/ (pc[c] = "undone" /\ Found(c) # ActionAt(c).expected)
                         \/ faults' = faults + 1
    <3>1. CASE UndoFails(c)
      BY <3>1 DEF UndoFails, Fault
    <3>2. CASE CheckUndo(c) /\ faults' = faults + 1
      BY <3>2 DEF CheckUndo
    <3>3. CASE CheckUndo(c) /\ failed' = [failed EXCEPT ![c] = @ \/ Found(c) # ActionAt(c).expected]
      <4>1. failed'[c] <=> failed[c] \/ Found(c) # ActionAt(c).expected
        BY <3>3
      <4> QED
        BY <3>3, <4>1 DEF CheckUndo
    <3> QED
      BY <1>7, <3>1, <3>2, <3>3 DEF CheckUndo, Fault
  <2>2. faults >= 1 /\ (failed[c] => faults >= 2)
        /\ (pc[c] = "undone" /\ Found(c) # ActionAt(c).expected => faults >= 2)
    BY <1>1, <2>1 DEF Counted
  <2>3. faults' >= 1
    BY <2>2
  <2>4. failed'[c] => faults' >= 2
    <3>1. faults >= 2 => faults' >= 2
      OBVIOUS
    <3>2. faults' = faults + 1 => faults' >= 2
      BY <2>2
    <3> QED
      BY <2>1, <2>2, <3>1, <3>2
  <2> QED
    BY <2>1, <2>3, <2>4 DEF Counted
<1>8. CASE RolledBack(c)
  <2>1. /\ pc'[c] = "outcome" /\ failed'[c] = failed[c]
        /\ result'[c] = Result(failed[c], TRUE, ~failed[c])
    BY <1>8 DEF RolledBack
  <2>2. Incomplete(result'[c]) => failed[c]
    BY <2>1 DEF Incomplete, Result
  <2>3. failed[c] => faults' >= 2
    <3>1. failed[c] => faults >= 2
      BY <1>1 DEF Counted
    <3>2. faults >= 2 => faults' >= 2
      OBVIOUS
    <3> QED
      BY <3>1, <3>2
  <2> QED
    BY <2>1, <2>2, <2>3 DEF Counted, Incomplete
<1>9. CASE Verified(c) /\ pc'[c] = "outcome"
  <2>1. result'[c] = Result(TRUE, FALSE, FALSE) /\ failed'[c] = failed[c] /\ pc[c] = "verify"
    BY <1>9 DEF Verified
  <2>2. failed[c] = FALSE
    BY <2>1 DEF CommandSound, DriverIsAt
  <2> QED
    BY <1>9, <2>1, <2>2 DEF Counted, Incomplete, Result
<1>10. CASE Skip(c)
  <2>1. pc[c] = "driver" /\ pc'[c] = "outcome" /\ UNCHANGED <<result, failed>>
    BY <1>10 DEF Skip
  <2>2. failed[c] = FALSE /\ result[c] = NoResult
    BY <2>1 DEF CommandSound, DriverIsAt, ResultSoFar
  <2> QED
    BY <2>1, <2>2 DEF Counted, Incomplete, NoResult, Result
<1>11. CASE Drifted(c)
  <2>1. /\ pc[c] = "drift" /\ pc'[c] = "outcome" /\ failed' = failed
        /\ result'[c] = Result(FALSE, TRUE, FALSE)
    BY <1>11 DEF Drifted
  <2>2. failed[c] = FALSE
    BY <2>1 DEF CommandSound, DriverIsAt
  <2> QED
    BY <2>1, <2>2 DEF Counted, Incomplete, Result
<1>12. CASE pc'[c] \in {"retire", "retired"}
  <2>1. failed'[c] = failed[c]
    BY <1>12 DEF Start, Crash, Step, CollectGovernor, CollectCeiling, Collect, SaveOriginal,
     PlanApply, GuardApply, PlanRestore, Refuse, Begin, Skip, Drive, Agrees, Drifted, Write,
     WriteFails, Verified, Mismatch, Undo, UndoFails, CheckUndo, RolledBack, Outcome, Retire,
     AuditRetired, Exit
  <2>2. failed[c] => faults' >= 2
    <3>1. failed[c] => faults >= 2
      BY <1>1 DEF Counted
    <3>2. faults >= 2 => faults' >= 2
      OBVIOUS
    <3> QED
      BY <3>1, <3>2
  <2> QED
    BY <1>12, <2>1, <2>2 DEF Counted
<1>13. CASE Start(c) \/ Crash(c) \/ CollectGovernor(c) \/ CollectCeiling(c) \/ SaveOriginal(c)
            \/ (\E intent \in Intents : PlanApply(c, intent))
            \/ (\E age \in Ages, activity \in Activities : GuardApply(c, age, activity))
            \/ PlanRestore(c)
  <2>1. pc'[c] \in {"governor", "ceiling", "database", "guard", "execute", "done", "crashed"}
    BY <1>13 DEF Start, Crash, CollectGovernor, CollectCeiling, Collect, SaveOriginal, PlanApply,
       GuardApply, PlanRestore, Exit
  <2> QED
    BY <1>2, <2>1
<1>14. CASE Refuse(c) \/ Begin(c) \/ Drive(c) \/ Agrees(c) \/ (Verified(c) /\ pc'[c] # "outcome")
            \/ (Outcome(c) /\ pc'[c] # "retire") \/ AuditRetired(c)
  <2>1. pc'[c] \in {"done", "driver", "drift", "write"}
    BY <1>14 DEF Refuse, Begin, Drive, Agrees, Verified, Outcome, AuditRetired, Exit
  <2> QED
    BY <1>2, <2>1
<1>15. CASE Retire(c)
  BY <1>12, <1>15 DEF Retire
<1> QED
  BY <1>3, <1>4, <1>5, <1>6, <1>7, <1>8, <1>9, <1>10, <1>11, <1>12, <1>13, <1>14, <1>15 DEF Step

LEMMA CountedInit == Init => FaultsCounted
BY DEF Init, FaultsCounted, Counted

LEMMA CountedNext ==
  ~Concurrent /\ TrailInductive /\ FaultsCounted /\ [Next]_vars => FaultsCounted'
<1> SUFFICES ASSUME ~Concurrent, TrailInductive, FaultsCounted, [Next]_vars PROVE FaultsCounted'
  OBVIOUS
<1>1. /\ Inductive /\ TypeOK /\ AuditTyped /\ Inductive'
      /\ faults \in Nat /\ faults' \in Nat /\ faults <= faults'
  BY InductiveNext, FaultsAdded DEF TrailInductive, Inductive
<1>2. CASE UNCHANGED vars
  BY <1>2 DEF vars, local, FaultsCounted, Counted, Incomplete, Found, ActionAt, PolicyAt
<1>3. ASSUME NEW c \in Commands, Start(c) \/ Step(c) \/ Crash(c) PROVE FaultsCounted'
  <2>1. Alone(c) /\ HasTurn(c)
    BY <1>1, <1>3, StepIsAlone, StepHasTurn
  <2>2. Counted(c)'
    BY <1>1, <1>3, <2>1, CountedStep
  <2>3. ASSUME NEW d \in Commands, d # c PROVE Counted(d)'
    <3>1. pc[d] \in {"new", "done", "crashed"} /\ pc'[d] = pc[d]
      BY <1>1, <2>1, <2>3 DEF Alone, HasTurn, Running, Ended, Inductive, OneAtATime
    <3>2. failed'[d] = FALSE
      BY <1>1, <3>1 DEF Inductive, CommandSound, DriverIsAt
    <3> QED
      BY <3>1, <3>2 DEF Counted
  <2>4. ASSUME NEW i \in DOMAIN audit', audit'[i].event = "outcome", Incomplete(audit'[i].result)
        PROVE  faults' >= 2
    <3>1. faults >= 2 => faults' >= 2
      BY <1>1
    <3>2. CASE i \in DOMAIN audit /\ audit'[i] = audit[i]
      BY <2>4, <3>1, <3>2 DEF FaultsCounted
    <3>3. CASE ~(i \in DOMAIN audit /\ audit'[i] = audit[i])
      <4>1. audit' # audit
        BY <2>4, <3>3
      <4>2. \/ Refuse(c) \/ Begin(c) \/ AuditRetired(c)
            \/ Outcome(c)
        BY <1>3, <4>1 DEF Step, Start, Crash, CollectGovernor, CollectCeiling, Collect,
           SaveOriginal, PlanApply, GuardApply, PlanRestore, Skip, Drive, Agrees, Drifted, Write,
           WriteFails, Verified, Mismatch, Undo, UndoFails, CheckUndo, RolledBack, Retire
      <4>3. CASE Refuse(c) \/ Begin(c) \/ AuditRetired(c)
        <5>1. PICK event \in {"refused", "started", "retired"} : record_audit(c, event, NoResult)
          BY <4>3 DEF Refuse, Begin, AuditRetired
        <5>2. NoResult \in [applied : BOOLEAN, error : BOOLEAN, rolled_back : BOOLEAN]
          BY DEF NoResult, Result
        <5>3. audit'[i] = [command |-> c, event |-> event, result |-> NoResult]
          BY <1>1, <2>4, <3>3, <5>1, <5>2, TrailGrows
        <5> QED
          BY <2>4, <5>1, <5>3
      <4>4. CASE Outcome(c)
        <5>1. pc[c] = "outcome" /\ record_audit(c, "outcome", result[c])
              /\ result[c] \in [applied : BOOLEAN, error : BOOLEAN, rolled_back : BOOLEAN]
          BY <1>1, <4>4 DEF Outcome, TypeOK, CommandsTyped
        <5>2. audit'[i] = [command |-> c, event |-> "outcome", result |-> result[c]]
          BY <1>1, <2>4, <3>3, <5>1, TrailGrows
        <5>3. Incomplete(result[c])
          BY <2>4, <5>2 DEF Incomplete
        <5> QED
          BY <3>1, <5>1, <5>3 DEF FaultsCounted, Counted
      <4> QED
        BY <4>2, <4>3, <4>4
    <3> QED
      BY <3>2, <3>3
  <2>5. \A d \in Commands : Counted(d)'
    BY <2>2, <2>3
  <2>6. \A i \in DOMAIN audit' :
          audit'[i].event = "outcome" /\ Incomplete(audit[i].result)' => faults' >= 2
    BY <2>4 DEF Incomplete
  <2> QED
    BY <2>5, <2>6 DEF FaultsCounted
<1> QED
  BY <1>2, <1>3 DEF Next

-------------------------------------------------------------------------------
(* What the trail is good for *)

LEMMA TrailAlways ==
  ASSUME ~Concurrent
  PROVE  Spec => []TrailInductive /\ []FaultsCounted
<1>1. TrailInductive /\ FaultsCounted /\ [Next]_vars => TrailInductive' /\ FaultsCounted'
  BY TrailNext, CountedNext
<1>2. Init => TrailInductive /\ FaultsCounted
  BY TrailInit, CountedInit
<1> QED
  BY <1>1, <1>2, PTL DEF Spec

\* The trail tells when the host may be half changed: while no command runs, the host
\* is as it was found, or economized in all that economizing changes, unless a command
\* began and was never heard of again or says that it could not roll back
\* (execute_plan records the intent before the driver writes, and the outcome after).
THEOREM TrailAlwaysTells ==
  ASSUME ~Concurrent
  PROVE  Spec => []TrailTellsTorn
<1>1. TrailInductive => TrailTellsTorn
  <2> SUFFICES ASSUME TrailInductive, \A c \in Commands : ~Running(c), Unresolved = {}
               PROVE  sysfs \in {baseline, Economized(baseline)}
    BY DEF TrailTellsTorn
  <2>1. ~Torn
    <3>1. \A i \in DOMAIN audit :
            /\ audit[i].event = "outcome" => ~Incomplete(audit[i].result)
            /\ audit[i].event = "started" => Recorded(audit[i].command, "outcome")
      BY DEF Unresolved, Incomplete, Recorded
    <3> QED
      BY <3>1 DEF Torn, Recorded
  <2>2. \A c \in Commands : ~Between(c)
    BY DEF Between, Writing, Running, Ended
  <2> QED
    BY <2>1, <2>2 DEF TrailInductive, HostSettled, Whole
<1> QED
  BY <1>1, TrailAlways, PTL

\* On a host with any number of policies a changed host has its record, as long as the
\* trail does not tell that a command left it half changed (plan_restore,
\* retire_original_state).
RecoverableUnlessTorn == ~Torn => HostRecoverable

LEMMA WholeIsRecoverable == TrailInductive => RecoverableUnlessTorn
BY DEF TrailInductive, Inductive, HostSettled, RecordIsOriginal, RecoverableUnlessTorn,
   HostRecoverable

THEOREM TrailTellsOfLostRecords ==
  ASSUME ~Concurrent
  PROVE  Spec => []RecoverableUnlessTorn
BY WholeIsRecoverable, TrailAlways, PTL

\* A file access that goes wrong, whatever the command it strikes was about to do with
\* the other CPUs, cannot cost the way back (LinuxCpufreqDriver._roll_back,
\* restore_original).
THEOREM OneFaultNeverCosts ==
  ASSUME ~Concurrent
  PROVE  Spec => []OneFaultRecoverable
<1>1. TrailInductive /\ FaultsCounted => OneFaultRecoverable
  <2> SUFFICES ASSUME TrailInductive, FaultsCounted, \A c \in Commands : pc[c] # "crashed",
                      faults <= 1
               PROVE  HostRecoverable
    BY DEF OneFaultRecoverable
  <2>1. faults \in Nat
    BY PowerControlAssumption DEF TrailInductive, Inductive, TypeOK, HostTyped
  <2>2. ~(faults >= 2)
    BY <2>1
  <2>3. \A c \in Commands : ~Running(c) /\ Recorded(c, "started") => Recorded(c, "outcome")
    BY DEF TrailInductive, TrailGoesAlong, Running, Ended, Recorded
  <2>4. ~Torn
    BY <2>2, <2>3 DEF Torn, FaultsCounted
  <2> QED
    BY <2>4, WholeIsRecoverable DEF RecoverableUnlessTorn
<1> QED
  BY <1>1, TrailAlways, PTL
===============================================================================
