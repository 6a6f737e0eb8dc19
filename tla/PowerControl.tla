----------------------------- MODULE PowerControl -----------------------------
(***************************************************************************)
(* The part of nordfir that acts: the commands save-original, apply,       *)
(* dry-run and restore, each an operating-system process of its own, over  *)
(* the two things they share, the cpufreq files of the host and the state  *)
(* database.  A step is one access to a shared thing: one file read or     *)
(* written, one database transaction.  A command may die between any two   *)
(* steps (killed, power lost, an exception out of SQLite), and a file      *)
(* access may fail.                                                        *)
(*                                                                         *)
(* CPUs are numbered in the order in which the driver visits them, so CPU  *)
(* 1 is cpu0, the only one a snapshot looks at; CPUs whose cpufreq         *)
(* directory is a link to the same policy share its files.                 *)
(***************************************************************************)
EXTENDS Planning

CONSTANTS
  Commands,      \* the commands that may be started, each at most once
  NumCPUs,       \* how many cpu*/cpufreq directories the host has
  PolicyOf,      \* the policy behind each of them
  Governors, Ceilings,     \* what the two files of a policy may hold
  Hardware,      \* the rest of a snapshot, which nothing here changes
  Intents, Activities, Ages,   \* what apply is told and what its guards see
  Concurrent,    \* whether commands may overlap
  MayCrash,      \* whether a command may die
  MaxFaults      \* bound on the file accesses that go wrong

CPU == 1..NumCPUs
Policies == {PolicyOf[k] : k \in CPU}
Lead == PolicyOf[1]

ValuesOf(file) == IF file = "scaling_governor" THEN Governors ELSE Ceilings

\* One value for each of the two files.
PerFile(governor, ceiling) ==
  [f \in Files |-> IF f = "scaling_governor" THEN governor ELSE ceiling]

Hosts == {PerFile(g, m) : g \in [Policies -> Governors], m \in [Policies -> Ceilings]}
Readings == {PerFile(g, m) : g \in Governors \cup {None}, m \in Ceilings \cup {None}}

\* The snapshot that goes with what was read of the two files.
SnapshotOf(s) ==
  [node |-> Hardware.node,
   cpufreq_available |-> TRUE,
   available_governors |-> Hardware.available_governors,
   hardware_min_khz |-> Hardware.hardware_min_khz,
   hardware_max_khz |-> Hardware.hardware_max_khz,
   scaling_min_khz |-> Hardware.scaling_min_khz,
   governor |-> s["scaling_governor"],
   scaling_max_khz |-> s["scaling_max_freq"]]

ASSUME PowerControlAssumption ==
  /\ NumCPUs \in Nat \ {0}
  /\ DOMAIN PolicyOf = CPU
  /\ None \notin Governors /\ None \notin Ceilings
  /\ Ceilings \subseteq Int
  /\ RestGovernor \in Governors
  /\ None \notin {Hardware.hardware_min_khz, Hardware.hardware_max_khz} =>
       \A s \in Readings : s["scaling_max_freq"] # None =>
         RestCeiling(SnapshotOf(s)) \in Ceilings
  /\ Concurrent \in BOOLEAN /\ MayCrash \in BOOLEAN /\ MaxFaults \in Nat

VARIABLES
  sysfs,       \* sysfs[file][policy]: the host
  original,    \* the active row of original_states, or None
  audit,       \* the audit_events, in order
  pc, op,      \* where a command is, and which one it is
  seen,        \* what its snapshot says of the two files
  plan,        \* its plan
  at,          \* the action and the CPU its driver is at
  failed,      \* whether a value could not be written back
  result,      \* its driver's ApplyResult
  faults,      \* how many file accesses went wrong
  baseline     \* history: the host as nordfir found it

local == <<pc, op, seen, plan, at, failed, result>>
vars == <<sysfs, original, audit, local, faults, baseline>>

Operations == {"save-original", "apply", "dry-run", "restore"}
Ended == {"new", "done", "crashed"}
Running(c) == pc[c] \notin Ended

-------------------------------------------------------------------------------
(* Helpers *)

\* Where the driver's two nested loops begin: for each action, for each CPU.
First == [action |-> 1, cpu |-> 1]

Result(applied, error, rolled_back) ==
  [applied |-> applied, error |-> error, rolled_back |-> rolled_back]
NoResult == Result(FALSE, FALSE, FALSE)

Goto(c, label) == pc' = [pc EXCEPT ![c] = label]

\* A process that ends, in one way or another, forgets all it knew.
Exit(c, label) ==
  /\ Goto(c, label)
  /\ op' = [op EXCEPT ![c] = "none"]
  /\ seen' = [seen EXCEPT ![c] = PerFile(None, None)]
  /\ plan' = [plan EXCEPT ![c] = Refusal({})]
  /\ at' = [at EXCEPT ![c] = First]
  /\ failed' = [failed EXCEPT ![c] = FALSE]
  /\ result' = [result EXCEPT ![c] = NoResult]

Fault == faults < MaxFaults /\ faults' = faults + 1
NoFault == faults' = faults

record_audit(c, event, r) ==
  audit' = Append(audit, [command |-> c, event |-> event, result |-> r])

\* Mutant: the loop does not stop at the last CPU.
FollowingPastLast(p) ==
  IF p.cpu <= NumCPUs THEN [action |-> p.action, cpu |-> p.cpu + 1]
                      ELSE [action |-> p.action + 1, cpu |-> 1]

Following(p) ==
  IF p.cpu < NumCPUs THEN [action |-> p.action, cpu |-> p.cpu + 1]
                     ELSE [action |-> p.action + 1, cpu |-> 1]

\* Mutants: the rollback forgets the first CPU, or never leaves an action.
PrecedingButFirst(p) ==
  IF p.cpu > 2 THEN [action |-> p.action, cpu |-> p.cpu - 1]
               ELSE [action |-> p.action - 1, cpu |-> NumCPUs]
PrecedingForever(p) ==
  [action |-> p.action, cpu |-> IF p.cpu > 1 THEN p.cpu - 1 ELSE NumCPUs]

Preceding(p) ==
  IF p.cpu > 1 THEN [action |-> p.action, cpu |-> p.cpu - 1]
               ELSE [action |-> p.action - 1, cpu |-> NumCPUs]

ActionAt(c) == plan[c].actions[at[c].action]
PolicyAt(c) == PolicyOf[at[c].cpu]
Found(c) == sysfs[ActionAt(c).file][PolicyAt(c)]
Holds(c, value) == sysfs' = [sysfs EXCEPT ![ActionAt(c).file][PolicyAt(c)] = value]

-------------------------------------------------------------------------------
(* Starting a command, collect_hardware, the database *)

Init ==
  /\ sysfs \in Hosts
  /\ baseline = sysfs
  /\ original = None
  /\ audit = <<>>
  /\ pc = [c \in Commands |-> "new"]
  /\ op = [c \in Commands |-> "none"]
  /\ seen = [c \in Commands |-> PerFile(None, None)]
  /\ plan = [c \in Commands |-> Refusal({})]
  /\ at = [c \in Commands |-> First]
  /\ failed = [c \in Commands |-> FALSE]
  /\ result = [c \in Commands |-> NoResult]
  /\ faults = 0

Start(c) ==
  /\ pc[c] = "new"
  /\ Concurrent \/ \A d \in Commands : ~Running(d)
  /\ \E o \in Operations : op' = [op EXCEPT ![c] = o]
  /\ Goto(c, "governor")
  /\ UNCHANGED <<sysfs, original, audit, seen, plan, at, failed, result, faults, baseline>>

\* A file that cannot be read is a value that is not known.
Collect(c, file, next) ==
  /\ \/ seen' = [seen EXCEPT ![c][file] = sysfs[file][Lead]] /\ NoFault
     \/ seen' = [seen EXCEPT ![c][file] = None] /\ Fault
  /\ Goto(c, next)
  /\ UNCHANGED <<sysfs, original, audit, op, plan, at, failed, result, baseline>>

CollectGovernor(c) == pc[c] = "governor" /\ Collect(c, "scaling_governor", "ceiling")
CollectCeiling(c) == pc[c] = "ceiling" /\ Collect(c, "scaling_max_freq", "database")

\* Mutant: a second save replaces the row.
Overwritten(row, record) == IF record = None THEN row ELSE record

\* The unique index refuses a second active row, so nothing is overwritten.
Inserted(row, record) == IF row = None THEN record ELSE row

SaveOriginal(c) ==
  /\ pc[c] = "database" /\ op[c] = "save-original"
  /\ original' = Inserted(original, original_state_from(SnapshotOf(seen[c])))
  /\ Exit(c, "done")
  /\ UNCHANGED <<sysfs, audit, faults, baseline>>

PlanApply(c, intent) ==
  /\ pc[c] = "database" /\ op[c] \in {"apply", "dry-run"}
  /\ LET cpu == SnapshotOf(seen[c])
     IN  plan' = [plan EXCEPT ![c] = plan_changes(cpu, desired_state(cpu, intent), original)]
  /\ Goto(c, "guard")
  /\ UNCHANGED <<sysfs, original, audit, op, seen, at, failed, result, faults, baseline>>

GuardApply(c, age, activity) ==
  /\ pc[c] = "guard"
  /\ plan' = [plan EXCEPT ![c] = guard_plan(@, age, activity)]
  /\ Goto(c, "execute")
  /\ UNCHANGED <<sysfs, original, audit, op, seen, at, failed, result, faults, baseline>>

\* Mutant: a restore waits for an idle node too.
PlanRestoreGuarded(c) ==
  /\ pc[c] = "database" /\ op[c] = "restore"
  /\ plan' = [plan EXCEPT ![c] = plan_restore(SnapshotOf(seen[c]), original)]
  /\ Goto(c, "guard")
  /\ UNCHANGED <<sysfs, original, audit, op, seen, at, failed, result, faults, baseline>>

PlanRestore(c) ==
  /\ pc[c] = "database" /\ op[c] = "restore"
  /\ plan' = [plan EXCEPT ![c] = plan_restore(SnapshotOf(seen[c]), original)]
  /\ Goto(c, "execute")
  /\ UNCHANGED <<sysfs, original, audit, op, seen, at, failed, result, faults, baseline>>

-------------------------------------------------------------------------------
(* execute_plan and the driver *)

Refuse(c) ==
  /\ pc[c] = "execute" /\ blocked(plan[c])
  /\ record_audit(c, "refused", NoResult)
  /\ Exit(c, "done")
  /\ UNCHANGED <<sysfs, original, faults, baseline>>

\* Mutant: only the outcome is audited.
BeginUnrecorded(c) ==
  /\ pc[c] = "execute" /\ ~blocked(plan[c])
  /\ Goto(c, "driver")
  /\ UNCHANGED <<sysfs, original, audit, op, seen, plan, at, failed, result, faults, baseline>>

\* The intent is on record before the driver is called.
Begin(c) ==
  /\ pc[c] = "execute" /\ ~blocked(plan[c])
  /\ record_audit(c, "started", NoResult)
  /\ Goto(c, "driver")
  /\ UNCHANGED <<sysfs, original, op, seen, plan, at, failed, result, faults, baseline>>

\* The dry-run driver, and the Linux driver when there is nothing to do.
Skip(c) ==
  /\ pc[c] = "driver"
  /\ op[c] = "dry-run" \/ plan[c].actions = <<>>
  /\ Goto(c, "outcome")
  /\ UNCHANGED <<sysfs, original, audit, op, seen, plan, at, failed, result, faults, baseline>>

Drive(c) ==
  /\ pc[c] = "driver"
  /\ op[c] # "dry-run" /\ plan[c].actions # <<>>
  /\ at' = [at EXCEPT ![c] = First]
  /\ Goto(c, "drift")
  /\ UNCHANGED <<sysfs, original, audit, op, seen, plan, failed, result, faults, baseline>>

\* One read of the check that comes before the first write.
Agrees(c) ==
  /\ pc[c] = "drift"
  /\ Found(c) = ActionAt(c).expected
  /\ LET next == Following(at[c])
         last == next.action > Len(plan[c].actions)
     IN  /\ at' = [at EXCEPT ![c] = IF last THEN First ELSE next]
         /\ Goto(c, IF last THEN "write" ELSE "drift")
  /\ UNCHANGED <<sysfs, original, audit, op, seen, plan, failed, result, faults, baseline>>

Drifted(c) ==
  /\ pc[c] = "drift"
  /\ \/ Found(c) # ActionAt(c).expected /\ NoFault
     \/ Fault
  /\ result' = [result EXCEPT ![c] = Result(FALSE, TRUE, FALSE)]
  /\ Goto(c, "outcome")
  /\ UNCHANGED <<sysfs, original, audit, op, seen, plan, at, failed, baseline>>

\* A write takes effect, or is accepted and ignored by the kernel.
Write(c) ==
  /\ pc[c] = "write"
  /\ \/ Holds(c, ActionAt(c).target) /\ NoFault
     \/ sysfs' = sysfs /\ Fault
  /\ Goto(c, "verify")
  /\ UNCHANGED <<original, audit, op, seen, plan, at, failed, result, baseline>>

\* A write that raises is not in the driver's list of what it has done.
WriteFails(c) ==
  /\ pc[c] = "write" /\ Fault
  /\ at' = [at EXCEPT ![c] = Preceding(@)]
  /\ Goto(c, "undo")
  /\ UNCHANGED <<sysfs, original, audit, op, seen, plan, failed, result, baseline>>

Verified(c) ==
  /\ pc[c] = "verify"
  /\ Found(c) = ActionAt(c).target
  /\ LET next == Following(at[c])
         last == next.action > Len(plan[c].actions)
     IN  /\ at' = [at EXCEPT ![c] = next]
         /\ result' = IF last THEN [result EXCEPT ![c] = Result(TRUE, FALSE, FALSE)] ELSE result
         /\ Goto(c, IF last THEN "outcome" ELSE "write")
  /\ UNCHANGED <<sysfs, original, audit, op, seen, plan, failed, faults, baseline>>

Mismatch(c) ==
  /\ pc[c] = "verify"
  /\ \/ Found(c) # ActionAt(c).target /\ NoFault
     \/ Fault
  /\ Goto(c, "undo")
  /\ UNCHANGED <<sysfs, original, audit, op, seen, plan, at, failed, result, baseline>>

-------------------------------------------------------------------------------
(* The driver's rollback, in reverse order and as far as it gets *)

Undo(c) ==
  /\ pc[c] = "undo" /\ at[c].action > 0
  /\ \/ Holds(c, ActionAt(c).expected) /\ NoFault
     \/ sysfs' = sysfs /\ Fault
  /\ Goto(c, "undone")
  /\ UNCHANGED <<original, audit, op, seen, plan, at, failed, result, baseline>>

UndoFails(c) ==
  /\ pc[c] = "undo" /\ at[c].action > 0 /\ Fault
  /\ failed' = [failed EXCEPT ![c] = TRUE]
  /\ at' = [at EXCEPT ![c] = Preceding(@)]
  /\ UNCHANGED <<sysfs, original, audit, pc, op, seen, plan, result, baseline>>

CheckUndo(c) ==
  /\ pc[c] = "undone"
  /\ \/ /\ failed' = [failed EXCEPT ![c] = @ \/ Found(c) # ActionAt(c).expected]
        /\ NoFault
     \/ /\ failed' = [failed EXCEPT ![c] = TRUE]
        /\ Fault
  /\ at' = [at EXCEPT ![c] = Preceding(@)]
  /\ Goto(c, "undo")
  /\ UNCHANGED <<sysfs, original, audit, op, seen, plan, result, baseline>>

RolledBack(c) ==
  /\ pc[c] = "undo" /\ at[c].action = 0
  /\ result' = [result EXCEPT ![c] = Result(failed[c], TRUE, ~failed[c])]
  /\ Goto(c, "outcome")
  /\ UNCHANGED <<sysfs, original, audit, op, seen, plan, at, failed, faults, baseline>>

-------------------------------------------------------------------------------
(* The outcome, and the retirement of the record after a restore *)

\* Mutants: retire although the driver reports an error; retire whatever it reports.
RestoredDespiteError(c) ==
  op[c] = "restore" /\ (result[c].applied \/ plan[c].actions = <<>>)
RestoredAnyway(c) == op[c] = "restore"

Restored(c) ==
  /\ op[c] = "restore"
  /\ ~result[c].error
  /\ result[c].applied \/ plan[c].actions = <<>>

Outcome(c) ==
  /\ pc[c] = "outcome"
  /\ record_audit(c, "outcome", result[c])
  /\ IF Restored(c) THEN Goto(c, "retire") /\ UNCHANGED <<op, seen, plan, at, failed, result>>
                    ELSE Exit(c, "done")
  /\ UNCHANGED <<sysfs, original, faults, baseline>>

Retire(c) ==
  /\ pc[c] = "retire"
  /\ original' = None
  /\ Goto(c, "retired")
  /\ UNCHANGED <<sysfs, audit, op, seen, plan, at, failed, result, faults, baseline>>

AuditRetired(c) ==
  /\ pc[c] = "retired"
  /\ record_audit(c, "retired", NoResult)
  /\ Exit(c, "done")
  /\ UNCHANGED <<sysfs, original, faults, baseline>>

Crash(c) ==
  /\ MayCrash
  /\ Running(c)
  /\ Exit(c, "crashed")
  /\ UNCHANGED <<sysfs, original, audit, faults, baseline>>

-------------------------------------------------------------------------------

Step(c) ==
  \/ CollectGovernor(c) \/ CollectCeiling(c)
  \/ SaveOriginal(c)
  \/ \E intent \in Intents : PlanApply(c, intent)
  \/ \E age \in Ages, activity \in Activities : GuardApply(c, age, activity)
  \/ PlanRestore(c)
  \/ Refuse(c) \/ Begin(c) \/ Skip(c) \/ Drive(c)
  \/ Agrees(c) \/ Drifted(c)
  \/ Write(c) \/ WriteFails(c) \/ Verified(c) \/ Mismatch(c)
  \/ Undo(c) \/ UndoFails(c) \/ CheckUndo(c) \/ RolledBack(c)
  \/ Outcome(c) \/ Retire(c) \/ AuditRetired(c)

Next == \E c \in Commands : Start(c) \/ Step(c) \/ Crash(c)

Spec == Init /\ [][Next]_vars

\* A command that was started keeps running, as the processes of an operating
\* system do, unless it dies; nobody has to start one.
FairSpec == Spec /\ \A c \in Commands : WF_vars(Step(c))

-------------------------------------------------------------------------------
(* Properties *)

Labels == Ended \cup {"governor", "ceiling", "database", "guard", "execute", "driver",
                      "drift", "write", "verify", "undo", "undone", "outcome",
                      "retire", "retired"}

\* At most one action per file, between values that the file can hold.
PlanShape(actions) ==
  /\ Len(actions) \in 0..2
  /\ DOMAIN actions = 1..Len(actions)
  /\ actions = <<>> <=> Len(actions) = 0
  /\ \A i \in DOMAIN actions :
       /\ actions[i].file \in Files
       /\ actions[i].expected \in ValuesOf(actions[i].file)
       /\ actions[i].target \in ValuesOf(actions[i].file)
  /\ \A i, j \in DOMAIN actions : i # j => actions[i].file # actions[j].file

HostTyped ==
  /\ sysfs \in Hosts
  /\ baseline \in Hosts
  /\ original # None =>
       original.governor \in Governors /\ original.scaling_max_khz \in Ceilings
  /\ faults \in 0..MaxFaults

CommandsTyped ==
  /\ pc \in [Commands -> Labels]
  /\ op \in [Commands -> Operations \cup {"none"}]
  /\ seen \in [Commands -> Readings]
  /\ DOMAIN plan = Commands
  /\ \A c \in Commands : PlanShape(plan[c].actions)
  /\ at \in [Commands -> [action : 0..3, cpu : CPU]]
  /\ failed \in [Commands -> BOOLEAN]
  /\ result \in [Commands -> [applied : BOOLEAN, error : BOOLEAN, rolled_back : BOOLEAN]]

\* A driver at work stands on an action of its plan.
DriverInPlan ==
  \A c \in Commands :
    /\ pc[c] \in {"drift", "write", "verify", "undone"} =>
         at[c].action \in DOMAIN plan[c].actions
    /\ pc[c] = "undo" => at[c].action \in 0..Len(plan[c].actions)

\* What the variables may hold: a plan names each file once and only values the
\* file can hold, and the driver's loops, forward and back, never leave the plan.
TypeOK == HostTyped /\ CommandsTyped /\ DriverInPlan

\* What save-original records, or would record, of a host.
RecordOf(state) == original_state_from(SnapshotOf([f \in Files |-> state[f][Lead]]))

\* As long as commands do not overlap, the record that is active is the
\* configuration nordfir found, however often commands died, failed or were
\* repeated before it was stored (save_original_state, retire_original_state).
RecordIsOriginal == original # None => original = RecordOf(baseline)

\* "Recovery before change", for the policy the snapshots look at: as long as it
\* differs from what nordfir found, the record that leads back is there.
LeadRecoverable ==
  (\E f \in Files : sysfs[f][Lead] # baseline[f][Lead]) =>
     original # None /\ original = RecordOf(baseline)

\* The same for the whole host (docs/RESTORE.md, docs/ARCHITECTURE.md).
HostRecoverable ==
  sysfs # baseline => original # None /\ original = RecordOf(baseline)

\* On a host with several policies, where a command that dies can cost the way back,
\* a file access that goes wrong cannot, whatever its command was about to do with
\* the CPUs before and after it (LinuxCpufreqDriver._roll_back, restore_original).
OneFaultRecoverable ==
  (\A c \in Commands : pc[c] # "crashed") /\ faults <= 1 => HostRecoverable

\* docs/RESTORE.md: the record is retired "only when the host is verifiably back
\* at the original values".
RetireOnlyWhenBack ==
  [][original # None /\ original' = None => sysfs = baseline]_vars

\* docs/ARCHITECTURE.md: "No write happens until original state is stored".
NoWriteWithoutRecord == [][sysfs' # sysfs => original # None]_vars

\* What a driver reports is so: applied without an error, every file it was to
\* write holds the target in every policy; rolled back, every one of them holds
\* what was there before (LinuxCpufreqDriver.apply, _roll_back).
ResultIsTrue ==
  \A c \in Commands : pc[c] = "outcome" =>
    \A i \in DOMAIN plan[c].actions : LET a == plan[c].actions[i] IN
      \A p \in Policies :
        /\ result[c].applied /\ ~result[c].error => sysfs[a.file][p] = a.target
        /\ result[c].rolled_back => sysfs[a.file][p] = a.expected

\* The host as economizing leaves it: a file that has to change changes everywhere.
Economized(state) ==
  LET cpu == SnapshotOf([f \in Files |-> state[f][Lead]])
      plans == plan_changes(cpu, desired_state(cpu, "economize"), RecordOf(state)).actions
      action(f) == {i \in DOMAIN plans : plans[i].file = f}
  IN  [f \in Files |-> [p \in Policies |->
         IF action(f) = {} THEN state[f][p]
                           ELSE plans[CHOOSE i \in action(f) : TRUE].target]]

\* Commands whose traces tell that the host may be anything: started and never
\* heard of again, or ended with a rollback that is incomplete.
Unresolved ==
  {i \in DOMAIN audit :
     \/ /\ audit[i].event = "started"
        /\ \A j \in DOMAIN audit :
             audit[j].event = "outcome" => audit[j].command # audit[i].command
     \/ audit[i].event = "outcome" /\ audit[i].result.error /\ audit[i].result.applied}

\* The trail tells when the host may be half changed: while no command runs, and
\* unless an event of the trail says so, the host is wholly as it was found or
\* wholly economized (execute_plan records the intent before the driver writes).
TrailTellsTorn ==
  (\A c \in Commands : ~Running(c)) /\ Unresolved = {} =>
     sysfs \in {baseline, Economized(baseline)}

\* Whatever overlaps, dies or fails, a file holds what nordfir found in it or the
\* value of the state of rest, for a host whose policies started out alike.
NoForeignValue ==
  (\A f \in Files, p \in Policies : baseline[f][p] = baseline[f][Lead]) =>
    \A f \in Files, p \in Policies :
      sysfs[f][p] \in {baseline[f][p], Economized(baseline)[f][p]}

\* Every command comes to an end: no loop of the driver or of its rollback runs
\* forever, whatever fails.
EveryCommandEnds == \A c \in Commands : pc[c] = "governor" ~> ~Running(c)

\* docs/GUARDS.md: "recovery must always be possible".  A restore that starts with
\* a record, and that neither dies nor meets a fault, brings the host back and
\* retires the record.
RestoreReturns ==
  \A c \in Commands :
    (pc[c] = "database" /\ op[c] = "restore" /\ original # None /\ faults = MaxFaults
       /\ \A f \in Files : seen[c][f] # None)
      ~> \/ sysfs = baseline /\ original = None
         \/ pc[c] = "crashed"

\* The abstract promise: while commands do not overlap and the CPUs share one policy,
\* PowerControl keeps it.  A configuration is what save-original would record of it: the
\* record is stored from a host that is as nordfir found it and says so, it is neither
\* replaced nor lost, the host changes only while it is there, and it is retired only on a
\* host that is as it says (state.py save_original_state, engine.py restore_original).
Recovery == INSTANCE RecoveryProtocol
  WITH host <- RecordOf(sysfs), record <- original, origin <- RecordOf(baseline)

KeepsPromise == Recovery!Spec
===============================================================================
