# nordfir, specified in TLA+

nordfir puts a small server into an energy-saving state (a slower cpufreq
governor and a lower frequency ceiling) and brings it back. The repository holds
two engines that do so: the Python one in use (`src/src/nordfir/`) and the Rust one
it grew out of (`src/archive/rust/`, v0.5), which has its own recovery store, driver,
audit and service. This directory holds TLA+ models of both, the TLC configurations
that check them on small instances, and proofs, checked by TLAPS, of what matters
most for every size of the constants. Line numbers refer to the files there.

## The system

### The Python engine

| Part | State it keeps | Operations | Hard because | Correct when |
|---|---|---|---|---|
| hardware collection `hardware.py` | none | `collect_hardware` reads /sys of **cpu0 only**, file after file | a file may change between reads, or be unreadable | what is not known is `None`, never a guess |
| decision `engine.py` | none | `desired_state` | every input may be unknown | unknown blocks; repeated economizing settles |
| planning `plan.py` | none | `plan_changes`, `plan_restore` | record and hardware may disagree | a plan that is let through has a way back |
| guards `guards.py` | none | `collect_activity`, `guard_plan` | stale snapshots, clock skew | only a fresh snapshot of an idle node passes |
| original state `state.py` | row of `original_states` with `retired_at IS NULL` | save, load, retire | saved again after a crash, retired too early | the record is what nordfir found |
| driver `driver.py` | the sysfs files themselves | `apply`, `_roll_back` | nested loops of writes, each of which may fail, be ignored, or be the last thing the process does | the result says what the host holds |
| engine `engine.py` | none | `execute_plan`, `restore_original`, `run_once` | database and host change in separate steps | intent before write; retire only when back |
| audit `audit.py` | `audit_events`, hash-chained | `record_audit`, `audit_head`, `verify_audit` | several processes append; the file is edited from outside | the chain is in order; edits are told |
| database `db.py` | the SQLite file | `initiate_db`, `save_snapshot`, `prune_snapshots` | ids drawn from what is left | ids in the log keep their meaning |
| observer `observer.py` | counters of one run | `observe`, `_cycle` | errors in the error handler, two limits, signals | bounded, stoppable, honest about itself |
| command line `cli.py` | none | one process per command | commands overlap and die | each command does its steps in order |
| energy `energy.py`, preflight `preflight.py` | `power_models`; none | report, checks | | estimates are never measurements; one failed check is enough |

The commands share the cpufreq files of the host and the SQLite database. Nothing
locks the host; SQLite locks one transaction at a time.

### The archived Rust engine

| Part | State it keeps | Operations | Hard because | Correct when |
|---|---|---|---|---|
| recovery store `state/original_power.rs` | a snapshot file, an archive directory of hard links | `save`, `load_for_write`, `retire`, `inspect_lifecycle` | no lock; files, links and directory syncs with kills and power losses in between | no saved snapshot is ever in neither place |
| REST driver `drivers/linux_rest.rs`, `energy/rest_plan.rs` | the three cpufreq files | `plan`, `apply`, `restore_active` | the kernel refuses a limit beyond the other; two kinds of rollback; reads back after every write | what it reports is what the host holds |
| audit `audit/mod.rs` | a file, two collectors behind sockets | fan-out of one event to all sinks | one sink refuses, a receipt is lost | nothing is written before every sink has the intent |
| commands that write `main.rs` | none | save-original-state, apply-rest, restore-active | the parts above one after another, each of which may fail or be killed | success is told; the snapshot goes only when the host is back |
| engine, guards, authority `engine.rs`, `guards/`, `authority/` | none | `evaluate` | missing, unknown, old and future observations | not knowing never permits |
| preflight `preflight/mod.rs`, `main.rs` | none | preflight-rest-local | its checks are separate from those of the apply | ready means that apply works |
| observer service `service.rs`, `state/linux.rs` | counters of one run | the heartbeat loop | limits, stop requests, kernel counters that go backwards | bounded, stoppable, sane percentages |
| lifecycle status | none | lifecycle-status-local | looks at file and archive while others move the one into the other | misses nothing |

PROJECT.json lists the hazards of both at their lines, with the properties that watch
them.

## The modules

| Module | What it is |
|---|---|
| `Planning` | the Python engine's pure operators: `desired_state`, `plan_changes`, `plan_restore`, `guard_plan`, `original_state_from` |
| `PlanCycle`, `PlanCycleProofs` | save, economize, restore over every combination of known and unknown values, the host being changed from outside in between; its theorems |
| `PowerControl` | the Python commands as processes: crashes, faults, several CPUs and policies, overlap |
| `RecoveryProtocol` | the abstract promise of both engines: the record is of the configuration in which nordfir found the host, the host leaves it only while it is recorded, the record goes only while the host is back. A restart of the machine is defined beside it and is no step of it |
| `PowerControlInvariant`, `PowerControlProofs` | the inductive invariants of `PowerControl`; type correctness and the safety theorems |
| `AuditChain`, `AuditChainProofs` | the Python audit log with its writers, the verification, edits from outside; its theorems |
| `Observer`, `ObserverProofs` | observers, recorded decisions, snapshots, pruning; that ids are not reused, the summary is true and retention bounded |
| `RestCommands` | what the Rust modules share: the processes and "nothing" |
| `RestPlanning` | snapshots, plans for REST, and when an apply or a restore may start from them |
| `RecoveryStore`, `RecoveryStoreProofs` | the snapshot file and its archive, system call by system call; that no snapshot is lost |
| `RestDriver` | the probe and the driver, file access by file access |
| `RestAudit` | one event on its way through the sinks |
| `RestLifecycle`, `RestLifecycleInvariant` | the three commands that write, composed of the four modules above; their inductive invariants |
| `RestLifecycleProofs`, `RestLifecycleSafety` | theorems about types, snapshots and the audit; theorems about the files, and that the commands follow `RecoveryProtocol` |
| `LifecycleStatus` | the status command while others use the store |
| `EnergyEstimates`, `ObserveService` | the arithmetic of a heartbeat; the service loop |
| `RestEvaluation` | the engine with its guards and policies, asked every question of what was observed |
| `RestPreflight` | the preflight and the apply that would follow it |
| `ReadOnlyCommands`, `ReadOnlyCommandsProofs` | composes the last five: one process with one of the commands that change nothing; the theorems about all of them |
| `MC...` | the small instances for TLC |

`PowerControl` uses the operators of `Planning` for its plans. It and `Observer` take
`record_audit` as one step that appends an event; that this is what its transaction
amounts to is `AuditChain`'s subject. `PowerControl` and `RestLifecycle` both
instantiate `RecoveryProtocol`.

### State and steps, Python

* `PowerControl.sysfs[file][policy]` are the two files nordfir writes; CPUs whose
  cpufreq directory is a link to the same policy share them (`PolicyOf`). `original`
  is the active row of the database. A step is one file access or one transaction,
  so that a crash or another command can come between any two that the program
  makes one after the other. `at` is the position in the driver's loops
  (driver.py:88-99 forward, 104-111 back); `Holds` with `NoFault` is a write that
  takes effect, with `Fault` one that the kernel accepts and ignores.
  `Outcome`, `Retire` and `AuditRetired` are the end of `restore_original`
  (engine.py:121-128): three transactions, three steps.
* `PlanCycle` runs the same operators with a driver that always succeeds, so that
  the inputs, not the interleavings, are what is enumerated.
* In `AuditChain` a digest is the sequence of contents it is computed from: two
  digests agree exactly when what they cover agrees. `Abandon` is a writer's way
  out of a transaction that is not a commit: the wait for the lock timed out, a
  statement raised and was rolled back, or the process died. `Edit` is any one
  edit of the file from the kinds docs/AUDIT.md names: any number of events removed or
  stripped of their hashes, one rewritten, two exchanged. `Chained` says without a
  loop what `verify_audit` computes with one. A log that has lost every hash is
  `Chained`: all of its events count as older (`Legacy`).
* In `Observer` a call that raises changes nothing in the database. `held` is the
  snapshot id that the cycle in hand will refer to. `captured`, `capture` give
  every snapshot taken a name of its own, so that an id given twice would show.

### State and steps, Rust

* `RecoveryStore.active` is the snapshot file: nothing, a snapshot, or `Torn`, a file
  that does not decode. `decode` wants neither a final newline nor a whole last value
  (original_power.rs:74-103), so a file that ends inside `scaling_max_mhz=4700` may
  decode as another snapshot: `Cuts[s]` are those of `s`, and `RestPlanning!DecodesCut`
  says which they are. `archive[t]` is the archive entry whose name is made of the
  capture time `t`. A step is a system call: `Create` is the exclusive open,
  `WriteAll` and `Sync` the two calls whose failure (`WriteShort`, `SyncFails`) a save
  answers with `Withdraw`, the removal of the file by its name; a save that is killed
  before it, or whose removal fails too, leaves the file: torn, cut, or whole. `Link`
  links whatever the file is *by then*, `RemoveActive` removes it. `clashed` remembers
  that a `Withdraw` removed a file on which another command relied.
* What a power loss leaves: of a file that its writer (`writer`, `writers[t]`) has not
  synchronized all, nothing that decodes, or a part that does; of an entry whose
  directory was not synchronized since, an earlier state of it (`older`, `onDisk`;
  original_power.rs:285-292). `MayLosePower` leaves power losses out where a run is not
  about them. A directory is open to others between its creation and
  `set_permissions`; a command that dies there leaves it so, and every later load is
  refused.
* `RestDriver.drive[c]` is where a command is inside the driver: the steps it makes
  (a file, what it expects, what it writes, what a rollback writes), which one it is
  at, and whether an undo has failed. `check` is `verify_live_matches_plan`, `expect`
  the look before a write, `verify` the read-back. An apply undoes to the recorded
  values, a restore to the live ones. `Crosses` is the kernel's refusal of a limit
  beyond the other.
* `RestAudit.event[c]` is the event under way and the next sink; `delivered` what the
  sinks have. `AcceptUnheard` is a collector whose receipt is lost or late, or a file
  that was written and not synchronized.
* `RestLifecycle.stage[c]` is the line of `main.rs` a command has come to; in a stage it
  takes steps of the store, the driver or the audit and goes on with the answer.
  `finish_audited` is `Finish` and `Finished`. The file sink lies in the state
  directory and refuses while that is not private. Time is a choice from `Clock`.
  `shortened` remembers that a snapshot file was left, or came of a power loss, that is
  cut and yet decodes. A machine that earlier commands have left alone has the settings
  of its kernel, or a ceiling that counts as theirs (`Origins`).
* `RestEvaluation` looks at the host in three moments between which the clock may run
  or be set back, then asks one question: an intent, a set of guards, a policy.
  `truth` remembers what was the case. The guards and policies are all that the crate
  offers and not only those of `economize-local`, which never shuts down.
* `RestPreflight` draws the capabilities and the snapshot from what a kernel may show,
  in quarters of a megahertz, so that the rounding of the plan to whole megahertz and
  the tolerance of half a megahertz both matter. `writable` is what the code looks at,
  a write bit of the governor's file (linux_power.rs:42-45). `ApplyOutcome` is the apply
  that follows at once: its intent, the snapshot, the plan, the writes. Whether the
  sinks take the intent (`told`) and which files the caller may write (`allowed`, from
  `Allowances`) are inputs of its own, which the preflight has not looked at.
* `LifecycleStatus.counted` is the set of the archived snapshots where the code has
  their number, so that the property speaks of each by name. The other commands stop
  where something has clashed: nothing is said of what comes after.
* `ObserveService.beat` is the position in the loop; `last` is how many heartbeats may
  be published once a stop was requested.

## The runs

| Run | Question | Result |
|---|---|---|
| `PlanCycle` | do the planners and the guards let anything unsafe through? | no |
| `OnePolicy` | one cpufreq policy, commands one after another, crashes and faults: is there always a way back, does every command end, does a restore bring the host back? | yes; every step is one of `RecoveryProtocol` |
| `SeveralPolicies` | a policy per CPU: what still holds? | what is said of cpu0's policy, of the driver's result and of the trail; one fault alone, without a crash, never costs the way back |
| `Overlap` | commands overlap: can a file come to hold a value nobody meant? | no |
| `AuditLog` | is the log in order under concurrent writers, and what does verification tell of an edit? | yes; everything but events cut off at the end and a log without any hash, which a noted head tells |
| `Observer` | are references, retention, summary and stop as documented, with errors and crashes? | yes |
| `RestLifecycle` | two of the Rust commands at once, with kills and one failing call, power loss or change by another tool: is the snapshot kept, is every write told of before and every success after, is the report true? | yes, but where a failed save removes the file of another; one at a time they follow `RecoveryProtocol`, until a cut snapshot file that decodes is left |
| `ReadOnlyCommands` | are the Rust commands that change nothing right about what they say? | yes, with four exceptions to "ready means that apply works" that `ReadyMeansApplies` names |
| `RestoreRefused` | is recovery always possible (docs/GUARDS.md)? | no: finding |
| `RetiredTooSoon` | is the record retired only when the host is back (docs/RESTORE.md)? | no: finding |
| `ObserverKilled` | does a bad cycle never kill the observer (observer.py:55)? | it does: finding |
| `RetireStuck` | does a verified restore archive the snapshot, so that a new cycle can begin (Rust, docs/CODE_WALKTHROUGH.md)? | not after one that was killed halfway: finding |

### The findings

* A snapshot looks at cpu0 only, and the driver's drift check wants cpu0's value of
  every CPU. An apply that dies between two policies leaves them different: every
  later restore is refused (`RestoreRefused`).
* A restore that dies after cpu0's policy makes the host look restored: the next
  restore has no action and retires the record (`RetiredTooSoon`).
* The handler of a bad observer cycle writes to the database that may be what
  failed; when it raises, the observer is gone (`ObserverKilled`).
* A Rust restore that is killed between the link into the archive and the removal of
  the snapshot file leaves the archive name taken by the same snapshot: every later
  restore verifies the host and fails to retire, and no new snapshot can be saved
  (`RetireStuck`). The same comes of two snapshots captured in one second, since the
  name is made of whole seconds.

### Where the code falls short, as exceptions of properties

Some disagreements are not runs of their own; a property names each as its exception,
and holds of everything else.

* **An audit log that has lost every hash verifies**, with nothing checked: all of its
  events count as older than the chain (audit.py:73-78). docs/AUDIT.md:25-29 says that
  anyone who edits the file "still breaks the chain" and that a stripped hash is
  reported, and the limits it lists (33-41) do not name this one. It is the last
  disjunct of `EditTold`. A noted head tells of it (`AnchorTold`).
* **A cut snapshot file may load** (Rust). A save that is killed inside `write_all`, or
  that fails there and fails to remove the file, or a power loss before the file is
  synchronized, may leave one that ends inside its last value: 470 of 4700 MHz. It
  decodes when what is left is no lower than the floor. A restore from it leaves that
  ceiling and reports success. `KeepsPromise` ends there (`shortened`). A whole file
  whose `sync_all` failed loads as well, and is as good as one whose save succeeded.
* **A save that fails removes the file by its name** (original_power.rs:159), whosever
  it is by then: a restore that loaded the unfinished file may have archived and
  removed it and another save have made a new one, or be about to archive it. The
  snapshot of a save that succeeded can be lost so, though docs/SECURITY.md:160 has
  "Failure leaves recovery data available" (of retirement). It takes commands that
  overlap and a failing write. `Kept`, `ArchiveReadable`, `StatusMissesNothing` and
  `RetiresOnlyWhenBack` end there (`clashed`).
* **A preflight that says Ready does not know whether a write is permitted.** It looks at
  the write bits of `scaling_governor`: a caller who does not own the file, and every
  file but that one, is not looked at, though docs/SECURITY.md:122-125 says that the
  checks "surface [...] unavailable cpufreq writes". Nor does it know whether the sinks,
  which it inspects and does not use, take the intent (main.rs:260-264), whether the
  host drifted from the snapshot, or whether the recorded floor leaves room for the
  ceiling of REST. These are the four exceptions of `ReadyMeansApplies`.
* **Commands take no lock on the host**, in either engine: an apply that overlaps a
  restore may write after the record was retired. No document says otherwise.
  `NoWriteWithoutRecord`, `KeepsPromise` and `RetiresOnlyWhenBack` speak of one command
  at a time, or of one that nobody disturbed; what must hold of overlapping commands all
  the same is `NoForeignValue`, `Kept`, `FailClosed` and `SuccessIsTold`.

The documents of the Rust engine are those under src/archive/rust/.

A Rust restore loads the snapshot and verifies the host against it (main.rs:301-308);
`retire` then loads the snapshot anew (original_power.rs:256) and does not compare the
two. When in between another restore retires the first one, an apply under way goes on
to write, and a snapshot of the host at rest is saved, it is this one that is archived,
although nobody verified the host against it; docs/SECURITY.md:157 has only verified
ones archived. It takes three commands at a time, which no run has; the proof of
`RetiresOnlyWhenBack`, which is about any number, came upon it. `disturbed` therefore
counts such a restore among those that somebody else disturbed (`RestLifecycle!Stores`).
`RestoreGoesThrough` has an exception that came of its proof too: a ceiling that counts
as the recorded one is not written, and may lie below the recorded floor by less than
the tolerance (the second case of `Excludes`).

### Bounds, and why they are enough

* `PlanCycle` has both sides of every comparison of the planners and the guards, and
  `None` for every value that may be unknown.
* `PowerControl`: three commands allow save, apply, restore; the fourth a second round
  on what the first left, which is what `RetiredTooSoon` needs. Two CPUs are the first
  and the last; a policy is shared by both or is one each. Two governors, two or three
  ceilings: the state of rest, one above it, one below it (`Overlap` has one that a
  second economizing would reach if it went on from the first). Two faults let a
  write and then its undoing fail. `MayCrash` lets any command die at any step.
* `AuditLog`: two writers are what a shared predecessor takes. Four events, of which
  an older one may come first, have a first, a middle and a last one in the chain.
  One edit, of any number of events.
* `Observer`: two errors in a row are too many, three calls raise, a limit of two
  cycles or none (then `MaxCycles` bounds the state space, and the observer waits
  there for its signal). `Keep` is 1, the smallest the program accepts.
* `RestLifecycle`: two commands, at once or one after the other, on a machine that
  earlier commands may have left fresh, saved, rested or with an archive; that stands
  for longer histories, since a command keeps nothing. Two capture times: the same
  second and another. Two floors and five ceilings, in quarters of a megahertz: two
  (32, the ceiling of REST, and 33) count as the same, one (8) is what a cut leaves of
  another (82), and the one that another tool may set (4) is below the recorded floor.
  Two sinks, the file and a collector. One thing goes wrong besides a kill, and one
  command is killed (`MaxKills`; after the second there is none left): a second fault is
  what leaves a rollback undone, which the code reports as such and no property forbids.
* `ReadOnlyCommands`: two other commands and two snapshots are what a status can miss;
  two services are the one that is told of and the one that is not, in either order;
  a clock of two moments and a maximal age of zero have before, now and after;
  counters and memory sizes that stand still, advance and go backwards. No power is
  lost and no cut file decodes here; `RestLifecycle` has both.
* `RetireStuck` has restores alone, and kills as the only thing that goes wrong: that is
  all its finding takes.
* Commands (`Permutations(Commands)`), writers and contents are interchangeable:
  nothing compares them but for equality. The runs of liveness use no symmetry, and
  where `KeepsPromise` is checked under symmetry it is a safety property.
* `CHECK_DEADLOCK FALSE`: commands, recordings and observers end, and nobody has to
  start another; `PlanCycle`'s operator is done after a restore; a log that was
  edited is at its bound in the end.

### Fairness

`PowerControl!FairSpec` and `Observer!FairSpec` give each process weak fairness of its
own steps, `ReadOnlyCommands` gives it to the service loop (`WF_vars(Observe)`): the
operating system keeps scheduling it, and no step waits for another process (SQLite's
wait is bounded, and a wait that times out is an error the models have; the pause
between two heartbeats ends by itself). Starting a command, dying, failing and
signalling are never promised.

## The proofs

What is proved holds for every value of the constants that the named assumptions
admit; TLC evaluates each assumption on a run. Every property of a passing run is a
theorem but for the four of liveness.

### The Python engine

The assumptions are `PowerControlAssumption` (at least one CPU; the unknown value is not
a value of a file; the governor and the ceiling of rest are values the files can hold),
`PlanCycleAssumption` (snapshots and activities have the fields of their classes;
frequencies and ages are integers; "unknown" is neither a frequency nor the governor of
rest), `AuditChainAssumption` and `NoneIsNoError` (NULL is no digest, no process and no
message of `verify_audit`), `ObserverAssumption` (observers are no recorders; limits and
`Keep` are positive).

* `TypeCorrect`: `Spec => []TypeOK`, overlap included. `TypeOK` is inductive: plans
  name each file once, with values the file can hold (the planning lemmas), and the
  driver's loops stay in the plan.
* `NeverForeign`, overlap included: a file holds what it was found with or the value of
  rest. `NoForeignValue` alone is not inductive: a command may have seen a host between
  the two, plan on it, or find a record made of it. `OwnValues` says that what is seen,
  planned and recorded is made of these two values of each file as well; to economize
  what is half economized leads to the same state of rest (`Own`).
* `AlwaysInductive` (`~Concurrent`): `Inductive` holds. The properties alone are not
  inductive: that a restore may retire the record needs that the result it looks at
  is so (`ResultSoFar`), which needs how far the driver has come (`DriverIsAt`),
  which needs that the plan is what was planned on what was seen (`PlanIsSound`,
  `SeenIsTrue`), which needs that nobody else runs (`OneAtATime`). From it follow
  `RecordIsAlwaysOriginal`, `LeadAlwaysRecoverable`, `ResultIsAlwaysTrue` and
  `NeverWritesWithoutRecord`, for any number of commands, CPUs, policies, crashes
  and faults.
* `HostAlwaysRecoverable`, `RetiresOnlyWhenBack`, `PromiseKept` assume besides that
  the CPUs share one policy (`Policies = {Lead}`); `RetiredTooSoon` shows they need
  it. `PromiseKept` is the refinement: a configuration is what save-original would
  record of it, and every step of `PowerControl` is a Save, a Write or a Retire of
  `RecoveryProtocol` or leaves host, record and origin alone. The Python engine has no
  step that is a Restart.
* `TrailAlwaysTells`, `TrailTellsOfLostRecords`, `OneFaultNeverCosts` (`~Concurrent`,
  any number of policies) are about what the one-policy theorems leave open. A host is
  `Whole` when it is as found, or economized; a driver is `Between` two whole states
  while it writes and rolls back. `TrailInductive` says that, unless the trail tells of
  a change that was begun and not heard of again or of a rollback that is incomplete
  (`Torn`), the host is whole whenever no driver is between, so that looking at cpu0
  alone tells the truth about all CPUs, and the record is there as long as it is not
  back. The second of them is stronger than `OneFaultRecoverable`, which follows since
  an incomplete rollback takes two faults (`FaultsCounted`).
* `UnknownIsNeverSafe`, `RestAlwaysSettles`, `WayBackStaysOpen`, `RestoreAlwaysInRange`:
  the planners for every host that `collect_hardware` can return. The invariant
  `PlanInductive` says that the record was consistent when it was saved and that a plan
  in hand is the planner's for the host as it is, let through by the guards. The rest is
  about the operators: the ceiling of rest is a fixpoint, since it is within the range
  it is computed from, and so are the recorded values for `plan_restore`.
* `LogAlwaysChained`, `AuditTypeCorrect`: the log that nordfir's own processes leave is
  a chain. The invariant adds that the lock belongs to the writer inside a transaction
  and that the row it is about to commit follows the head as it is now.
* `VerifyIsExact`: of every table, the loop of `verify_audit` accepts those that are
  `Chained`, and counts them rightly. The loop is a fold; the proof unfolds it by one
  row and looks at the least prefix, if any, for which it would be wrong
  (`LeastNumber`), which is how to argue by induction where the library's theorems of
  induction are not to be had.
* `EditsAreTold`, `AnchorsAreTold`: for a log of any length. A hash in the log is the
  sequence of the contents up to it (`HashIsChain`), and neither an edit of the kinds
  modelled nor a writer makes a hash that was not made of what was recorded
  (`NoNewHash`); so what is still chained begins as it did before the edit, or is
  nothing but what was recorded since, when no hash was left.
* `IdsNeverReused`: the largest id that was ever drawn is still in the table, because it
  is among the newest of its node when a prune runs (`NewestIsLeft`); the next id is
  therefore above all of them. It needs that at least one snapshot per node is kept.
* `SummaryHolds`: `SummaryOK` says at every place in the loop what the counters and the
  recorded events have in common; after a cycle that raised it is open whether there
  was an observation (`prune_snapshots` may be what failed).
* `RetentionHolds`, for finitely many processes: a node holds no more than `Keep` and the
  debts of its processes, the snapshots each may have left since it pruned. So that
  they can be added up, the debts are the set of pairs of a process and a number
  (`Debts`), and what is counted is that set.

### The Rust engine

The assumptions are `RecoveryStoreAssumption` and `RestAuditAssumption` ("nothing" and a
torn file are no snapshot; at least one sink), `RestDriverAssumption`,
`RestPlanningAssumption` and `RestLifecycleAssumption` (limits are positive; the ceiling
of REST is one the kernel takes; a snapshot is a time and settings, and "nothing" is no
settings; a cut of it is what `DecodesCut` says), `ObserveServiceAssumption` (counters,
memory sizes and the power model's terms are not negative, `--max-cycles` is positive),
`RestEvaluationAssumption` and `NoneIsNoAnswer`, and `RestPreflightAssumption` (the kernel
keeps its limits in order: the floor not above the ceiling, both within the hardware's,
each as far as it is shown).

* `StoreIsInductive`, `StoreKeeps`: no snapshot is lost, for any number of commands that
  save and retire at once, kills, failing calls and power losses, until a failed save
  removes the file of another (`clashed`). The argument: the file goes only by a
  removal, and a command that retires removes it only where the archive has it on the
  disk (`LinkedTwice`); that is so because a name in the archive, once taken, is taken
  for every other command, and because until then the file is still the one that was
  loaded (`FreeMeansActive`). A save whose file has been linked elsewhere meanwhile
  still synchronizes the same file (`WritesItsFile`), so that success means that the
  text is on the disk wherever the file is.
* `LifecycleTypes`, `LifecycleKeeps`, `LifecycleFailsClosed`, `LifecycleTellsSuccess`: the
  composed commands, for any number of them at once, of sinks and of faults. The
  invariant (`RestLifecycleInvariant`) adds which job can be in which stage, what the
  sinks have heard so far of the event under way (`Heard`), and which events a command
  beyond a stage has delivered (`Beyond`). Every store step of a command is one of
  `RecoveryStore`'s own, so that its theorem is used and not proved anew.
* `LifecycleReportsTruly`, `LifecycleRestoresThrough`, `LifecycleRetiresOnlyWhenBack`: of
  a command that nobody disturbs, however many others run, for any settings and any
  tolerance. `FilesInductive` says that what it has read is so (`SeenIsTrue`), that its
  steps are those of its plan (`StepsSound`, `RestoresSnapshot`), that the files hold the
  targets of the steps behind it and the old values of those before it (`DriverIsAt`),
  that what a restore does not write counts as the recorded value already
  (`OthersRestored`), and that without a fault no write after the first is refused
  (`RestoreIsAt`).
* `LifecycleKeepsPromise`: one command at a time, the commands that write follow
  `RecoveryProtocol`: a driver's write is a Write, the write of the snapshot file a
  Save, its removal a Retire; only a power loss is a Restart, which no other step may
  be. It holds for any settings and any tolerance: settings that count as those of the
  kernel (`AsBoot`) are theirs to the protocol, as they are to the code, which leaves
  such a ceiling alone. That this is so is what the proof adds to the invariant: every
  snapshot that may come back records `Origins`, and the floor and the governor of the
  kernel are always restored exactly, because an apply writes no floor and a governor
  counts only as itself (`Recoverable`). It ends when a cut file that decodes
  is left (`shortened`), and only then.
* `ReadOnlyIsInductive`: each of the four commands that change nothing has an inductive
  invariant of its own, which no step of another touches. From it:
  `SummaryAlwaysCounts` and `HeartbeatAlwaysSane` (collected and published heartbeats
  differ by the one in hand; the saturating difference of two counters is no more than
  the whole it is a share of);
  `ProtectedAlwaysSpared` and `IgnoranceNeverPermits` (the snapshot tells what was the
  case or that it does not know, and no guard lets through what it does not know);
  `ReadyAlwaysApplies` (a ceiling that is accepted lies between the recorded floor and
  the live ceiling, where the kernel takes it as it is; what remains are the four
  reasons that the preflight does not look at);
  `ArchiveStaysReadable` and `StatusNeverMisses`, which rest on `StoreIsInductive`: the
  archive only grows, so that a snapshot can move only from the place that is looked at
  first to the one that is looked at last (`Ahead`, of each snapshot by name).

### Only model-checked

Liveness, which the prover does not do: `EveryCommandEnds`, `RestoreReturns`, `StopHeeded`,
`BoundedRunEnds`. The four disagreements are counterexamples and need no proof.

## What the models take for granted

* The kernel refuses a frequency limit beyond the other one, and clamps a limit to the
  range of the hardware. sysfs refuses a write to a file without a write bit to every
  user. A write of a file is cut at its end if anywhere. A directory, once made, survives a
  power loss; its entries need a synchronization.
* f32 arithmetic is exact: results are integers in a smaller unit.
* The metadata check of a snapshot file and its reading are one step, and so are the
  listing of the archive and the reading of its entries, which do not change while
  nothing has clashed.
* `ThreadObserverRuntime` itself never requests a stop; another `ObserverRuntime` may.

## Not modelled

* Parsing, printing and the text of events; how /proc is read for sessions and
  processes, which is an input that may be unknown; file modes beyond private or not.
* Python: `initiate_db` by several processes, whose statements can all be repeated; the
  energy report and the calibration, floating-point sums that decide nothing; the
  preflight (preflight.py), which is not modelled at all: it adds up independent looks at
  /proc and at file modes, and that one failed look is enough is modelled of the Rust
  engine alone; the package's entry points.
* Rust: the commands that only print; `deployment-security-local`, which compares its
  own process's fields with fixed values; the hwmon provider and `estimate_shutdown`,
  which no command calls (the latter panics on a negative cost, as
  `Duration::from_secs_f32` does); `timing` and `watchers`, types and traits that
  nothing implements.

## What could come next

The steps of liveness that are safety: that whenever a command is not at its end one of
its steps is possible (what `ENABLED` would say), as invariants, for `EveryCommandEnds` and
`BoundedRunEnds`. A bound on how far two overlapping Python commands can leave a host of
one policy from being recoverable: `NeverForeign` says which values the files can have, and
no theorem says yet which of the records is then active. A run of three overlapping Rust
commands that shows the retirement of an unverified snapshot, once it can be had within
the time of the others.
