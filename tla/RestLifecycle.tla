----------------------------- MODULE RestLifecycle ----------------------------
(***************************************************************************)
(* The commands of the Rust engine that write: save-original-state,        *)
(* apply-rest and restore-active (main.rs), as processes that share the    *)
(* recovery store, the cpufreq files and the audit sinks.                  *)
(*                                                                         *)
(* It composes RecoveryStore, RestDriver and RestAudit: a command is in    *)
(* one stage, in which it takes the steps of one of them, and goes on when *)
(* that one has answered.  A command may be killed at any moment, the      *)
(* machine may lose its power, a system call may fail, and another tool    *)
(* may change the files.                                                   *)
(***************************************************************************)
EXTENDS RecoveryStore, RestDriver, RestAudit

CONSTANTS
  Jobs,          \* which of the commands are run
  Boots,         \* the settings a kernel may start with
  Others,        \* the settings another tool may choose
  Clock,         \* the times at which a snapshot is captured or its age is looked at
  MaxRunning,    \* bound on the commands at work at once
  MaxFaults,     \* bound on failing calls, power losses and changes by other tools
  MaxOutside,    \* bound on the changes by other tools alone
  MaxKills       \* bound on the commands that die

ASSUME RestLifecycleAssumption ==
  /\ Jobs \subseteq {"save", "apply", "restore"}
  /\ Snapshots = [at : Clock, host : Hosts]
  /\ Cuts = [s \in Snapshots |-> {cut \in Snapshots : DecodesCut(s, cut)}]
  /\ Clock \subseteq Nat
  /\ Boots \subseteq Hosts /\ Others \subseteq Hosts
  /\ None \notin Hosts
  /\ {MaxRunning, MaxFaults, MaxOutside, MaxKills} \subseteq Nat

VARIABLES
  boot,         \* the settings the kernel starts with
  job,          \* what a command is to do
  stage,        \* how far it is
  error,        \* whether its result is an error
  faults,       \* how many calls have failed
  outside,      \* how often another tool has changed the files
  disturbed,    \* history: the commands during which somebody else changed the files, or
                \* replaced the snapshot between the verification and its retirement
  overlapped,   \* history: whether two commands were ever at work at once
  shortened     \* history: whether a snapshot file was left that is cut and yet decodes

lifeVars == <<boot, job, stage, error>>
noise    == <<faults, outside, disturbed, overlapped, shortened>>
vars     == <<storeVars, driverVars, auditVars, lifeVars, noise>>

Stages == {"new", "intent", "loading", "probing", "saving", "reading", "driving",
           "retiring", "telling", "outcome", "ended", "dead"}

Running(c) == stage[c] \notin {"new", "ended", "dead"}

TypeOK ==
  /\ StoreTypeOK
  /\ host \in Hosts /\ boot \in Hosts
  /\ \A c \in Commands :
       /\ seen[c]["governor"] \in Governors \union {None}
       /\ seen[c]["min"] \in Floors \union {None}
       /\ seen[c]["max"] \in Ceilings \union {None}
       /\ looked[c] \in 0..Len(Looking)
       /\ drive[c].at \in 0..Len(drive[c].steps)
       /\ Driving(c, "idle") <=> stage[c] # "driving"
       /\ event[c].kind \in Kinds \union {None} /\ event[c].next \in 0..(Sinks + 1)
       /\ event[c].kind # None <=> stage[c] \in {"intent", "telling", "outcome"}
       /\ stage[c] \in {"loading", "saving", "retiring"} <=> storing[c] # "idle"
  /\ stage \in [Commands -> Stages]
  /\ error \in [Commands -> BOOLEAN]
  /\ disturbed \subseteq Commands

\* The settings REST leaves of others.
Rested(h) == [h EXCEPT !["governor"] = RestGovernor,
                       !["max"] = IF @ > RestTarget(HwMin, HwMax)
                                    THEN RestTarget(HwMin, HwMax) ELSE @]

\* The settings a host has when it is not in REST: those the kernel starts with, but for
\* a ceiling that a restore leaves as it is because it counts as theirs.
Origins ==
  {boot} \union
  {h \in {[boot EXCEPT !["max"] = Rested(boot)["max"]]} :
     h \in Hosts /\ Matches("max", h["max"], boot["max"])}

\* The snapshots of these settings.
Earlier == [at : Clock, host : Origins]

\* A fresh machine, or one on which nordfir has saved, applied or restored before.  None of
\* the commands looks at what the archived snapshots say.
Init ==
  /\ boot \in Boots
  /\ active \in {None} \union Earlier
  /\ archive \in [Clock -> {None} \union [at : Clock, host : {boot}]]
  /\ \A t \in Clock : archive[t] # None =>
       archive[t].at = t /\ (active # None => t < active.at)
  /\ StoreInit /\ DriverInit /\ AuditInit
  /\ \/ host \in Origins
     \/ active # None /\ host = Rested(boot) /\ Rested(boot) \in Hosts
  /\ job = [c \in Commands |-> None]
  /\ stage = [c \in Commands |-> "new"]
  /\ error = [c \in Commands |-> FALSE]
  /\ faults = 0 /\ outside = 0 /\ disturbed = {}
  /\ overlapped = FALSE /\ shortened = FALSE

-------------------------------------------------------------------------------
(* How a command goes on *)

Stage(c, s) == stage' = [stage EXCEPT ![c] = s]
Fails(c, failed) == error' = [error EXCEPT ![c] = @ \/ failed]

\* finish_audited: the event that tells the result.
Finish(c, failed) ==
  /\ Stage(c, "outcome")
  /\ Fails(c, failed)
  /\ Tell(c, IF failed THEN "failed" ELSE "executed")
  /\ UNCHANGED <<delivered, boot, job>>

\* On to another stage without an event.
GoOnTo(c, s) == Stage(c, s) /\ UNCHANGED <<auditVars, boot, job, error>>

End(c, failed) ==
  /\ Stage(c, "ended")
  /\ Fails(c, failed)
  /\ event' = [event EXCEPT ![c] = NoEvent]
  /\ UNCHANGED <<delivered, boot, job>>

StartAs(c, j) ==
  /\ stage[c] = "new"
  /\ Cardinality({d \in Commands : Running(d)}) < MaxRunning
  /\ job' = [job EXCEPT ![c] = j]
  /\ overlapped' = (overlapped \/ \E d \in Commands : Running(d))
  /\ UNCHANGED <<storeVars, driverVars, boot, error, faults, outside, disturbed, shortened>>

\* save-original-state-local probes the host, the other two record the intent.
Start(c) ==
  \/ /\ "save" \in Jobs
     /\ StartAs(c, "save")
     /\ Stage(c, "probing")
     /\ UNCHANGED auditVars
  \/ \E j \in Jobs \ {"save"} :
       /\ StartAs(c, j)
       /\ Stage(c, "intent")
       /\ Tell(c, "intent") /\ UNCHANGED delivered

-------------------------------------------------------------------------------
(* The intent and the snapshot *)

\* Mutant: a command goes on although its intent was not recorded everywhere.
IntentRecordedOrNot(c) ==
  /\ stage[c] = "intent" /\ Tried(c)
  /\ Stage(c, "loading")
  /\ event' = [event EXCEPT ![c] = NoEvent]
  /\ BeginLoad(c)
  /\ UNCHANGED <<driverVars, delivered, boot, job, error, noise>>

\* The intent must be recorded before anything else is done; if not, the command ends.
IntentRecorded(c) ==
  /\ stage[c] = "intent" /\ Tried(c)
  /\ event' = [event EXCEPT ![c] = NoEvent]
  /\ \/ event[c].failed /\ Stage(c, "ended") /\ Fails(c, TRUE) /\ UNCHANGED storeVars
     \/ ~event[c].failed /\ Stage(c, "loading") /\ BeginLoad(c) /\ UNCHANGED error
  /\ UNCHANGED <<driverVars, delivered, boot, job, noise>>

\* What is left to check of the snapshot: its age by an apply, its range by a restore.
Usable(c, now) ==
  IF job[c] = "apply" THEN is_fresh(held[c], now)
  ELSE validate_restore_target(held[c], CapabilitiesOf(Unseen))

Loaded(c) ==
  /\ stage[c] = "loading"
  /\ Return(c)
  /\ \/ storing[c] = "failed" /\ Finish(c, TRUE)
     \/ /\ storing[c] = "done"
        /\ \E now \in Clock :
             \/ ~Usable(c, now) /\ Finish(c, TRUE)
             \/ Usable(c, now) /\ GoOnTo(c, IF job[c] = "apply" THEN "probing" ELSE "reading")
  /\ UNCHANGED <<driverVars, noise>>

-------------------------------------------------------------------------------
(* save-original-state-local *)

\* The snapshot of what was probed, at the time of the clock.
Probed(c) ==
  /\ stage[c] = "probing" /\ job[c] = "save" /\ Seen(c)
  /\ \E at \in Clock :
       LET snapshot == capture(seen[c], at)
       IN \/ snapshot = None /\ End(c, TRUE) /\ UNCHANGED storeVars
          \/ snapshot # None /\ GoOnTo(c, "saving") /\ BeginSave(c, snapshot)
  /\ Forget(c)
  /\ UNCHANGED <<host, drive, noise>>

Saved(c) ==
  /\ stage[c] = "saving"
  /\ Return(c)
  /\ End(c, storing[c] = "failed")
  /\ UNCHANGED <<driverVars, noise>>

-------------------------------------------------------------------------------
(* apply-rest-local *)

Planned(c) ==
  /\ stage[c] = "probing" /\ job[c] = "apply" /\ Seen(c)
  /\ LET p == plan(CapabilitiesOf(seen[c]))
     IN \/ /\ p.status = "Blocked" \/ (p.status = "Ready" /\ ~AcceptsPlan(p.changes, held[c]))
           /\ Finish(c, TRUE) /\ UNCHANGED drive
        \/ /\ p.status = "NoChanges"
           /\ Finish(c, FALSE) /\ UNCHANGED drive
        \/ /\ p.status = "Ready" /\ AcceptsPlan(p.changes, held[c])
           /\ GoOnTo(c, "driving") /\ Begin(c, "check", ApplySteps(p.changes, held[c]))
  /\ Forget(c)
  /\ UNCHANGED <<storeVars, host, noise>>

-------------------------------------------------------------------------------
(* restore-active-local *)

\* The live values were read: write what differs, or retire at once.
LiveRead(c) ==
  /\ stage[c] = "reading" /\ Seen(c)
  /\ \/ /\ None \in {seen[c][f] : f \in Files}
        /\ Finish(c, TRUE) /\ UNCHANGED <<storeVars, drive>>
     \/ /\ None \notin {seen[c][f] : f \in Files}
        /\ LET steps == RestoreSteps(held[c], seen[c])
           IN \/ /\ steps = <<>>
                 /\ GoOnTo(c, "retiring") /\ BeginRetire(c) /\ UNCHANGED drive
              \/ /\ steps # <<>>
                 /\ GoOnTo(c, "driving") /\ Begin(c, "write", steps) /\ UNCHANGED storeVars
  /\ Forget(c)
  /\ UNCHANGED <<host, noise>>

\* Mutant: a restore that was rolled back retires the snapshot all the same.
DrivenAnyway(c) ==
  /\ stage[c] = "driving"
  /\ drive[c].step \in OverDrive
  /\ IF job[c] = "apply"
       THEN Finish(c, drive[c].step # "done") /\ UNCHANGED storeVars
       ELSE GoOnTo(c, "retiring") /\ BeginRetire(c)
  /\ drive' = [drive EXCEPT ![c] = IdleDrive]
  /\ UNCHANGED <<host, seen, looked, noise>>

\* The driver's answer, of an apply or a restore.
Driven(c) ==
  /\ stage[c] = "driving"
  /\ drive[c].step \in OverDrive
  /\ IF job[c] = "restore" /\ drive[c].step = "done"
       THEN GoOnTo(c, "retiring") /\ BeginRetire(c)
       ELSE Finish(c, drive[c].step # "done") /\ UNCHANGED storeVars
  /\ drive' = [drive EXCEPT ![c] = IdleDrive]
  /\ UNCHANGED <<host, seen, looked, noise>>

Retired(c) ==
  /\ stage[c] = "retiring"
  /\ Return(c)
  /\ \/ storing[c] = "failed" /\ Finish(c, TRUE)
     \/ /\ storing[c] = "done"
        /\ Stage(c, "telling") /\ Tell(c, "retired")
        /\ UNCHANGED <<delivered, boot, job, error>>
  /\ UNCHANGED <<driverVars, noise>>

RetirementTold(c) ==
  /\ stage[c] = "telling" /\ Tried(c)
  /\ Finish(c, event[c].failed)
  /\ UNCHANGED <<storeVars, driverVars, noise>>

Finished(c) ==
  /\ stage[c] = "outcome" /\ Tried(c)
  /\ End(c, event[c].failed)
  /\ UNCHANGED <<storeVars, driverVars, noise>>

-------------------------------------------------------------------------------
(* The parts at work *)

Reads(c) == stage[c] \in {"probing", "reading"}

\* Everybody else at work is disturbed when the files have changed.
Disturbs(others) ==
  disturbed' = disturbed \union (IF host' = host THEN {} ELSE {d \in others : Running(d)})

LookStep(c) ==
  Reads(c) /\ Look(c) /\ UNCHANGED <<storeVars, auditVars, lifeVars, noise>>

Drives(c) ==
  /\ DriveStep(c)
  /\ Disturbs(Commands \ {c})
  /\ UNCHANGED <<storeVars, auditVars, lifeVars, faults, outside, overlapped, shortened>>

\* retire takes the snapshot it loads, whether or not it is the one the restore verified.
Stores(c) ==
  /\ StoreStep(c)
  /\ disturbed' = disturbed \union (IF At(c, "reload") /\ held'[c] # held[c] THEN {c} ELSE {})
  /\ UNCHANGED <<driverVars, auditVars, lifeVars, faults, outside, overlapped, shortened>>

\* The file sink refuses an event as long as the state directory is not a private one.
Tells(c) ==
  /\ IF event[c].next = 1 /\ rootDir # "private" THEN Refuse(c) ELSE Accept(c)
  /\ UNCHANGED <<storeVars, driverVars, lifeVars, noise>>

Work(c) == LookStep(c) \/ Drives(c) \/ Stores(c) \/ Tells(c)

Answer(c) ==
  \/ IntentRecorded(c) \/ Loaded(c)
  \/ Probed(c) \/ Saved(c)
  \/ Planned(c)
  \/ LiveRead(c) \/ Driven(c) \/ Retired(c) \/ RetirementTold(c)
  \/ Finished(c)

-------------------------------------------------------------------------------
(* What goes wrong *)

Fault == faults + outside < MaxFaults /\ faults' = faults + 1

\* The snapshot file is now one that no command has written to its end.
Shortens ==
  shortened' = (shortened \/ (/\ active' \in Snapshots
                             /\ active' \notin {active} \union {e[1] : e \in older}))

SystemCallFails(c) ==
  /\ Fault
  /\ \/ Reads(c) /\ LookFails(c) /\ UNCHANGED <<storeVars, auditVars>>
     \/ DriveFault(c) /\ UNCHANGED <<storeVars, auditVars>>
     \/ StoreFault(c) /\ UNCHANGED <<driverVars, auditVars>>
     \/ (Refuse(c) \/ AcceptUnheard(c)) /\ UNCHANGED <<storeVars, driverVars>>
  /\ Shortens
  /\ UNCHANGED <<lifeVars, outside, disturbed, overlapped>>

\* A command is killed: what it held is gone, what it did stays.
Killed(c) ==
  /\ Running(c)
  /\ Cardinality({d \in Commands : stage[d] = "dead"}) < MaxKills
  /\ StoreDies(c)
  /\ Forget(c)
  /\ drive' = [drive EXCEPT ![c] = IdleDrive]
  /\ event' = [event EXCEPT ![c] = NoEvent]
  /\ Stage(c, "dead")
  /\ UNCHANGED <<host, delivered, boot, job, error, noise>>

\* Another tool sets the governor or the limits, in as many writes as it likes.
Outside ==
  /\ outside < MaxOutside /\ faults + outside < MaxFaults
  /\ outside' = outside + 1
  /\ host' \in Others \ {host}
  /\ Disturbs(Commands)
  /\ UNCHANGED <<storeVars, seen, looked, drive, auditVars, lifeVars, faults>>
  /\ UNCHANGED <<overlapped, shortened>>

\* The machine starts anew, with the settings of the kernel and what is on the disk.
PowerLoss ==
  /\ Fault
  /\ StorePowerLoss /\ Shortens
  /\ host' = boot
  /\ seen' = [c \in Commands |-> Unseen] /\ looked' = [c \in Commands |-> 0]
  /\ drive' = [c \in Commands |-> IdleDrive]
  /\ event' = [c \in Commands |-> NoEvent]
  /\ stage' = [c \in Commands |-> IF Running(c) THEN "dead" ELSE stage[c]]
  /\ UNCHANGED <<delivered, boot, job, error, outside, disturbed, overlapped>>

Next ==
  \/ \E c \in Commands :
       Start(c) \/ Work(c) \/ Answer(c) \/ SystemCallFails(c) \/ Killed(c)
  \/ Outside
  \/ PowerLoss

Spec == Init /\ [][Next]_vars

-------------------------------------------------------------------------------
(* Properties *)

(***************************************************************************)
(* No setting is touched before the intent of the command that touches it  *)
(* has reached every sink (main.rs:260, audit/mod.rs:77): a sink that      *)
(* refuses ends the command, whatever the sinks before it have accepted.   *)
(***************************************************************************)
FailClosed == \A c \in Commands : ~Driving(c, "idle") => Told(c, "intent")

SuccessToldOf(c) ==
  stage[c] = "ended" /\ ~error[c] /\ job[c] # "save" =>
    /\ Told(c, "intent") /\ Told(c, "executed")
    /\ job[c] = "restore" => Told(c, "retired")

(***************************************************************************)
(* A command that reports success is told of in every sink: its intent,    *)
(* its completion and, for a restore, the retirement; a collector that     *)
(* accepted but was not heard counts as a failure (main.rs:309-313,        *)
(* 437-465).                                                               *)
(***************************************************************************)
SuccessIsTold == \A c \in Commands : SuccessToldOf(c)

(***************************************************************************)
(* As long as nobody else changes the files, "written and verified" and    *)
(* "was rolled back" are true of every file the driver touched, whichever  *)
(* reads and writes fail or have no effect (linux_rest.rs:79-92, 111-129). *)
(***************************************************************************)
ReportIsTrue ==
  \A c \in Commands \ disturbed : drive[c].step \in {"done", "rolledback"} =>
    \A i \in DOMAIN drive[c].steps :
      LET step == drive[c].steps[i]
      IN Holds(step.file, IF drive[c].step = "done" THEN step.target ELSE step.back)

\* One command at a time, no other tool, and no snapshot file that is cut and yet decodes.
Alone == ~overlapped /\ outside = 0 /\ ~shortened

\* Settings that count as those the kernel starts with.
CountsAsBoot(h) == \A f \in Files : Matches(f, h[f], boot[f])
AsBoot(h)       == IF CountsAsBoot(h) THEN boot ELSE h

Recorded == IF active \in Snapshots THEN AsBoot(active.host) ELSE None

Recovery == INSTANCE RecoveryProtocol WITH host <- AsBoot(host), record <- Recorded, origin <- boot

(***************************************************************************)
(* One command at a time, each of these commands is the protocol that the  *)
(* later Python engine follows too: the host leaves the settings it had    *)
(* only while the active snapshot records them, and the snapshot goes only *)
(* while the host has them, through kills, failed writes and rollbacks, a  *)
(* second save, and a power loss, after which the machine has the settings *)
(* of its kernel and the snapshot is there or not.  A ceiling within half  *)
(* a megahertz counts as the recorded one, as it does in the code          *)
(* (linux_rest.rs:96-131).  A snapshot file that is cut inside its last    *)
(* value and yet decodes (original_power.rs:74-103), of a save or a power  *)
(* loss in the middle of the write, ends the promise: a restore from it    *)
(* leaves another ceiling than the one that was there.                     *)
(***************************************************************************)
KeepsPromise ==
  /\ Recovery!Init
  /\ [][Alone' => Recovery!Next \/ (PowerLoss /\ Recovery!Restart)]_<<AsBoot(host), Recorded, boot>>

(***************************************************************************)
(* The snapshot is taken out of use only when the host holds the settings  *)
(* it records, unless somebody else changed them, or replaced the snapshot *)
(* that was verified, while the restore ran, or a failed save removed it   *)
(* (linux_rest.rs:131, main.rs:301; docs/SECURITY.md:157).                 *)
(***************************************************************************)
RetiredWhenBack ==
  \A c \in Commands : active \in Snapshots /\ active' = None /\ storing[c] = "remove"
                      /\ storing'[c] = "syncroot" /\ c \notin disturbed /\ ~clashed =>
    \A f \in Files : Holds(f, active.host[f])

RetiresOnlyWhenBack == [][RetiredWhenBack]_vars

\* The floor lies above the recorded ceiling; or the ceiling, which counts as the recorded
\* one and is not written, lies below the recorded floor by less than the tolerance.
Excludes(snapshot) ==
  \/ host["min"] > snapshot.host["max"]
  \/ host["max"] < snapshot.host["min"] /\ Holds("max", snapshot.host["max"])

(***************************************************************************)
(* Without a fault and without a change by somebody else, the driver fails *)
(* to restore only a host whose limits exclude the recorded ones: the      *)
(* order of the three writes never makes one of them cross the other limit *)
(* (linux_rest.rs:107-131).                                                *)
(***************************************************************************)
RestoreGoesThrough ==
  \A c \in Commands \ disturbed :
    faults = 0 /\ job[c] = "restore" /\ drive[c].step \in {"undo", "rolledback", "torn"} =>
      Excludes(held[c])

(***************************************************************************)
(* A restore that has verified the host, alone and with no call that       *)
(* fails, retires the snapshot into the private archive, so that a new     *)
(* cycle can begin (docs/CODE_WALKTHROUGH.md:238-241, README.md:99-101).   *)
(***************************************************************************)
RetirementSucceeds ==
  \A c \in Commands :
    Alone /\ faults = 0 /\ archiveDir = "private" /\ stage[c] = "retiring" =>
      storing[c] # "failed"
===============================================================================
