------------------------------ MODULE RestDriver ------------------------------
(***************************************************************************)
(* The Rust engine's hands on cpufreq: LinuxPowerProbe, which reads the    *)
(* governor and the two limits, and LinuxRestDriver, which verifies,       *)
(* writes, reads back and rolls back, one file after another.              *)
(*                                                                         *)
(* Every access to a file is a step, so that what other tools and other    *)
(* commands do to the files falls between any two.  The kernel refuses a   *)
(* limit that would cross the other one.                                   *)
(***************************************************************************)
EXTENDS RestPlanning, FiniteSets

CONSTANTS
  Governors,     \* the governors the kernel offers
  Floors,        \* the lower limits that occur
  Ceilings,      \* the upper limits that occur
  HwMin, HwMax   \* cpuinfo_min_freq and cpuinfo_max_freq

ASSUME RestDriverAssumption ==
  /\ Floors \subseteq Nat \ {0} /\ Ceilings \subseteq Nat \ {0}
  /\ HwMin \in Nat /\ HwMax \in Nat
  /\ RestTarget(HwMin, HwMax) \in Ceilings
  /\ None \notin Governors /\ None \notin Floors /\ None \notin Ceilings

VARIABLES
  host,     \* the three files
  seen,     \* what a command has read of them, None where it read nothing
  looked,   \* how many of them it has read
  drive     \* where it is in the driver, with what changes

driverVars == <<host, seen, looked, drive>>

Fits(file, value) ==
  value \in IF file = "governor" THEN Governors ELSE IF file = "min" THEN Floors ELSE Ceilings

\* What the kernel lets the three files be.
Hosts == {h \in [governor : Governors, min : Floors, max : Ceilings] : h["min"] <= h["max"]}

Unseen == [f \in Files |-> None]
Looking == <<"governor", "min", "max">>

\* The capabilities that the probe makes of what it read.
CapabilitiesOf(found) ==
  [cpufreq |-> TRUE, governors |-> Governors, hwMin |-> HwMin, hwMax |-> HwMax,
   governor |-> found["governor"], min |-> found["min"], max |-> found["max"]]

\* A write of target to a file, and the value that a rollback puts back.
Step(file, expect, target, back) ==
  [file |-> file, expect |-> expect, target |-> target, back |-> back]

\* apply: rollback goes to the original state.
ApplySteps(changes, snapshot) ==
  [i \in DOMAIN changes |->
     Step(changes[i].file, changes[i].current, changes[i].target, snapshot.host[changes[i].file])]

\* A setting that matches already is not written.
IfUnmatched(f, snapshot, live) ==
  IF Matches(f, live[f], snapshot.host[f]) THEN <<>>
  ELSE <<Step(f, None, snapshot.host[f], live[f])>>

\* Mutant: the lower limit is put back before the upper one.
RestoreStepsMinFirst(snapshot, live) ==
  IfUnmatched("min", snapshot, live) \o IfUnmatched("max", snapshot, live)
    \o IfUnmatched("governor", snapshot, live)

\* restore_active: what does not match is written; rollback goes to what was live.
RestoreSteps(snapshot, live) ==
  IfUnmatched("max", snapshot, live) \o IfUnmatched("min", snapshot, live)
    \o IfUnmatched("governor", snapshot, live)

IdleDrive == [step |-> "idle", steps |-> <<>>, at |-> 0, broken |-> FALSE]
OverDrive == {"done", "refused", "rolledback", "torn"}

DriverInit ==
  /\ host \in Hosts
  /\ seen = [c \in Commands |-> Unseen]
  /\ looked = [c \in Commands |-> 0]
  /\ drive = [c \in Commands |-> IdleDrive]

-------------------------------------------------------------------------------
(* Reading: the probe, and the driver's read_live_state *)

Look(c) ==
  /\ looked[c] < Len(Looking)
  /\ LET f == Looking[looked[c] + 1]
     IN seen' = [seen EXCEPT ![c][f] = host[f]]
  /\ looked' = [looked EXCEPT ![c] = @ + 1]
  /\ UNCHANGED <<host, drive>>

\* The file cannot be read: the probe goes on without it.
LookFails(c) ==
  /\ looked[c] < Len(Looking)
  /\ looked' = [looked EXCEPT ![c] = @ + 1]
  /\ UNCHANGED <<host, seen, drive>>

Seen(c) == looked[c] = Len(Looking)

\* What was read is used up.
Forget(c) == /\ seen' = [seen EXCEPT ![c] = Unseen]
             /\ looked' = [looked EXCEPT ![c] = 0]

-------------------------------------------------------------------------------
(* Driving *)

Begin(c, step, steps) ==
  drive' = [drive EXCEPT ![c] = [IdleDrive EXCEPT !.step = step, !.steps = steps, !.at = 1]]

Driving(c, step) == drive[c].step = step
This(c) == drive[c].steps[drive[c].at]
IsLast(c) == drive[c].at = Len(drive[c].steps)
To(c, step, at) == drive' = [drive EXCEPT ![c].step = step, ![c].at = at]

Holds(file, value) == Matches(file, host[file], value)

\* Mutant: only the changes that were verified are undone.
RollBackVerified(c) ==
  IF drive[c].at = 1 THEN To(c, "rolledback", 1) ELSE To(c, "undo", drive[c].at - 1)

\* The change that failed is undone as well: it may have reached the file.
RollBack(c) == To(c, "undo", drive[c].at)

\* verify_live_matches_plan: every change is checked before the first write.
Check(c) ==
  /\ Driving(c, "check")
  /\ IF ~Holds(This(c).file, This(c).expect) THEN To(c, "refused", drive[c].at)
     ELSE IF IsLast(c) THEN To(c, "expect", 1)
     ELSE To(c, "check", drive[c].at + 1)
  /\ UNCHANGED <<host, seen, looked>>

\* apply_change: the file is looked at once more before it is written.
Expect(c) ==
  /\ Driving(c, "expect")
  /\ IF Holds(This(c).file, This(c).expect) THEN To(c, "write", drive[c].at) ELSE RollBack(c)
  /\ UNCHANGED <<host, seen, looked>>

\* Whether the kernel refuses the value because of the other limit.
Crosses(file, value) ==
  \/ file = "max" /\ value < host["min"]
  \/ file = "min" /\ value > host["max"]

Write(c) ==
  /\ Driving(c, "write")
  /\ IF Crosses(This(c).file, This(c).target)
       THEN RollBack(c) /\ UNCHANGED host
       ELSE To(c, "verify", drive[c].at) /\ host' = [host EXCEPT ![This(c).file] = This(c).target]
  /\ UNCHANGED <<seen, looked>>

\* The next change; a restore has nothing to expect.
Onward(c) ==
  IF IsLast(c) THEN To(c, "done", drive[c].at)
  ELSE To(c, IF drive[c].steps[drive[c].at + 1].expect = None THEN "write" ELSE "expect",
          drive[c].at + 1)

\* Mutant: what was written is not read back.
VerifyNothing(c) == Driving(c, "verify") /\ Onward(c) /\ UNCHANGED <<host, seen, looked>>

Verify(c) ==
  /\ Driving(c, "verify")
  /\ IF Holds(This(c).file, This(c).target) THEN Onward(c) ELSE RollBack(c)
  /\ UNCHANGED <<host, seen, looked>>

\* The next change to undo, or the end; broken tells whether an undo failed.
Backward(c, broken) ==
  drive' = [drive EXCEPT
    ![c].broken = broken,
    ![c].step = IF drive[c].at > 1 THEN "undo" ELSE IF broken THEN "torn" ELSE "rolledback",
    ![c].at = IF drive[c].at > 1 THEN @ - 1 ELSE 1]

Undo(c) ==
  /\ Driving(c, "undo")
  /\ IF Crosses(This(c).file, This(c).back)
       THEN Backward(c, TRUE) /\ UNCHANGED host
       ELSE To(c, "recheck", drive[c].at) /\ host' = [host EXCEPT ![This(c).file] = This(c).back]
  /\ UNCHANGED <<seen, looked>>

Recheck(c) ==
  /\ Driving(c, "recheck")
  /\ Backward(c, drive[c].broken \/ ~Holds(This(c).file, This(c).back))
  /\ UNCHANGED <<host, seen, looked>>

DriveStep(c) == Check(c) \/ Expect(c) \/ Write(c) \/ Verify(c) \/ Undo(c) \/ Recheck(c)

-------------------------------------------------------------------------------
(* Faults *)

\* A read or a write fails and is noticed.
AccessFails(c) ==
  /\ \/ Driving(c, "check") /\ To(c, "refused", drive[c].at)
     \/ drive[c].step \in {"expect", "write", "verify"} /\ RollBack(c)
     \/ drive[c].step \in {"undo", "recheck"} /\ Backward(c, TRUE)
  /\ UNCHANGED <<host, seen, looked>>

\* A write that succeeds and has no effect.
WriteIgnored(c) ==
  /\ \/ Driving(c, "write") /\ To(c, "verify", drive[c].at)
     \/ Driving(c, "undo") /\ To(c, "recheck", drive[c].at)
  /\ UNCHANGED <<host, seen, looked>>

DriveFault(c) == AccessFails(c) \/ WriteIgnored(c)
===============================================================================
