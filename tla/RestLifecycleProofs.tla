-------------------------- MODULE RestLifecycleProofs -------------------------
(***************************************************************************)
(* Inductive is an invariant of RestLifecycle, for every number of         *)
(* commands, sinks, faults and settings.                                   *)
(*                                                                         *)
(* The argument.  A step is a step of the store, of the driver or of the   *)
(* audit, or an answer that takes a command to its next stage.  A store    *)
(* step is one of RecoveryStore's own, since the snapshot that a save      *)
(* hands over is typed (NextKeepsStore); a driver step writes only values  *)
(* that fit, because plans and restores are made of values that fit        *)
(* (NextKeepsDriver); and every step concerns one command only             *)
(* (OneGoesOn), so that what is said of the others stays (OthersStayOK).   *)
(***************************************************************************)
EXTENDS RestLifecycleInvariant, RecoveryStoreProofs

-------------------------------------------------------------------------------
(* The settings *)

\* The three settings are a function on the files, each with a value that fits.
LEMMA HostIsFunction ==
  ASSUME NEW h \in Hosts
  PROVE  /\ h = [f \in Files |-> h[f]] /\ DOMAIN h = Files
         /\ \A f \in Files : Fits(f, h[f])
         /\ h["min"] <= h["max"]
BY DEF Hosts, Files, Fits

\* And such a function is what the kernel lets the settings be.
LEMMA FunctionIsHost ==
  ASSUME NEW h, DOMAIN h = Files, h = [f \in Files |-> h[f]],
         \A f \in Files : Fits(f, h[f]), h["min"] <= h["max"]
  PROVE  h \in Hosts
BY DEF Hosts, Files, Fits

\* A value the kernel accepts leaves settings that the kernel accepts.
LEMMA WriteIsHost ==
  ASSUME NEW h \in Hosts, NEW f \in Files, NEW v, Fits(f, v),
         ~(f = "max" /\ v < h["min"]), ~(f = "min" /\ v > h["max"])
  PROVE  [h EXCEPT ![f] = v] \in Hosts
<1> DEFINE s == [h EXCEPT ![f] = v]
<1>1. s = [g \in Files |-> IF g = f THEN v ELSE h[g]]
  BY HostIsFunction
<1>2. \A g \in Files : Fits(g, s[g])
  BY <1>1, HostIsFunction
<1>3. s["min"] <= s["max"]
  BY <1>1, HostIsFunction, RestDriverAssumption DEF Files, Fits
<1> QED
  BY <1>1, <1>2, <1>3, FunctionIsHost

\* A snapshot that capture accepts is one of Snapshots.
LEMMA CaptureIsSnapshot ==
  ASSUME NEW found \in [Files -> Values \union {None}], NEW at \in Clock,
         \A f \in Files : found[f] = None \/ Fits(f, found[f]),
         capture(found, at) # None
  PROVE  capture(found, at) \in Snapshots
<1>1. capture(found, at) = [at |-> at, host |-> found] /\ ValidRange(found["min"], found["max"])
      /\ \A f \in Files : found[f] # None
  BY DEF capture
<1>2. found \in Hosts
  BY <1>1, FunctionIsHost DEF ValidRange
<1> QED
  BY <1>1, <1>2, RestLifecycleAssumption

\* What an apply or a restore is about to write may be written and undone.
LEMMA ChangeIsTyped ==
  ASSUME NEW f \in Files, NEW e \in Values \union {None}, NEW v, NEW b, Fits(f, v), Fits(f, b)
  PROVE  Step(f, e, v, b) \in Changes
BY DEF Step, Changes, Fits, Values, Files

\* So it is with every change of a restore,
LEMMA RestoreStepsTyped ==
  ASSUME NEW s \in Snapshots, NEW live \in [Files -> Values \union {None}],
         \A f \in Files : Fits(f, live[f])
  PROVE  RestoreSteps(s, live) \in Seq(Changes)
<1>1. ASSUME NEW f \in Files PROVE IfUnmatched(f, s, live) \in Seq(Changes)
  <2>1. Fits(f, s.host[f])
    BY RestLifecycleAssumption, HostIsFunction
  <2> DEFINE c == Step(f, None, s.host[f], live[f])
  <2>2. c \in Changes
    BY <2>1, ChangeIsTyped
  <2> QED
    BY <2>2 DEF IfUnmatched
<1>2. \A f \in Files : IfUnmatched(f, s, live) \in Seq(Changes)
  BY <1>1
<1> QED
  BY <1>2 DEF RestoreSteps, Files

\* and with every change of a plan that is Ready, of which there is at least one.
LEMMA ApplyStepsTyped ==
  ASSUME NEW s \in Snapshots, NEW found \in [Files -> Values \union {None}],
         \A f \in Files : found[f] = None \/ Fits(f, found[f]),
         plan(CapabilitiesOf(found)).status = "Ready"
  PROVE  /\ ApplySteps(plan(CapabilitiesOf(found)).changes, s) \in Seq(Changes)
         /\ Len(ApplySteps(plan(CapabilitiesOf(found)).changes, s)) > 0
<1> DEFINE caps == CapabilitiesOf(found)
           governor == plan_governor(caps).changes
           frequency == plan_frequency(caps).changes
           changes == plan(caps).changes
           All == {x \in [file : Files, current : Values, target : Values] : Fits(x.file, x.target)}
<1>1. governor \in Seq(All)
  <2>1. CASE governor = <<>>
    BY <2>1
  <2>2. CASE governor # <<>>
    <3>1. /\ governor = <<Change("governor", found["governor"], RestGovernor)>>
          /\ RestGovernor \in Governors /\ found["governor"] # None
      BY <2>2 DEF plan_governor, CapabilitiesOf
    <3>2. Change("governor", found["governor"], RestGovernor) \in All
      BY <3>1 DEF Change, Files, Fits, Values
    <3> QED
      BY <3>1, <3>2
  <2> QED
    BY <2>1, <2>2
<1>2. frequency \in Seq(All)
  <2> DEFINE target == RestTarget(HwMin, HwMax)
  <2>1. CASE frequency = <<>>
    BY <2>1
  <2>2. CASE frequency # <<>>
    <3>1. frequency = <<Change("max", found["max"], target)>> /\ found["max"] # None
      BY <2>2 DEF plan_frequency, PlanCeiling, CapabilitiesOf
    <3>2. Change("max", found["max"], target) \in All
      BY <3>1, RestDriverAssumption DEF Change, Files, Fits, Values
    <3> QED
      BY <3>1, <3>2
  <2> QED
    BY <2>1, <2>2
<1>3. changes \in Seq(All) /\ changes # <<>>
  <2>1. changes = governor \o frequency
    BY DEF plan
  <2>2. changes # <<>>
    BY DEF plan, Status
  <2> QED
    BY <1>1, <1>2, <2>1, <2>2
<1> HIDE DEF changes
<1> DEFINE n == Len(changes)
<1>4. n \in Nat /\ n > 0 /\ DOMAIN changes = 1..n
  BY <1>3
<1>5. ASSUME NEW i \in 1..n
      PROVE  Step(changes[i].file, changes[i].current, changes[i].target,
                  s.host[changes[i].file]) \in Changes
  <2>1. changes[i] \in All
    BY <1>3, <1>4
  <2>2. Fits(changes[i].file, s.host[changes[i].file])
    BY <2>1, RestLifecycleAssumption, HostIsFunction
  <2> QED
    BY <2>1, <2>2, ChangeIsTyped
<1>6. ApplySteps(changes, s) \in [1..n -> Changes]
  BY <1>4, <1>5 DEF ApplySteps
<1> QED
  BY <1>4, <1>6 DEF changes

-------------------------------------------------------------------------------
(* The driver *)

\* The change at hand.
LEMMA ThisIsTyped ==
  ASSUME DriverTypeOK, NEW c \in Commands, ~Driving(c, "idle")
  PROVE  /\ This(c).file \in Files
         /\ Fits(This(c).file, This(c).target) /\ Fits(This(c).file, This(c).back)
<1>1. drive[c].steps \in Seq(Changes) /\ drive[c].at \in 1..Len(drive[c].steps)
  BY DEF DriverTypeOK
<1>2. This(c) \in Changes
  BY <1>1 DEF This
<1> QED
  BY <1>2 DEF Changes

\* One command goes on in the driver, and stays in it.
MovesOn(c) ==
  /\ drive' \in [Commands -> [step : DriveSteps, steps : Seq(Changes), at : Nat, broken : BOOLEAN]]
  /\ \A d \in Commands \ {c} : drive'[d] = drive[d]
  /\ drive'[c].step # "idle"
  /\ drive'[c].steps = drive[c].steps
  /\ drive'[c].at \in 1..Len(drive[c].steps)

\* A step forward, or into the rollback.
LEMMA ToMovesOn ==
  ASSUME DriverTypeOK, NEW c \in Commands,
         NEW step \in DriveSteps \ {"idle"}, NEW at \in 1..Len(drive[c].steps), To(c, step, at)
  PROVE  MovesOn(c)
<1>1. at \in Nat /\ drive[c].steps \in Seq(Changes)
  BY DEF DriverTypeOK
<1> QED
  BY <1>1 DEF DriverTypeOK, To, MovesOn

\* A step of the rollback.
LEMMA BackwardMovesOn ==
  ASSUME DriverTypeOK, NEW c \in Commands, ~Driving(c, "idle"),
         NEW broken \in BOOLEAN, Backward(c, broken)
  PROVE  MovesOn(c)
<1>1. drive[c].steps \in Seq(Changes) /\ drive[c].at \in 1..Len(drive[c].steps)
      /\ Len(drive[c].steps) \in Nat
  BY DEF DriverTypeOK
<1> DEFINE step == IF drive[c].at > 1 THEN "undo" ELSE IF broken THEN "torn" ELSE "rolledback"
           at == IF drive[c].at > 1 THEN drive[c].at - 1 ELSE 1
<1>2. step \in DriveSteps \ {"idle"} /\ at \in 1..Len(drive[c].steps) /\ at \in Nat
  BY <1>1 DEF DriveSteps, OverDrive
<1>3. drive' = [drive EXCEPT ![c].broken = broken, ![c].step = step, ![c].at = at]
  BY DEF Backward, DriverTypeOK
<1> HIDE DEF step, at
<1> QED
  BY <1>1, <1>2, <1>3 DEF DriverTypeOK, MovesOn

\* The kernel takes the value that is at hand only where it leaves settings it accepts.
LEMMA WrittenIsHost ==
  ASSUME DriverTypeOK, NEW c \in Commands, ~Driving(c, "idle"),
         NEW value \in {This(c).target, This(c).back}, ~Crosses(This(c).file, value)
  PROVE  [host EXCEPT ![This(c).file] = value] \in Hosts
<1>1. This(c).file \in Files /\ Fits(This(c).file, value)
  BY ThisIsTyped
<1> QED
  BY <1>1, WriteIsHost DEF DriverTypeOK, Crosses

\* Every step of the driver stays in the driver and leaves settings the kernel accepts.
LEMMA DriveMovesOn ==
  ASSUME DriverTypeOK, NEW c \in Commands, DriveStep(c) \/ DriveFault(c)
  PROVE  MovesOn(c) /\ ~Driving(c, "idle") /\ host' \in Hosts /\ UNCHANGED <<seen, looked>>
<1> USE DEF Driving, OverDrive, DriveSteps
<1>1. drive[c].step \in {"check", "expect", "write", "verify", "undo", "recheck"}
  BY DEF DriveStep, DriveFault, Check, Expect, Write, Verify, Undo, Recheck, AccessFails,
         WriteIgnored
<1>2. drive[c].at \in 1..Len(drive[c].steps) /\ Len(drive[c].steps) \in Nat
      /\ drive[c].broken \in BOOLEAN
  BY <1>1 DEF DriverTypeOK
<1>3. UNCHANGED <<seen, looked>>
  BY DEF DriveStep, DriveFault, Check, Expect, Write, Verify, Undo, Recheck, AccessFails,
         WriteIgnored
<1>4. host' \in Hosts
  BY <1>1, WrittenIsHost
  DEF DriverTypeOK, DriveStep, DriveFault, Check, Expect, Write, Verify, Undo, Recheck,
      AccessFails, WriteIgnored
<1> DEFINE Going == \E step \in DriveSteps \ {"idle"}, at \in 1..Len(drive[c].steps) : To(c, step, at)
<1>5. Going => MovesOn(c)
  BY ToMovesOn
<1>6. (\E broken \in BOOLEAN : Backward(c, broken)) => MovesOn(c)
  BY <1>1, BackwardMovesOn
<1>7. RollBack(c) => Going
  BY <1>2 DEF RollBack
<1>8. Onward(c) => Going
  BY <1>2 DEF Onward, IsLast
<1>9. MovesOn(c)
  <2>1. CASE Check(c)
    BY <1>2, <1>5, <2>1 DEF Check, IsLast
  <2>2. CASE Expect(c) \/ Verify(c)
    BY <1>2, <1>5, <1>7, <1>8, <2>2 DEF Expect, Verify
  <2>3. CASE Write(c) \/ WriteIgnored(c)
    BY <1>2, <1>5, <1>7, <2>3 DEF Write, WriteIgnored
  <2>4. CASE Undo(c)
    BY <1>2, <1>5, <1>6, <2>4 DEF Undo
  <2>5. CASE Recheck(c)
    <3>1. (drive[c].broken \/ ~Holds(This(c).file, This(c).back)) \in BOOLEAN
      OBVIOUS
    <3> QED
      BY <1>6, <2>5, <3>1 DEF Recheck
  <2>6. CASE AccessFails(c)
    BY <1>2, <1>5, <1>6, <1>7, <2>6 DEF AccessFails
  <2> QED
    BY <2>1, <2>2, <2>3, <2>4, <2>5, <2>6 DEF DriveStep, DriveFault
<1> QED
  BY <1>1, <1>3, <1>4, <1>9

LEMMA DriveKeepsTypes ==
  ASSUME DriverTypeOK, NEW c \in Commands, DriveStep(c) \/ DriveFault(c)
  PROVE  DriverTypeOK'
BY DriveMovesOn DEF DriverTypeOK, MovesOn, Driving

\* The files in the order in which they are read.
LEMMA LookingIsTyped ==
  Len(Looking) = 3 /\ \A i \in 1..3 : Looking[i] \in Files
BY DEF Looking, Files

\* What a command reads of a file fits it.
LEMMA LookKeepsTypes ==
  ASSUME DriverTypeOK, NEW c \in Commands, Look(c) \/ LookFails(c)
  PROVE  DriverTypeOK'
<1>1. looked[c] + 1 \in 1..Len(Looking) /\ Looking[looked[c] + 1] \in Files
  <2>1. looked[c] \in 0..3 /\ looked[c] < 3
    BY LookingIsTyped DEF DriverTypeOK, Look, LookFails
  <2> QED
    BY <2>1, LookingIsTyped
<1>2. looked' \in [Commands -> 0..Len(Looking)]
  <2>1. looked' = [looked EXCEPT ![c] = looked[c] + 1]
    BY DEF Look, LookFails
  <2>2. looked[c] + 1 \in 0..Len(Looking)
    BY <1>1, LookingIsTyped
  <2> QED
    BY <2>1, <2>2 DEF DriverTypeOK
<1>3. \A f \in Files : Fits(f, host[f])
  BY HostIsFunction DEF DriverTypeOK
<1>4. /\ seen' \in [Commands -> [Files -> Values \union {None}]]
      /\ \A d \in Commands, f \in Files : seen'[d][f] = None \/ Fits(f, seen'[d][f])
  <2>1. CASE UNCHANGED seen
    BY <2>1 DEF DriverTypeOK
  <2>2. CASE Look(c)
    <3> DEFINE f == Looking[looked[c] + 1]
    <3>1. f \in Files /\ Fits(f, host[f]) /\ host[f] \in Values
      BY <1>1, <1>3 DEF Fits, Values, Files
    <3> HIDE DEF f
    <3>2. seen' = [seen EXCEPT ![c][f] = host[f]]
      BY <2>2 DEF Look, f
    <3> QED
      BY <3>1, <3>2 DEF DriverTypeOK
  <2> QED
    BY <2>1, <2>2 DEF LookFails
<1> QED
  BY <1>2, <1>4 DEF DriverTypeOK, Look, LookFails, Driving

\* A command hands its changes to the driver, or takes the driver's answer.
LEMMA HandOverKeepsTypes ==
  ASSUME DriverTypeOK, NEW c \in Commands, UNCHANGED host,
         Forget(c) \/ UNCHANGED <<seen, looked>>,
         \/ UNCHANGED drive
         \/ drive' = [drive EXCEPT ![c] = IdleDrive]
         \/ \E step \in {"check", "write"}, steps \in Seq(Changes) :
              Len(steps) > 0 /\ Begin(c, step, steps)
  PROVE  DriverTypeOK'
<1> DEFINE DriveRecords == [step : DriveSteps, steps : Seq(Changes), at : Nat, broken : BOOLEAN]
<1>1. /\ seen' \in [Commands -> [Files -> Values \union {None}]]
      /\ \A d \in Commands, f \in Files : seen'[d][f] = None \/ Fits(f, seen'[d][f])
      /\ looked' \in [Commands -> 0..Len(Looking)]
  <2>1. CASE Forget(c)
    BY <2>1, LookingIsTyped DEF DriverTypeOK, Forget, Unseen
  <2> QED
    BY <2>1 DEF DriverTypeOK
<1>2. IdleDrive \in DriveRecords
  BY DEF IdleDrive, DriveSteps
<1> DEFINE DriveOK ==
      /\ drive' \in [Commands -> DriveRecords]
      /\ \A d \in Commands :
           IF drive'[d].step = "idle" THEN drive'[d] = IdleDrive
           ELSE drive'[d].at \in 1..Len(drive'[d].steps)
<1>3. DriveOK
  <2>1. CASE UNCHANGED drive
    BY <2>1 DEF DriverTypeOK, Driving
  <2>2. CASE drive' = [drive EXCEPT ![c] = IdleDrive]
    BY <1>2, <2>2 DEF DriverTypeOK, Driving, IdleDrive
  <2>3. ASSUME NEW step \in {"check", "write"}, NEW steps \in Seq(Changes),
               Len(steps) > 0, Begin(c, step, steps)
        PROVE  DriveOK
    <3> DEFINE begun == [step |-> step, steps |-> steps, at |-> 1, broken |-> FALSE]
    <3>1. drive' = [drive EXCEPT ![c] = begun]
      BY <2>3 DEF Begin, IdleDrive
    <3>2. begun \in DriveRecords
      BY DEF DriveSteps
    <3>3. Len(steps) \in Nat
      OBVIOUS
    <3> QED
      BY <2>3, <3>1, <3>2, <3>3 DEF DriverTypeOK, Driving
  <2> QED
    BY <2>1, <2>2, <2>3
<1> QED
  BY <1>1, <1>3 DEF DriverTypeOK, Driving

\* A command that plans from the snapshot has it at hand.
LEMMA PlansFromSnapshot ==
  ASSUME Inductive, NEW c \in Commands
  PROVE  /\ stage[c] = "probing" /\ job[c] = "apply" => held[c] \in Snapshots
         /\ stage[c] = "reading" => held[c] \in Snapshots
BY DEF Inductive, CommandOK, HasLoaded

\* An answer begins a drive only with changes that are typed.
LEMMA AnswerKeepsDriver ==
  ASSUME Inductive, NEW c \in Commands, Answer(c)
  PROVE  DriverTypeOK'
<1>1. DriverTypeOK /\ seen[c] \in [Files -> Values \union {None}]
      /\ \A f \in Files : seen[c][f] = None \/ Fits(f, seen[c][f])
  BY DEF Inductive, DriverTypeOK
<1>2. CASE Planned(c)
  <2> DEFINE p == plan(CapabilitiesOf(seen[c]))
  <2>1. CASE UNCHANGED drive
    BY <1>1, <1>2, <2>1, HandOverKeepsTypes DEF Planned
  <2>2. CASE p.status = "Ready" /\ Begin(c, "check", ApplySteps(p.changes, held[c]))
    <3>1. held[c] \in Snapshots
      BY <1>2, PlansFromSnapshot DEF Planned
    <3>2. ApplySteps(p.changes, held[c]) \in Seq(Changes)
          /\ Len(ApplySteps(p.changes, held[c])) > 0
      BY <1>1, <2>2, <3>1, ApplyStepsTyped
    <3>3. UNCHANGED host /\ Forget(c)
      BY <1>2 DEF Planned
    <3> QED
      BY <1>1, <2>2, <3>2, <3>3, HandOverKeepsTypes
  <2> QED
    BY <1>2, <2>1, <2>2 DEF Planned
<1>3. CASE LiveRead(c)
  <2> DEFINE steps == RestoreSteps(held[c], seen[c])
  <2>1. CASE UNCHANGED drive
    BY <1>1, <1>3, <2>1, HandOverKeepsTypes DEF LiveRead
  <2>2. CASE /\ None \notin {seen[c][f] : f \in Files}
             /\ steps # <<>> /\ Begin(c, "write", steps)
    <3>1. held[c] \in Snapshots
      BY <1>3, PlansFromSnapshot DEF LiveRead
    <3>2. \A f \in Files : Fits(f, seen[c][f])
      BY <1>1, <2>2
    <3>3. steps \in Seq(Changes)
      BY <1>1, <3>1, <3>2, RestoreStepsTyped
    <3>4. Len(steps) > 0
      BY <2>2, <3>3
    <3>5. UNCHANGED host /\ Forget(c)
      BY <1>3 DEF LiveRead
    <3> QED
      BY <1>1, <2>2, <3>3, <3>4, <3>5, HandOverKeepsTypes
  <2> QED
    BY <1>3, <2>1, <2>2 DEF LiveRead
<1>4. CASE Probed(c)
  BY <1>1, <1>4, HandOverKeepsTypes DEF Probed
<1>5. CASE Driven(c)
  BY <1>1, <1>5, HandOverKeepsTypes DEF Driven
<1>6. CASE UNCHANGED driverVars
  BY <1>1, <1>6 DEF DriverTypeOK, driverVars, Driving
<1> QED
  BY <1>2, <1>3, <1>4, <1>5, <1>6
  DEF Answer, IntentRecorded, Loaded, Saved, Retired, RetirementTold, Finished

LEMMA NextKeepsDriver ==
  ASSUME Inductive, Next
  PROVE  DriverTypeOK'
<1>1. DriverTypeOK
  BY DEF Inductive
<1>2. CASE UNCHANGED driverVars
  BY <1>1, <1>2 DEF DriverTypeOK, driverVars, Driving
<1>3. ASSUME NEW c \in Commands, Start(c) \/ Stores(c) \/ Tells(c)
      PROVE  DriverTypeOK'
  BY <1>2, <1>3 DEF Start, StartAs, Stores, Tells
<1>4. ASSUME NEW c \in Commands, LookStep(c) \/ Drives(c)
      PROVE  DriverTypeOK'
  BY <1>1, <1>4, LookKeepsTypes, DriveKeepsTypes DEF LookStep, Drives
<1>5. ASSUME NEW c \in Commands, Answer(c)
      PROVE  DriverTypeOK'
  BY <1>5, AnswerKeepsDriver
<1>6. ASSUME NEW c \in Commands, SystemCallFails(c)
      PROVE  DriverTypeOK'
  BY <1>1, <1>2, <1>6, LookKeepsTypes, DriveKeepsTypes DEF SystemCallFails
<1>7. ASSUME NEW c \in Commands, Killed(c)
      PROVE  DriverTypeOK'
  BY <1>1, <1>7, HandOverKeepsTypes DEF Killed
<1>8. CASE Outside
  BY <1>1, <1>8, RestLifecycleAssumption DEF Outside, DriverTypeOK, Driving
<1>9. CASE PowerLoss
  <2>1. boot \in Hosts
    BY RestLifecycleAssumption DEF Inductive, LifeTypeOK
  <2>2. IdleDrive \in [step : DriveSteps, steps : Seq(Changes), at : Nat, broken : BOOLEAN]
    BY DEF IdleDrive, DriveSteps
  <2>3. /\ host' = boot /\ seen' = [c \in Commands |-> Unseen]
        /\ looked' = [c \in Commands |-> 0] /\ drive' = [c \in Commands |-> IdleDrive]
    BY <1>9 DEF PowerLoss
  <2> QED
    BY <2>1, <2>2, <2>3, LookingIsTyped DEF DriverTypeOK, Driving, Unseen, IdleDrive
<1> QED
  BY <1>3, <1>4, <1>5, <1>6, <1>7, <1>8, <1>9 DEF Next, Work

-------------------------------------------------------------------------------
(* The store *)

\* Every step of a command is a step of the store or leaves it alone.
LEMMA NextKeepsStore ==
  ASSUME Inductive, Next
  PROVE  StoreInductive'
<1>1. StoreInductive
  BY DEF Inductive
<1>2. CASE UNCHANGED storeVars
  BY <1>1, <1>2, StoreStepKeeps
<1>3. CASE StoreNext
  BY <1>1, <1>3, StoreStepKeeps
<1>4. ASSUME NEW c \in Commands, Start(c) \/ LookStep(c) \/ Drives(c) \/ Tells(c)
      PROVE  StoreInductive'
  BY <1>2, <1>4 DEF Start, StartAs, LookStep, Drives, Tells
<1>5. ASSUME NEW c \in Commands, Stores(c) \/ Killed(c)
      PROVE  StoreInductive'
  BY <1>3, <1>5 DEF Stores, Killed, StoreNext
<1>6. ASSUME NEW c \in Commands, Probed(c)
      PROVE  StoreInductive'
  <2>1. ASSUME NEW at \in Clock, capture(seen[c], at) # None, BeginSave(c, capture(seen[c], at))
        PROVE  StoreInductive'
    <3>1. seen[c] \in [Files -> Values \union {None}]
          /\ \A f \in Files : seen[c][f] = None \/ Fits(f, seen[c][f])
      BY DEF Inductive, DriverTypeOK
    <3>2. capture(seen[c], at) \in Snapshots
      BY <2>1, <3>1, CaptureIsSnapshot
    <3> QED
      BY <1>3, <2>1, <3>2 DEF StoreNext
  <2> QED
    BY <1>2, <1>6, <2>1 DEF Probed
<1>7. ASSUME NEW c \in Commands, Answer(c), ~Probed(c)
      PROVE  StoreInductive'
  <2>1. UNCHANGED storeVars \/ BeginLoad(c) \/ BeginRetire(c) \/ Return(c)
    BY <1>7 DEF Answer, IntentRecorded, Loaded, Saved, Planned, LiveRead, Driven, Retired,
                RetirementTold, Finished
  <2> QED
    BY <1>2, <1>3, <2>1 DEF StoreNext
<1>8. ASSUME NEW c \in Commands, SystemCallFails(c)
      PROVE  StoreInductive'
  BY <1>2, <1>3, <1>8 DEF SystemCallFails, StoreNext
<1>9. CASE Outside \/ PowerLoss
  BY <1>2, <1>3, <1>9 DEF Outside, PowerLoss, StoreNext
<1> QED
  BY <1>4, <1>5, <1>6, <1>7, <1>8, <1>9 DEF Next, Work

-------------------------------------------------------------------------------
(* The commands *)

\* Nothing that concerns the other commands has changed, except that a sink may have more.
OthersRest(c) ==
  /\ delivered \subseteq delivered'
  /\ \A d \in Commands \ {c} :
       /\ stage'[d] = stage[d] /\ job'[d] = job[d] /\ error'[d] = error[d]
       /\ event'[d] = event[d] /\ drive'[d] = drive[d]
       /\ storing'[d] = storing[d] /\ held'[d] = held[d]

LEMMA OthersStayOK ==
  ASSUME NEW c \in Commands, NEW d \in Commands \ {c}, CommandOK(d), OthersRest(c)
  PROVE  CommandOK(d)'
BY DEF OthersRest, CommandOK, StageMatches, JobMatches, HasLoaded, Heard, Beyond, SuccessToldOf,
       Told, Driving, At

\* A step in the store moves one command, within the store.
LEMMA StoreMovesOne ==
  ASSUME StoreTypeOK, NEW c \in Commands, StoreStep(c) \/ StoreFault(c)
  PROVE  /\ \A d \in Commands \ {c} : storing'[d] = storing[d] /\ held'[d] = held[d]
         /\ storing[c] \notin {"idle", "done", "failed"} /\ storing'[c] # "idle"
         /\ At(c, "load") => /\ storing'[c] \in {"done", "failed"}
                             /\ storing'[c] = "done" => held'[c] \in Snapshots
<1> USE DEF StoreTypeOK, At, GoTo, Fail
<1>1. CASE SaveStep(c)
  BY <1>1 DEF SaveStep, MakeRoot, ChmodRoot, Create, CreateRefused, WriteAll, Fill, Sync, Withdraw,
      WithdrawRefused
<1>2. CASE LoadStep(c)
  BY <1>2 DEF LoadStep, Load, Loadable, LoadRefused
<1>3. CASE RetireStep(c)
  BY <1>3 DEF RetireStep, Reload, Loadable, ReloadRefused, MakeArchive, ChmodArchive, Link,
      LinkRefused, SyncArchive, RemoveActive, RemoveRefused, SyncRoot
<1>4. CASE StoreFault(c)
  BY <1>4 DEF StoreFault, WriteShort, Fill, SyncFails, CallFails
<1> QED
  BY <1>1, <1>2, <1>3, <1>4 DEF StoreStep

Events == [kind : Kinds \union {None}, next : 0..(Sinks + 1), failed : BOOLEAN]

\* An event that is handed to the sinks.
LEMMA ToldIsEvent ==
  ASSUME NEW kind \in Kinds
  PROVE  [kind |-> kind, next |-> 1, failed |-> FALSE] \in Events
<1>1. 1 \in 0..(Sinks + 1)
  BY RestAuditAssumption
<1> QED
  BY <1>1 DEF Events

LEMMA NoEventIsEvent == NoEvent \in Events
<1>1. 0 \in 0..(Sinks + 1)
  BY RestAuditAssumption
<1> QED
  BY <1>1 DEF Events, NoEvent

\* One command goes on, and what the invariant says of it and of the types still holds.
OneGoesOn(c) == LifeTypeOK' /\ OthersRest(c) /\ CommandOK(c)'

\* A command starts.
LEMMA StartGoesOn ==
  ASSUME Inductive, NEW c \in Commands, Start(c)
  PROVE  OneGoesOn(c)
<1>1. LifeTypeOK /\ CommandOK(c)
  BY DEF Inductive
<1>2. UNCHANGED <<storing, held, drive, delivered, boot, error, disturbed>> /\ stage[c] = "new"
  BY DEF Start, StartAs, storeVars, driverVars, auditVars
<1>3. \/ /\ "save" \in Jobs /\ job' = [job EXCEPT ![c] = "save"]
         /\ stage' = [stage EXCEPT ![c] = "probing"] /\ UNCHANGED event
      \/ \E j \in Jobs \ {"save"} :
           /\ job' = [job EXCEPT ![c] = j]
           /\ stage' = [stage EXCEPT ![c] = "intent"]
           /\ event' = [event EXCEPT ![c] = [kind |-> "intent", next |-> 1, failed |-> FALSE]]
  BY DEF Start, StartAs, Stage, Tell, auditVars
<1>4. LifeTypeOK'
  <2>1. event' \in [Commands -> Events]
    BY <1>1, <1>3, ToldIsEvent DEF LifeTypeOK, Kinds, Events
  <2>2. stage' \in [Commands -> Stages]
    BY <1>1, <1>3 DEF LifeTypeOK, Stages
  <2>3. job' \in [Commands -> Jobs \union {None}]
    BY <1>1, <1>3 DEF LifeTypeOK
  <2> QED
    BY <1>1, <1>2, <2>1, <2>2, <2>3 DEF LifeTypeOK, Events
<1>5. OthersRest(c)
  BY <1>1, <1>2, <1>3 DEF OthersRest, LifeTypeOK
<1>6. Jobs \subseteq {"save", "apply", "restore"}
  BY RestLifecycleAssumption
<1>7. CommandOK(c)'
  BY <1>1, <1>2, <1>3, <1>6, RestAuditAssumption
  DEF LifeTypeOK, CommandOK, StageMatches, JobMatches, HasLoaded, Heard, Beyond, SuccessToldOf,
      Told, Driving, At, Kinds, Recording, InStore
<1> QED
  BY <1>4, <1>5, <1>7 DEF OneGoesOn

\* A step in the driver.
LEMMA DriveGoesOn ==
  ASSUME Inductive, NEW c \in Commands, DriveStep(c) \/ DriveFault(c),
         disturbed' \subseteq Commands,
         UNCHANGED <<storeVars, auditVars, lifeVars>>
  PROVE  OneGoesOn(c)
<1>1. LifeTypeOK /\ CommandOK(c) /\ DriverTypeOK
  BY DEF Inductive
<1>2. MovesOn(c) /\ ~Driving(c, "idle")
  BY <1>1, DriveMovesOn
<1> QED
  BY <1>1, <1>2
  DEF OneGoesOn, OthersRest, MovesOn, storeVars, auditVars, lifeVars, LifeTypeOK, CommandOK,
      StageMatches, JobMatches, HasLoaded, Heard, Beyond, SuccessToldOf, Told, Driving, At

\* A step in the store.
LEMMA StoreGoesOn ==
  ASSUME Inductive, NEW c \in Commands, StoreStep(c) \/ StoreFault(c),
         disturbed' \subseteq Commands,
         UNCHANGED <<driverVars, auditVars, lifeVars>>
  PROVE  OneGoesOn(c)
<1>1. LifeTypeOK /\ CommandOK(c) /\ StoreTypeOK
  BY DEF Inductive, StoreInductive
<1>2. /\ \A d \in Commands \ {c} : storing'[d] = storing[d] /\ held'[d] = held[d]
      /\ storing[c] \notin {"idle", "done", "failed"} /\ storing'[c] # "idle"
      /\ At(c, "load") => /\ storing'[c] \in {"done", "failed"}
                          /\ storing'[c] = "done" => held'[c] \in Snapshots
  BY <1>1, StoreMovesOne
<1> QED
  BY <1>1, <1>2
  DEF OneGoesOn, OthersRest, driverVars, auditVars, lifeVars, LifeTypeOK, CommandOK,
      StageMatches, JobMatches, HasLoaded, Heard, Beyond, SuccessToldOf, Told, Driving, At,
      InStore

\* What a sink does with an event: if it is counted as heard, the sink has it.
LEMMA TellGoesOn ==
  ASSUME Inductive, NEW c \in Commands, Accept(c) \/ Refuse(c) \/ AcceptUnheard(c),
         UNCHANGED <<storeVars, driverVars, lifeVars, disturbed>>
  PROVE  OneGoesOn(c)
<1>1. LifeTypeOK /\ CommandOK(c)
  BY DEF Inductive
<1>2. event[c].kind \in Kinds /\ event[c].next \in 0..Sinks /\ event[c].failed \in BOOLEAN
  <2>1. event[c].kind # None /\ event[c].next <= Sinks
    BY DEF Accept, Refuse, AcceptUnheard, Telling
  <2>2. event[c] \in Events
    BY <1>1 DEF LifeTypeOK, Events
  <2> QED
    BY <2>1, <2>2, RestAuditAssumption DEF Events
<1>3. PICK failed \in BOOLEAN : GoOn(c, failed) /\ (failed \/ Delivery(c) \in delivered')
  BY DEF Accept, Refuse, AcceptUnheard
<1>4. /\ event' \in [Commands -> Events]
      /\ \A d \in Commands \ {c} : event'[d] = event[d]
      /\ event'[c].kind = event[c].kind /\ event'[c].next = event[c].next + 1
      /\ ~event'[c].failed => ~event[c].failed /\ Delivery(c) \in delivered'
  <2>1. event[c].next + 1 \in 0..(Sinks + 1) /\ (event[c].failed \/ failed) \in BOOLEAN
    BY <1>2, RestAuditAssumption
  <2>2. event \in [Commands -> Events]
    BY <1>1 DEF LifeTypeOK, Events
  <2> QED
    BY <1>2, <1>3, <2>1, <2>2 DEF GoOn, Events
<1>5. delivered \subseteq delivered'
  BY DEF Accept, Refuse, AcceptUnheard
<1>6. Heard(c)'
  BY <1>1, <1>2, <1>4, <1>5, RestAuditAssumption DEF CommandOK, Heard, Delivery
<1> QED
  BY <1>1, <1>4, <1>5, <1>6
  DEF OneGoesOn, OthersRest, storeVars, driverVars, lifeVars, LifeTypeOK, Events, CommandOK,
      StageMatches, JobMatches, HasLoaded, Beyond, SuccessToldOf, Told, Driving, At

-------------------------------------------------------------------------------
(* The answers *)

\* Nobody else is moved in the store or in the driver; the command itself ends up in the
\* store, in the driver, or in neither, as the stage says.
Elsewhere(c, s) ==
  /\ \A d \in Commands \ {c} :
       storing'[d] = storing[d] /\ held'[d] = held[d] /\ drive'[d] = drive[d]
  /\ s \in InStore <=> storing'[c] # "idle"
  /\ s = "driving" <=> drive'[c].step # "idle"
  /\ UNCHANGED disturbed

\* The result of an apply or a restore is recorded.
LEMMA FinishGoesOn ==
  ASSUME Inductive, NEW c \in Commands, NEW failed \in BOOLEAN,
         Finish(c, failed), Elsewhere(c, "outcome"),
         job[c] \in {"apply", "restore"}, Told(c, "intent"),
         ~failed /\ job[c] = "restore" => Told(c, "retired")
  PROVE  OneGoesOn(c)
<1>1. LifeTypeOK /\ event \in [Commands -> Events]
  BY DEF Inductive, LifeTypeOK, Events
<1> DEFINE kind == IF failed THEN "failed" ELSE "executed"
<1>2. /\ stage' = [stage EXCEPT ![c] = "outcome"]
      /\ error' = [error EXCEPT ![c] = error[c] \/ failed]
      /\ event' = [event EXCEPT ![c] = [kind |-> kind, next |-> 1, failed |-> FALSE]]
      /\ UNCHANGED <<delivered, boot, job>>
  BY DEF Finish, Stage, Fails, Tell
<1>3. kind \in {"failed", "executed"} /\ kind \in Kinds /\ kind # None
      /\ (kind = "failed" <=> failed)
  BY RestAuditAssumption DEF Kinds
<1> HIDE DEF kind
<1>4. LifeTypeOK'
  <2>1. event' \in [Commands -> Events]
    BY <1>1, <1>2, <1>3, ToldIsEvent
  <2>2. stage' \in [Commands -> Stages] /\ error' \in [Commands -> BOOLEAN]
    BY <1>1, <1>2 DEF LifeTypeOK, Stages
  <2> QED
    BY <1>1, <1>2, <2>1, <2>2 DEF LifeTypeOK, Events, Elsewhere
<1>5. OthersRest(c)
  BY <1>1, <1>2 DEF OthersRest, LifeTypeOK, Elsewhere
<1>6. /\ stage'[c] = "outcome" /\ event'[c].kind = kind /\ event'[c].next = 1
      /\ failed => error'[c]
  BY <1>1, <1>2 DEF LifeTypeOK
<1>7. CommandOK(c)'
  BY <1>2, <1>3, <1>6
  DEF CommandOK, StageMatches, JobMatches, HasLoaded, Heard, Beyond, SuccessToldOf, Told,
      Elsewhere, Driving, At, Recording, InStore
<1> QED
  BY <1>4, <1>5, <1>7 DEF OneGoesOn

\* A command ends.
LEMMA EndGoesOn ==
  ASSUME Inductive, NEW c \in Commands, NEW failed \in BOOLEAN,
         End(c, failed), Elsewhere(c, "ended"),
         ~failed /\ ~error[c] /\ job[c] # "save" =>
           /\ Told(c, "intent") /\ Told(c, "executed")
           /\ job[c] = "restore" => Told(c, "retired")
  PROVE  OneGoesOn(c)
<1>1. LifeTypeOK /\ event \in [Commands -> Events]
  BY DEF Inductive, LifeTypeOK, Events
<1>2. /\ stage' = [stage EXCEPT ![c] = "ended"]
      /\ error' = [error EXCEPT ![c] = error[c] \/ failed]
      /\ event' = [event EXCEPT ![c] = NoEvent]
      /\ UNCHANGED <<delivered, boot, job>>
  BY DEF End, Stage, Fails
<1>3. LifeTypeOK'
  <2>1. event' \in [Commands -> Events]
    BY <1>1, <1>2, NoEventIsEvent
  <2>2. stage' \in [Commands -> Stages] /\ error' \in [Commands -> BOOLEAN]
    BY <1>1, <1>2 DEF LifeTypeOK, Stages
  <2> QED
    BY <1>1, <1>2, <2>1, <2>2 DEF LifeTypeOK, Events, Elsewhere
<1>4. OthersRest(c)
  BY <1>1, <1>2 DEF OthersRest, LifeTypeOK, Elsewhere
<1>5. /\ stage'[c] = "ended" /\ event'[c].kind = None
      /\ ~error'[c] => ~failed /\ ~error[c]
  BY <1>1, <1>2 DEF LifeTypeOK, NoEvent
<1>6. CommandOK(c)'
  BY <1>2, <1>5
  DEF CommandOK, StageMatches, JobMatches, HasLoaded, Heard, Beyond, SuccessToldOf, Told,
      Elsewhere, Driving, At, Recording, InStore
<1> QED
  BY <1>3, <1>4, <1>6 DEF OneGoesOn

\* A command goes on to a stage in which nothing is recorded.
LEMMA StageGoesOn ==
  ASSUME Inductive, NEW c \in Commands,
         NEW s \in {"probing", "reading", "saving", "driving", "retiring"},
         GoOnTo(c, s), Elsewhere(c, s), stage[c] \notin Recording,
         s = "probing" => job[c] = "apply" /\ held'[c] \in Snapshots,
         s = "reading" => job[c] = "restore" /\ held'[c] \in Snapshots,
         s = "saving" => job[c] = "save",
         s = "driving" => job[c] \in {"apply", "restore"},
         s = "retiring" => job[c] = "restore",
         s = "saving" \/ Told(c, "intent")
  PROVE  OneGoesOn(c)
<1>1. LifeTypeOK /\ CommandOK(c)
  BY DEF Inductive
<1>2. stage' = [stage EXCEPT ![c] = s] /\ UNCHANGED <<event, delivered, boot, job, error>>
  BY DEF GoOnTo, Stage, auditVars
<1>3. LifeTypeOK'
  BY <1>1, <1>2 DEF LifeTypeOK, Stages, Elsewhere
<1>4. OthersRest(c)
  BY <1>1, <1>2 DEF OthersRest, LifeTypeOK, Elsewhere
<1>5. stage'[c] = s /\ event'[c].kind = None
  BY <1>1, <1>2 DEF LifeTypeOK, CommandOK, StageMatches
<1>6. CommandOK(c)'
  BY <1>1, <1>2, <1>5
  DEF CommandOK, StageMatches, JobMatches, HasLoaded, Heard, Beyond, SuccessToldOf, Told,
      Elsewhere, Driving, At, Recording, InStore
<1> QED
  BY <1>3, <1>4, <1>6 DEF OneGoesOn

\* What the invariant says of a command that takes an answer.
LEMMA StageFacts ==
  ASSUME Inductive, NEW c \in Commands
  PROVE  /\ event[c] \in Events /\ error[c] \in BOOLEAN
         /\ storing \in [Commands -> StoreSteps]
         /\ stage[c] = "driving" <=> drive[c].step # "idle"
         /\ stage[c] \in InStore <=> storing[c] # "idle"
         /\ stage[c] \in {"loading", "reading", "driving", "retiring", "telling", "outcome"} =>
              Told(c, "intent")
         /\ stage[c] = "probing" /\ job[c] = "apply" => Told(c, "intent")
         /\ JobMatches(c) /\ HasLoaded(c)
BY DEF Inductive, LifeTypeOK, Events, StoreInductive, StoreTypeOK, CommandOK, StageMatches,
       Beyond, Driving, At

\* Every sink was tried and none failed: every sink has the event.
LEMMA TriedIsTold ==
  ASSUME Inductive, NEW c \in Commands, Tried(c), ~event[c].failed
  PROVE  Told(c, event[c].kind)
<1>1. event[c].next \in 0..(Sinks + 1) /\ event[c].next > Sinks /\ event[c].kind # None
  BY StageFacts DEF Tried, Events
<1>2. Heard(c)
  BY DEF Inductive, CommandOK
<1> QED
  BY <1>1, <1>2, RestAuditAssumption DEF Heard, Told

\* The intent was recorded, or not.
LEMMA IntentGoesOn ==
  ASSUME Inductive, NEW c \in Commands, IntentRecorded(c)
  PROVE  OneGoesOn(c)
<1>1. /\ stage[c] = "intent" /\ job[c] \in {"apply", "restore"} /\ event[c].kind = "intent"
      /\ storing[c] = "idle" /\ drive[c].step = "idle" /\ event[c].failed \in BOOLEAN
  BY StageFacts DEF IntentRecorded, JobMatches, InStore, Events
<1>2. UNCHANGED <<drive, delivered, boot, job, disturbed>> /\ event' = [event EXCEPT ![c] = NoEvent]
  BY DEF IntentRecorded, driverVars, noise
<1>3. CASE event[c].failed /\ Stage(c, "ended") /\ Fails(c, TRUE) /\ UNCHANGED storeVars
  <2>1. End(c, TRUE)
    BY <1>2, <1>3 DEF End
  <2>2. Elsewhere(c, "ended")
    BY <1>1, <1>2, <1>3 DEF Elsewhere, storeVars, InStore
  <2> QED
    BY <2>1, <2>2, EndGoesOn
<1>4. CASE ~event[c].failed /\ Stage(c, "loading") /\ BeginLoad(c) /\ UNCHANGED error
  <2>1. Told(c, "intent")
    BY <1>1, <1>4, TriedIsTold DEF IntentRecorded
  <2>2. LifeTypeOK /\ storing \in [Commands -> StoreSteps] /\ event \in [Commands -> Events]
    BY StageFacts DEF Inductive, LifeTypeOK, Events
  <2>3. /\ stage' = [stage EXCEPT ![c] = "loading"]
        /\ storing' = [storing EXCEPT ![c] = "load"] /\ UNCHANGED <<held, error>>
    BY <1>4 DEF Stage, BeginLoad, GoTo
  <2>4. LifeTypeOK'
    <3>1. event' \in [Commands -> Events]
      BY <1>2, <2>2, NoEventIsEvent
    <3>2. stage' \in [Commands -> Stages]
      BY <2>2, <2>3 DEF LifeTypeOK, Stages
    <3> QED
      BY <1>2, <2>2, <2>3, <3>1, <3>2 DEF LifeTypeOK, Events
  <2>5. OthersRest(c)
    BY <1>2, <2>2, <2>3 DEF OthersRest, LifeTypeOK
  <2>6. stage'[c] = "loading" /\ storing'[c] = "load" /\ event'[c].kind = None
    BY <1>2, <2>2, <2>3 DEF LifeTypeOK, NoEvent
  <2>7. CommandOK(c)'
    BY <1>1, <1>2, <2>1, <2>6
    DEF CommandOK, StageMatches, JobMatches, HasLoaded, Heard, Beyond, SuccessToldOf, Told,
        Driving, At, Recording, InStore
  <2> QED
    BY <2>4, <2>5, <2>7 DEF OneGoesOn
<1> QED
  BY <1>3, <1>4 DEF IntentRecorded

\* The store's answer is taken: the command is out of the store.
LEMMA ReturnMoves ==
  ASSUME Inductive, NEW c \in Commands, Return(c)
  PROVE  /\ \A d \in Commands \ {c} : storing'[d] = storing[d]
         /\ storing'[c] = "idle" /\ UNCHANGED held
BY StageFacts DEF Return, GoTo

\* The snapshot was loaded.
LEMMA LoadedGoesOn ==
  ASSUME Inductive, NEW c \in Commands, Loaded(c)
  PROVE  OneGoesOn(c)
<1>1. stage[c] = "loading" /\ job[c] \in {"apply", "restore"} /\ Told(c, "intent")
      /\ drive[c].step = "idle" /\ (storing[c] = "done" => held[c] \in Snapshots)
  BY StageFacts DEF Loaded, JobMatches, HasLoaded, At
<1>2. \A s \in Stages \ (InStore \union {"driving"}) : Elsewhere(c, s)
  BY <1>1, ReturnMoves DEF Loaded, Elsewhere, driverVars, noise
<1>3. CASE Finish(c, TRUE)
  <2>1. Elsewhere(c, "outcome")
    BY <1>2 DEF Stages, InStore
  <2> QED
    BY <1>1, <1>3, <2>1, FinishGoesOn
<1>4. CASE storing[c] = "done" /\ GoOnTo(c, IF job[c] = "apply" THEN "probing" ELSE "reading")
  <2>1. held'[c] \in Snapshots
    BY <1>1, <1>4, ReturnMoves DEF Loaded
  <2> QED
    BY <1>1, <1>2, <1>4, <2>1, StageGoesOn DEF Stages, InStore, Recording
<1> QED
  BY <1>3, <1>4 DEF Loaded

\* A save has probed the host.
LEMMA ProbedGoesOn ==
  ASSUME Inductive, NEW c \in Commands, Probed(c)
  PROVE  OneGoesOn(c)
<1>1. stage[c] = "probing" /\ job[c] = "save" /\ storing[c] = "idle" /\ drive[c].step = "idle"
      /\ storing \in [Commands -> StoreSteps] /\ StoreTypeOK
  BY StageFacts DEF Probed, InStore, Inductive, StoreInductive
<1>2. UNCHANGED <<drive, disturbed>>
  BY DEF Probed, noise
<1>3. CASE End(c, TRUE) /\ UNCHANGED storeVars
  BY <1>1, <1>2, <1>3, EndGoesOn DEF Elsewhere, storeVars, InStore
<1>4. ASSUME NEW snapshot, GoOnTo(c, "saving"), BeginSave(c, snapshot)
      PROVE  OneGoesOn(c)
  <2>1. Elsewhere(c, "saving")
    BY <1>1, <1>2, <1>4 DEF Elsewhere, BeginSave, GoTo, InStore, StoreTypeOK
  <2> QED
    BY <1>1, <1>4, <2>1, StageGoesOn DEF Recording
<1> QED
  BY <1>3, <1>4 DEF Probed

\* A save is over.
LEMMA SavedGoesOn ==
  ASSUME Inductive, NEW c \in Commands, Saved(c)
  PROVE  OneGoesOn(c)
<1>1. stage[c] = "saving" /\ job[c] = "save" /\ drive[c].step = "idle"
  BY StageFacts DEF Saved, JobMatches
<1>2. Elsewhere(c, "ended")
  BY <1>1, ReturnMoves DEF Saved, Elsewhere, driverVars, noise, InStore
<1> QED
  BY <1>1, <1>2, EndGoesOn DEF Saved

\* An apply has planned.
LEMMA PlannedGoesOn ==
  ASSUME Inductive, NEW c \in Commands, Planned(c)
  PROVE  OneGoesOn(c)
<1>1. /\ stage[c] = "probing" /\ job[c] = "apply" /\ Told(c, "intent")
      /\ storing[c] = "idle" /\ drive[c].step = "idle"
      /\ drive \in [Commands -> [step : DriveSteps, steps : Seq(Changes), at : Nat,
                                 broken : BOOLEAN]]
  BY StageFacts DEF Planned, InStore, Inductive, DriverTypeOK
<1>2. UNCHANGED <<storing, held, disturbed>>
  BY DEF Planned, storeVars, noise
<1>3. ASSUME NEW failed \in BOOLEAN, Finish(c, failed), UNCHANGED drive
      PROVE  OneGoesOn(c)
  <2>1. Elsewhere(c, "outcome")
    BY <1>1, <1>2, <1>3 DEF Elsewhere, InStore
  <2> QED
    BY <1>1, <1>3, <2>1, FinishGoesOn
<1>4. ASSUME NEW steps, GoOnTo(c, "driving"), Begin(c, "check", steps)
      PROVE  OneGoesOn(c)
  <2>1. Elsewhere(c, "driving")
    BY <1>1, <1>2, <1>4 DEF Elsewhere, InStore, Begin, IdleDrive
  <2> QED
    BY <1>1, <1>4, <2>1, StageGoesOn DEF Recording
<1> QED
  BY <1>3, <1>4 DEF Planned

\* A restore has read the host.
LEMMA LiveReadGoesOn ==
  ASSUME Inductive, NEW c \in Commands, LiveRead(c)
  PROVE  OneGoesOn(c)
<1>1. /\ stage[c] = "reading" /\ job[c] = "restore" /\ Told(c, "intent")
      /\ storing[c] = "idle" /\ drive[c].step = "idle"
      /\ storing \in [Commands -> StoreSteps]
      /\ drive \in [Commands -> [step : DriveSteps, steps : Seq(Changes), at : Nat,
                                 broken : BOOLEAN]]
  BY StageFacts DEF LiveRead, InStore, Inductive, DriverTypeOK, JobMatches
<1>2. UNCHANGED disturbed
  BY DEF LiveRead, noise
<1>3. CASE Finish(c, TRUE) /\ UNCHANGED <<storeVars, drive>>
  <2>1. Elsewhere(c, "outcome")
    BY <1>1, <1>2, <1>3 DEF Elsewhere, InStore, storeVars
  <2> QED
    BY <1>1, <1>3, <2>1, FinishGoesOn
<1>4. CASE GoOnTo(c, "retiring") /\ BeginRetire(c) /\ UNCHANGED drive
  <2>1. Elsewhere(c, "retiring")
    BY <1>1, <1>2, <1>4 DEF Elsewhere, InStore, BeginRetire, GoTo
  <2> QED
    BY <1>1, <1>4, <2>1, StageGoesOn DEF Recording
<1>5. ASSUME NEW steps, GoOnTo(c, "driving"), Begin(c, "write", steps), UNCHANGED storeVars
      PROVE  OneGoesOn(c)
  <2>1. Elsewhere(c, "driving")
    BY <1>1, <1>2, <1>5 DEF Elsewhere, InStore, Begin, IdleDrive, storeVars
  <2> QED
    BY <1>1, <1>5, <2>1, StageGoesOn DEF Recording
<1> QED
  BY <1>3, <1>4, <1>5 DEF LiveRead

\* The driver has answered.
LEMMA DrivenGoesOn ==
  ASSUME Inductive, NEW c \in Commands, Driven(c)
  PROVE  OneGoesOn(c)
<1>1. /\ stage[c] = "driving" /\ job[c] \in {"apply", "restore"} /\ Told(c, "intent")
      /\ storing[c] = "idle" /\ storing \in [Commands -> StoreSteps]
      /\ drive \in [Commands -> [step : DriveSteps, steps : Seq(Changes), at : Nat,
                                 broken : BOOLEAN]]
  BY StageFacts DEF Driven, InStore, Inductive, DriverTypeOK, JobMatches
<1>2. drive' = [drive EXCEPT ![c] = IdleDrive] /\ UNCHANGED disturbed
  BY DEF Driven, noise
<1>3. ASSUME NEW failed \in BOOLEAN, ~failed => job[c] # "restore",
             Finish(c, failed), UNCHANGED storeVars
      PROVE  OneGoesOn(c)
  <2>1. Elsewhere(c, "outcome")
    BY <1>1, <1>2, <1>3 DEF Elsewhere, InStore, storeVars, IdleDrive
  <2> QED
    BY <1>1, <1>3, <2>1, FinishGoesOn
<1>4. CASE job[c] = "restore" /\ GoOnTo(c, "retiring") /\ BeginRetire(c)
  <2>1. Elsewhere(c, "retiring")
    BY <1>1, <1>2, <1>4 DEF Elsewhere, InStore, BeginRetire, GoTo, IdleDrive
  <2> QED
    BY <1>1, <1>4, <2>1, StageGoesOn DEF Recording
<1> QED
  BY <1>3, <1>4 DEF Driven

\* The snapshot was retired, or not.
LEMMA RetiredGoesOn ==
  ASSUME Inductive, NEW c \in Commands, Retired(c)
  PROVE  OneGoesOn(c)
<1>1. /\ stage[c] = "retiring" /\ job[c] = "restore" /\ Told(c, "intent")
      /\ drive[c].step = "idle" /\ LifeTypeOK /\ event \in [Commands -> Events]
  BY StageFacts DEF Retired, JobMatches, Inductive, LifeTypeOK, Events
<1>2. UNCHANGED <<drive, disturbed>>
  BY DEF Retired, driverVars, noise
<1>3. CASE Finish(c, TRUE)
  <2>1. Elsewhere(c, "outcome")
    BY <1>1, <1>2, ReturnMoves DEF Retired, Elsewhere, InStore
  <2> QED
    BY <1>1, <1>3, <2>1, FinishGoesOn
<1>4. CASE Stage(c, "telling") /\ Tell(c, "retired") /\ UNCHANGED <<delivered, boot, job, error>>
  <2>1. /\ stage' = [stage EXCEPT ![c] = "telling"]
        /\ event' = [event EXCEPT ![c] = [kind |-> "retired", next |-> 1, failed |-> FALSE]]
    BY <1>4 DEF Stage, Tell
  <2>2. "retired" \in Kinds /\ "retired" # None
    BY RestAuditAssumption DEF Kinds
  <2>3. stage' \in [Commands -> Stages] /\ event' \in [Commands -> Events]
    BY <1>1, <2>1, <2>2, ToldIsEvent DEF LifeTypeOK, Stages
  <2>4. LifeTypeOK'
    BY <1>1, <1>2, <1>4, <2>3 DEF LifeTypeOK, Events
  <2>5. OthersRest(c)
    BY <1>1, <1>2, <1>4, <2>1, ReturnMoves DEF Retired, OthersRest, LifeTypeOK
  <2>6. stage'[c] = "telling" /\ event'[c].kind = "retired" /\ event'[c].next = 1
        /\ storing'[c] = "idle"
    BY <1>1, <2>1, ReturnMoves DEF LifeTypeOK, Retired
  <2>7. CommandOK(c)'
    BY <1>1, <1>2, <1>4, <2>2, <2>6
    DEF CommandOK, StageMatches, JobMatches, HasLoaded, Heard, Beyond, SuccessToldOf, Told,
        Driving, At, Recording, InStore
  <2> QED
    BY <2>4, <2>5, <2>7 DEF OneGoesOn
<1> QED
  BY <1>3, <1>4 DEF Retired

\* The retirement was recorded, or not.
LEMMA RetirementToldGoesOn ==
  ASSUME Inductive, NEW c \in Commands, RetirementTold(c)
  PROVE  OneGoesOn(c)
<1>1. /\ stage[c] = "telling" /\ job[c] = "restore" /\ Told(c, "intent")
      /\ event[c].kind = "retired" /\ event[c].failed \in BOOLEAN
      /\ storing[c] = "idle" /\ drive[c].step = "idle"
  BY StageFacts DEF RetirementTold, JobMatches, InStore, Events
<1>2. ~event[c].failed => Told(c, "retired")
  BY <1>1, TriedIsTold DEF RetirementTold
<1>3. Elsewhere(c, "outcome")
  BY <1>1 DEF RetirementTold, Elsewhere, storeVars, driverVars, noise, InStore
<1> QED
  BY <1>1, <1>2, <1>3, FinishGoesOn DEF RetirementTold

\* The result was recorded, or not.
LEMMA FinishedGoesOn ==
  ASSUME Inductive, NEW c \in Commands, Finished(c)
  PROVE  OneGoesOn(c)
<1>1. /\ stage[c] = "outcome" /\ Told(c, "intent")
      /\ event[c].kind = "executed" \/ (event[c].kind = "failed" /\ error[c])
      /\ event[c].failed \in BOOLEAN /\ storing[c] = "idle" /\ drive[c].step = "idle"
  BY StageFacts DEF Finished, JobMatches, InStore, Events
<1>2. event[c].kind = "executed" /\ job[c] = "restore" => Told(c, "retired")
  BY <1>1 DEF Inductive, CommandOK, Beyond
<1>3. ~event[c].failed /\ ~error[c] => Told(c, "executed")
  BY <1>1, TriedIsTold DEF Finished
<1>4. Elsewhere(c, "ended")
  BY <1>1 DEF Finished, Elsewhere, storeVars, driverVars, noise, InStore
<1> QED
  BY <1>1, <1>2, <1>3, <1>4, EndGoesOn DEF Finished

\* A command that is gone is in no part, and nothing is said of it any more.
LEMMA KilledGoesOn ==
  ASSUME Inductive, NEW c \in Commands, Killed(c)
  PROVE  OneGoesOn(c)
<1>1. /\ LifeTypeOK /\ event \in [Commands -> Events] /\ StoreTypeOK
      /\ drive \in [Commands -> [step : DriveSteps, steps : Seq(Changes), at : Nat,
                                 broken : BOOLEAN]]
  BY DEF Inductive, LifeTypeOK, Events, DriverTypeOK, StoreInductive
<1>2. /\ stage' = [stage EXCEPT ![c] = "dead"]
      /\ storing' = [storing EXCEPT ![c] = "idle"] /\ held' = [held EXCEPT ![c] = None]
      /\ drive' = [drive EXCEPT ![c] = IdleDrive]
      /\ event' = [event EXCEPT ![c] = NoEvent]
      /\ UNCHANGED <<delivered, boot, job, error, disturbed>>
  BY DEF Killed, Stage, StoreDies, noise
<1>3. event' \in [Commands -> Events] /\ stage' \in [Commands -> Stages]
  BY <1>1, <1>2, NoEventIsEvent DEF LifeTypeOK, Stages
<1>4. LifeTypeOK'
  BY <1>1, <1>2, <1>3 DEF LifeTypeOK, Events
<1>5. OthersRest(c)
  BY <1>1, <1>2 DEF OthersRest, LifeTypeOK, StoreTypeOK
<1>6. /\ stage'[c] = "dead" /\ storing'[c] = "idle" /\ drive'[c].step = "idle"
      /\ event'[c].kind = None
  BY <1>1, <1>2 DEF LifeTypeOK, StoreTypeOK, IdleDrive, NoEvent
<1>7. CommandOK(c)'
  BY <1>6
  DEF CommandOK, StageMatches, JobMatches, HasLoaded, Heard, Beyond, SuccessToldOf, Driving, At,
      Recording, InStore
<1> QED
  BY <1>4, <1>5, <1>7 DEF OneGoesOn

LEMMA AnswerGoesOn ==
  ASSUME Inductive, NEW c \in Commands, Answer(c)
  PROVE  OneGoesOn(c)
BY IntentGoesOn, LoadedGoesOn, ProbedGoesOn, SavedGoesOn, PlannedGoesOn, LiveReadGoesOn,
   DrivenGoesOn, RetiredGoesOn, RetirementToldGoesOn, FinishedGoesOn DEF Answer

\* A step that concerns no command.
LEMMA NobodyMoves ==
  ASSUME Inductive, disturbed' \subseteq Commands,
         UNCHANGED <<storeVars, drive, auditVars, lifeVars>>
  PROVE  LifeTypeOK' /\ \A c \in Commands : CommandOK(c)'
<1>1. LifeTypeOK'
  BY DEF Inductive, LifeTypeOK, storeVars, auditVars, lifeVars
<1>2. ASSUME NEW c \in Commands
      PROVE  CommandOK(c)' <=> CommandOK(c)
  BY DEF CommandOK, StageMatches, JobMatches, HasLoaded, Heard, Beyond,
     SuccessToldOf, Told, Driving, At, storeVars, auditVars, lifeVars
<1> QED
  BY <1>1, <1>2 DEF Inductive

\* After a power loss no command is at work.
LEMMA PowerLossGoesOn ==
  ASSUME Inductive, PowerLoss
  PROVE  LifeTypeOK' /\ \A c \in Commands : CommandOK(c)'
<1>1. LifeTypeOK /\ \A c \in Commands : CommandOK(c)
  BY DEF Inductive
<1>2. /\ stage' = [c \in Commands |-> IF Running(c) THEN "dead" ELSE stage[c]]
      /\ storing' = [c \in Commands |-> "idle"] /\ drive' = [c \in Commands |-> IdleDrive]
      /\ event' = [c \in Commands |-> NoEvent]
      /\ UNCHANGED <<delivered, boot, job, error, disturbed>>
  BY DEF PowerLoss, StorePowerLoss
<1>3. event' \in [Commands -> Events] /\ stage' \in [Commands -> Stages]
  BY <1>1, <1>2, NoEventIsEvent DEF LifeTypeOK, Stages
<1>4. LifeTypeOK'
  BY <1>1, <1>2, <1>3 DEF LifeTypeOK, Events
<1>5. ASSUME NEW c \in Commands PROVE CommandOK(c)'
  <2>1. /\ stage'[c] \in {"new", "ended", "dead"} /\ (stage'[c] = "ended" => stage[c] = "ended")
        /\ storing'[c] = "idle" /\ drive'[c].step = "idle" /\ event'[c].kind = None
    BY <1>2 DEF Running, IdleDrive, NoEvent
  <2> QED
    BY <1>1, <1>2, <2>1
    DEF CommandOK, StageMatches, JobMatches, HasLoaded, Heard, Beyond, SuccessToldOf, Told,
        Driving, At, Recording, InStore
<1> QED
  BY <1>4, <1>5

\* Every step keeps what is said of the commands.
LEMMA NextKeepsCommands ==
  ASSUME Inductive, Next
  PROVE  LifeTypeOK' /\ \A c \in Commands : CommandOK(c)'
<1> DEFINE Goal == LifeTypeOK' /\ \A c \in Commands : CommandOK(c)'
<1>1. ASSUME NEW c \in Commands, OneGoesOn(c) PROVE Goal
  BY <1>1, OthersStayOK DEF OneGoesOn, Inductive
<1>2. disturbed \subseteq Commands
  BY DEF Inductive, LifeTypeOK
<1>3. ASSUME NEW c \in Commands, Start(c) \/ Answer(c) \/ Killed(c) PROVE Goal
  BY <1>1, <1>3, StartGoesOn, AnswerGoesOn, KilledGoesOn
<1>4. ASSUME NEW c \in Commands, LookStep(c) PROVE Goal
  BY <1>2, <1>4, NobodyMoves DEF LookStep, Look, noise
<1>5. ASSUME NEW c \in Commands, Drives(c) PROVE Goal
  BY <1>1, <1>2, <1>5, DriveGoesOn DEF Drives, Disturbs
<1>6. ASSUME NEW c \in Commands, Stores(c) PROVE Goal
  BY <1>1, <1>2, <1>6, StoreGoesOn DEF Stores
<1>7. ASSUME NEW c \in Commands, Tells(c) PROVE Goal
  BY <1>1, <1>2, <1>7, TellGoesOn DEF Tells, noise
<1>8. ASSUME NEW c \in Commands, SystemCallFails(c) PROVE Goal
  <2>1. CASE LookFails(c) /\ UNCHANGED <<storeVars, auditVars, disturbed>>
    BY <1>2, <1>8, <2>1, NobodyMoves DEF SystemCallFails, LookFails
  <2>2. CASE DriveFault(c) /\ UNCHANGED <<storeVars, auditVars, disturbed>>
    BY <1>1, <1>2, <1>8, <2>2, DriveGoesOn DEF SystemCallFails
  <2>3. CASE StoreFault(c) /\ UNCHANGED <<driverVars, auditVars, disturbed>>
    BY <1>1, <1>2, <1>8, <2>3, StoreGoesOn DEF SystemCallFails
  <2>4. CASE (Refuse(c) \/ AcceptUnheard(c)) /\ UNCHANGED <<storeVars, driverVars, disturbed>>
    BY <1>1, <1>8, <2>4, TellGoesOn DEF SystemCallFails
  <2> QED
    BY <1>8, <2>1, <2>2, <2>3, <2>4 DEF SystemCallFails
<1>9. CASE Outside
  BY <1>2, <1>9, NobodyMoves DEF Outside, Disturbs
<1>10. CASE PowerLoss
  BY <1>10, PowerLossGoesOn
<1> QED
  BY <1>3, <1>4, <1>5, <1>6, <1>7, <1>8, <1>9, <1>10 DEF Next, Work

-------------------------------------------------------------------------------
(* The theorems *)

LEMMA InitInductive == Init => Inductive
<1> SUFFICES ASSUME Init PROVE Inductive
  OBVIOUS
<1>1. StoreInductive
  BY StoreInitInductive DEF Init
<1>2. DriverTypeOK
  <2>1. IdleDrive \in [step : DriveSteps, steps : Seq(Changes), at : Nat, broken : BOOLEAN]
    BY DEF IdleDrive, DriveSteps
  <2> QED
    BY <2>1, LookingIsTyped DEF Init, DriverInit, DriverTypeOK, Unseen, Driving, IdleDrive
<1>3. LifeTypeOK
  <2>1. event \in [Commands -> Events]
    BY NoEventIsEvent DEF Init, AuditInit
  <2> QED
    BY <2>1 DEF Init, LifeTypeOK, Stages, Events
<1>4. ASSUME NEW c \in Commands PROVE CommandOK(c)
  BY DEF Init, StoreInit, DriverInit, AuditInit, CommandOK, StageMatches, JobMatches, HasLoaded,
         Heard, Beyond, SuccessToldOf, Driving, At, Recording, InStore, IdleDrive, NoEvent
<1> QED
  BY <1>1, <1>2, <1>3, <1>4 DEF Inductive

LEMMA StutterInductive ==
  ASSUME Inductive, UNCHANGED vars
  PROVE  Inductive'
<1>1. StoreInductive'
  BY StutterKeeps DEF Inductive, vars
<1>2. DriverTypeOK'
  BY DEF Inductive, DriverTypeOK, vars, driverVars, Driving
<1>3. LifeTypeOK' /\ \A c \in Commands : CommandOK(c)'
  BY NobodyMoves DEF Inductive, LifeTypeOK, vars, driverVars, noise
<1> QED
  BY <1>1, <1>2, <1>3 DEF Inductive

\* The invariant of the lifecycle.
LEMMA LifecycleInductive == Spec => []Inductive
<1>1. Inductive /\ [Next]_vars => Inductive'
  BY NextKeepsStore, NextKeepsDriver, NextKeepsCommands, StutterInductive DEF Inductive
<1> QED
  BY <1>1, InitInductive, PTL DEF Spec

(***************************************************************************)
(* Every variable of the commands, the driver, the store and the audit     *)
(* keeps its type; a command is in the driver, in the store or recording   *)
(* exactly in the stages that say so (main.rs:256-317).                    *)
(***************************************************************************)
THEOREM LifecycleTypes == Spec => []TypeOK
<1>1. Inductive => TypeOK
  <2> SUFFICES ASSUME Inductive PROVE TypeOK
    OBVIOUS
  <2>1. StoreTypeOK /\ host \in Hosts /\ boot \in Hosts
    BY RestLifecycleAssumption DEF Inductive, StoreInductive, DriverTypeOK, LifeTypeOK
  <2>2. ASSUME NEW c \in Commands
        PROVE  /\ seen[c]["governor"] \in Governors \union {None}
               /\ seen[c]["min"] \in Floors \union {None}
               /\ seen[c]["max"] \in Ceilings \union {None}
    BY DEF Inductive, DriverTypeOK, Files, Fits
  <2>3. ASSUME NEW c \in Commands
        PROVE  looked[c] \in 0..Len(Looking) /\ drive[c].at \in 0..Len(drive[c].steps)
    BY DEF Inductive, DriverTypeOK, Driving, IdleDrive
  <2>4. ASSUME NEW c \in Commands
        PROVE  event[c].kind \in Kinds \union {None} /\ event[c].next \in 0..(Sinks + 1)
    BY DEF Inductive, LifeTypeOK
  <2>5. ASSUME NEW c \in Commands
        PROVE  /\ Driving(c, "idle") <=> stage[c] # "driving"
               /\ event[c].kind # None <=> stage[c] \in {"intent", "telling", "outcome"}
               /\ stage[c] \in {"loading", "saving", "retiring"} <=> storing[c] # "idle"
    BY DEF Inductive, CommandOK, StageMatches, Recording, InStore, At
  <2> QED
    BY <2>1, <2>2, <2>3, <2>4, <2>5 DEF Inductive, LifeTypeOK, TypeOK
<1> QED
  BY <1>1, LifecycleInductive, PTL

(***************************************************************************)
(* No snapshot is lost while commands save, apply and restore at once,     *)
(* fail, are killed, or lose the power (original_power.rs:255-294).        *)
(***************************************************************************)
THEOREM LifecycleKeeps == Spec => []Kept
<1>1. Inductive => Kept
  BY DEF Inductive, StoreInductive
<1> QED
  BY <1>1, LifecycleInductive, PTL

(***************************************************************************)
(* No setting is touched before every sink has the intent, for any number  *)
(* of sinks and of commands (main.rs:260, audit/mod.rs:77).                *)
(***************************************************************************)
THEOREM LifecycleFailsClosed == Spec => []FailClosed
<1>1. Inductive => FailClosed
  BY DEF Inductive, CommandOK, StageMatches, Beyond, FailClosed
<1> QED
  BY <1>1, LifecycleInductive, PTL

(***************************************************************************)
(* A command that reports success is told of in every sink, for any number *)
(* of sinks and of commands (main.rs:309-313, 437-465).                    *)
(***************************************************************************)
THEOREM LifecycleTellsSuccess == Spec => []SuccessIsTold
<1>1. Inductive => SuccessIsTold
  BY DEF Inductive, CommandOK, SuccessIsTold
<1> QED
  BY <1>1, LifecycleInductive, PTL
===============================================================================
