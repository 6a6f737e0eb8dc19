-------------------------- MODULE RestLifecycleSafety -------------------------
(***************************************************************************)
(* What the commands that write promise of the files, for every number of  *)
(* commands, faults and settings: what the driver reports is true, a       *)
(* restore goes through, the snapshot goes only when the host is back, and *)
(* one command at a time is the recovery protocol.                         *)
(*                                                                         *)
(* The argument.  As long as nobody disturbs a command, the files hold     *)
(* what FilesAgree says: what it has read, and change by change what it    *)
(* found, wrote or put back.  Its own steps keep this (StepAgrees), and a  *)
(* step of another one either leaves the files alone or disturbs it        *)
(* (OthersLeftAlone).  With one command at a time nobody is disturbed, and *)
(* the snapshot at hand is the active one (AloneOK).                       *)
(***************************************************************************)
EXTENDS RestLifecycleProofs, SequenceTheorems

-------------------------------------------------------------------------------
(* Values that count as the same *)

\* A value counts as itself.
LEMMA EqualMatches ==
  ASSUME NEW f \in Files, NEW v, Fits(f, v)
  PROVE  Matches(f, v, v)
<1>1. CASE f = "governor"
  BY <1>1 DEF Matches
<1>2. CASE f # "governor"
  <2>1. v \in Nat /\ MHz \in Nat \ {0}
    BY <1>2, RestDriverAssumption, RestPlanningAssumption DEF Fits
  <2>2. -MHz < 2 * (v - v) /\ 2 * (v - v) < MHz
    BY <2>1
  <2> QED
    BY <1>2, <2>2 DEF Matches, approximately_equal
<1> QED
  BY <1>1, <1>2

-------------------------------------------------------------------------------
(* A command that somebody else's step leaves alone *)

\* What is the command's own stays; the files change only if it counts as disturbed.
LeftAlone(c) ==
  /\ stage'[c] = stage[c] /\ job'[c] = job[c] /\ drive'[c] = drive[c]
  /\ storing'[c] = storing[c] /\ held'[c] = held[c] /\ seen'[c] = seen[c]
  /\ host' = host \/ c \in disturbed' \/ ~Running(c)
  /\ disturbed \subseteq disturbed'
  /\ faults' = 0 => faults = 0

\* A command that is in no part of the work.
InNoPart(c) == drive[c] = IdleDrive /\ storing[c] \notin RetiringAt \ {"syncroot"}

\* Of a command that neither drives nor retires, only what it has read is to be true.
LEMMA InNoPartAgrees ==
  ASSUME NEW c \in Commands, InNoPart(c), SeenIsTrue(c)
  PROVE  FilesAgree(c)
<1>1. drive[c].step = "idle" /\ drive[c].steps = <<>> /\ DOMAIN drive[c].steps = {}
  BY DEF InNoPart, IdleDrive
<1>2. StepsSound(c) /\ RestoresSnapshot(c)
  BY <1>1 DEF StepsSound, RestoresSnapshot
<1>3. DriverIsAt(c) /\ OthersRestored(c) /\ RestoreIsAt(c)
  BY <1>1 DEF DriverIsAt, OthersRestored, RestoreIsAt, InNoPart, Driving
<1> QED
  BY <1>2, <1>3 DEF FilesAgree

LEMMA InNoPartAgreesNext ==
  ASSUME NEW c \in Commands, drive'[c] = IdleDrive,
         storing'[c] \notin RetiringAt \ {"syncroot"}, SeenIsTrue(c)'
  PROVE  FilesAgree(c)'
<1>1. drive'[c].step = "idle" /\ drive'[c].steps = <<>> /\ DOMAIN drive'[c].steps = {}
  BY DEF IdleDrive
<1>2. StepsSound(c)' /\ RestoresSnapshot(c)'
  BY <1>1 DEF StepsSound, RestoresSnapshot
<1>3. DriverIsAt(c)' /\ OthersRestored(c)' /\ RestoreIsAt(c)'
  BY <1>1 DEF DriverIsAt, OthersRestored, RestoreIsAt, Driving
<1> QED
  BY <1>2, <1>3 DEF FilesAgree

\* What the stage of a command says of its parts.
LEMMA PartsFollowStage ==
  ASSUME Inductive, NEW c \in Commands
  PROVE  /\ stage[c] # "driving" <=> drive[c] = IdleDrive
         /\ stage[c] \notin InStore <=> storing[c] = "idle"
         /\ drive[c].step = "idle" <=> drive[c] = IdleDrive
         /\ stage[c] \in {"probing", "reading", "driving"} \union InStore => Running(c)
BY DEF Inductive, CommandOK, StageMatches, DriverTypeOK, Driving, IdleDrive, At, InStore, Running

LEMMA LeftAloneAgrees ==
  ASSUME Inductive, NEW c \in Commands, FilesAgree(c), LeftAlone(c)
  PROVE  FilesAgree(c)'
<1>1. Reads(c)' <=> Reads(c)
  BY DEF LeftAlone, Reads
<1>2. StepsSound(c)' /\ RestoresSnapshot(c)'
  BY DEF FilesAgree, LeftAlone, StepsSound, RestoresSnapshot
<1>3. CASE c \in disturbed'
  BY <1>1, <1>2, <1>3 DEF FilesAgree, LeftAlone, SeenIsTrue
<1>4. CASE ~Running(c)
  <2>1. drive[c] = IdleDrive /\ storing[c] = "idle" /\ ~Reads(c)
    BY <1>4, PartsFollowStage DEF Reads
  <2>2. seen'[c] = Unseen
    BY <2>1 DEF FilesAgree, SeenIsTrue, LeftAlone
  <2>3. SeenIsTrue(c)'
    BY <2>2 DEF SeenIsTrue, Unseen
  <2> QED
    BY <2>1, <2>3, InNoPartAgreesNext DEF LeftAlone, RetiringAt
<1>5. CASE host' = host /\ c \notin disturbed'
  <2>1. SeenIsTrue(c)'
    BY <1>1, <1>5 DEF FilesAgree, LeftAlone, SeenIsTrue
  <2>2. DriverIsAt(c)' /\ OthersRestored(c)' /\ RestoreIsAt(c)'
    BY <1>5
    DEF FilesAgree, LeftAlone, DriverIsAt, OthersRestored, RestoreIsAt, Driving, Untouched,
        Written, Undone, File, Holds, Excludes
  <2> QED
    BY <1>2, <2>1, <2>2 DEF FilesAgree
<1> QED
  BY <1>3, <1>4, <1>5 DEF LeftAlone

\* A step of one command leaves the others alone.
CommandStep(c) == Start(c) \/ Work(c) \/ Answer(c) \/ SystemCallFails(c) \/ Killed(c)

LEMMA OthersRestOn ==
  ASSUME Inductive, NEW c \in Commands, CommandStep(c)
  PROVE  OthersRest(c)
<1>1. disturbed \subseteq Commands
  BY DEF Inductive, LifeTypeOK
<1>2. CASE Start(c) \/ Answer(c) \/ Killed(c)
  BY <1>2, StartGoesOn, AnswerGoesOn, KilledGoesOn DEF OneGoesOn
<1>3. CASE UNCHANGED <<storeVars, drive, auditVars, lifeVars>>
  BY <1>3 DEF OthersRest, storeVars, auditVars, lifeVars
<1>4. CASE LookStep(c)
  BY <1>3, <1>4 DEF LookStep, Look
<1>5. CASE Drives(c)
  BY <1>1, <1>5, DriveGoesOn DEF Drives, Disturbs, OneGoesOn
<1>6. CASE Stores(c)
  BY <1>1, <1>6, StoreGoesOn DEF Stores, OneGoesOn
<1>7. CASE Tells(c)
  BY <1>1, <1>7, TellGoesOn DEF Tells, noise, OneGoesOn
<1>8. CASE SystemCallFails(c)
  <2>1. CASE LookFails(c) /\ UNCHANGED <<storeVars, auditVars, disturbed>>
    BY <1>3, <1>8, <2>1 DEF SystemCallFails, LookFails
  <2>2. CASE DriveFault(c) /\ UNCHANGED <<storeVars, auditVars, disturbed>>
    BY <1>1, <1>8, <2>2, DriveGoesOn DEF SystemCallFails, OneGoesOn
  <2>3. CASE StoreFault(c) /\ UNCHANGED <<driverVars, auditVars, disturbed>>
    BY <1>1, <1>8, <2>3, StoreGoesOn DEF SystemCallFails, OneGoesOn
  <2>4. CASE (Refuse(c) \/ AcceptUnheard(c)) /\ UNCHANGED <<storeVars, driverVars, disturbed>>
    BY <1>1, <1>8, <2>4, TellGoesOn DEF SystemCallFails, OneGoesOn
  <2> QED
    BY <1>8, <2>1, <2>2, <2>3, <2>4 DEF SystemCallFails
<1> QED
  BY <1>2, <1>4, <1>5, <1>6, <1>7, <1>8 DEF CommandStep, Work

LEMMA OthersLeftAlone ==
  ASSUME Inductive, faults \in Nat, NEW c \in Commands, NEW d \in Commands \ {c}, CommandStep(c)
  PROVE  LeftAlone(d)
<1>1. OthersRest(c)
  BY OthersRestOn
<1>2. faults' = 0 => faults = 0
  <2>1. CASE UNCHANGED faults
    BY <2>1
  <2>2. CASE Fault
    BY <2>2 DEF Fault
  <2> QED
    BY <2>1, <2>2
    DEF CommandStep, Start, StartAs, Work, LookStep, Drives, Stores, Tells, Answer,
        IntentRecorded, Loaded, Probed, Saved, Planned, LiveRead, Driven, Retired,
        RetirementTold, Finished, SystemCallFails, Killed, noise
<1>3. seen'[d] = seen[d]
  <2>1. seen \in [Commands -> [Files -> Values \union {None}]]
    BY DEF Inductive, DriverTypeOK
  <2>2. CASE UNCHANGED seen
    BY <2>2
  <2>3. CASE Forget(c)
    BY <2>1, <2>3 DEF Forget
  <2>4. CASE Look(c)
    BY <2>1, <2>4 DEF Look
  <2>5. CASE Answer(c)
    BY <2>2, <2>3, <2>5
    DEF Answer, IntentRecorded, Loaded, Probed, Saved, Planned, LiveRead, Driven, Retired,
        RetirementTold, Finished, driverVars
  <2>6. CASE Start(c) \/ Work(c)
    BY <2>2, <2>4, <2>6
    DEF Start, StartAs, Work, LookStep, Drives, DriveStep, Check, Expect, Write, Verify, Undo,
        Recheck, Stores, Tells, driverVars
  <2>7. CASE SystemCallFails(c)
    BY <2>2, <2>7
    DEF SystemCallFails, LookFails, DriveFault, AccessFails, WriteIgnored, driverVars
  <2> QED
    BY <2>3, <2>5, <2>6, <2>7 DEF CommandStep, Killed
<1>4. disturbed \subseteq disturbed' /\ (host' = host \/ d \in disturbed' \/ ~Running(d))
  <2>1. CASE UNCHANGED <<host, disturbed>>
    BY <2>1
  <2>2. CASE Drives(c)
    BY <2>2 DEF Drives, Disturbs
  <2>3. CASE Stores(c)
    BY <2>3 DEF Stores, driverVars
  <2> QED
    BY <2>1, <2>2, <2>3
    DEF CommandStep, Start, StartAs, Work, LookStep, Look, Tells, Answer, IntentRecorded, Loaded,
        Probed, Saved, Planned, LiveRead, Driven, Retired, RetirementTold, Finished,
        SystemCallFails, LookFails, DriveFault, AccessFails, WriteIgnored, Killed, driverVars,
        storeVars, noise
<1> QED
  BY <1>1, <1>2, <1>3, <1>4 DEF LeftAlone, OthersRest

-------------------------------------------------------------------------------
(* A command's own steps, outside the driver *)

\* A command that has read nothing.
LEMMA NothingSeen ==
  ASSUME NEW c \in Commands, seen'[c] = Unseen
  PROVE  SeenIsTrue(c)'
BY DEF SeenIsTrue, Unseen

\* A command that reads nothing has read nothing.
LEMMA UnseenUnlessReading ==
  ASSUME NEW c \in Commands, FilesAgree(c), ~Reads(c)
  PROVE  seen[c] = Unseen
BY DEF FilesAgree, SeenIsTrue

\* What is used up is gone.
LEMMA ForgetForgets ==
  ASSUME Inductive, NEW c \in Commands, Forget(c)
  PROVE  seen'[c] = Unseen
BY DEF Inductive, DriverTypeOK, Forget

LEMMA StartAgrees ==
  ASSUME Inductive, NEW c \in Commands, FilesAgree(c), Start(c)
  PROVE  FilesAgree(c)'
<1>1. UNCHANGED <<seen, drive, storing>> /\ stage[c] = "new"
  BY DEF Start, StartAs, storeVars, driverVars
<1>2. seen[c] = Unseen /\ drive[c] = IdleDrive /\ storing[c] = "idle"
  BY <1>1, UnseenUnlessReading, PartsFollowStage DEF Reads, InStore
<1> QED
  BY <1>1, <1>2, NothingSeen, InNoPartAgreesNext DEF RetiringAt

\* What it reads of a file is what the file holds.
LEMMA LookAgrees ==
  ASSUME Inductive, NEW c \in Commands, FilesAgree(c), LookStep(c)
  PROVE  FilesAgree(c)'
<1>1. UNCHANGED <<host, drive, storing, disturbed, stage>> /\ Reads(c)
  BY DEF LookStep, Look, storeVars, lifeVars, noise
<1>2. drive[c] = IdleDrive /\ storing[c] = "idle"
  BY <1>1, PartsFollowStage DEF Reads, InStore
<1>3. PICK f \in Files : seen' = [seen EXCEPT ![c][f] = host[f]]
  <2>1. looked[c] \in 0..3 /\ looked[c] < 3
    BY LookingIsTyped DEF Inductive, DriverTypeOK, LookStep, Look
  <2>2. Looking[looked[c] + 1] \in Files
    BY <2>1, LookingIsTyped
  <2> QED
    BY <2>2 DEF LookStep, Look
<1>4. \A g \in Files : seen'[c][g] = IF g = f THEN host[f] ELSE seen[c][g]
  BY <1>3 DEF Inductive, DriverTypeOK
<1>5. SeenIsTrue(c)'
  BY <1>1, <1>4 DEF FilesAgree, SeenIsTrue, Reads
<1> QED
  BY <1>1, <1>2, <1>5, InNoPartAgreesNext DEF RetiringAt

\* How a step in the store concerns what a command has at hand.
LEMMA RetiringGoesOn ==
  ASSUME StoreTypeOK, NEW c \in Commands, StoreStep(c) \/ StoreFault(c)
  PROVE  /\ storing'[c] \in RetiringAt \ {"syncroot"} =>
              storing[c] \in RetiringAt \ {"syncroot"} /\ active' = active
         /\ storing'[c] \in SavingAt => storing[c] \in SavingAt
         /\ storing[c] \notin {"load", "reload"} => held' = held
         /\ storing[c] \in {"load", "reload"} =>
              /\ active' = active /\ storing'[c] \in {"done", "mkarchive", "failed"}
              /\ \/ storing'[c] = "failed" /\ held' = held
                 \/ active \in Snapshots /\ held'[c] = active
<1> USE DEF StoreTypeOK, At, GoTo, Fail, files, RetiringAt, SavingAt
<1>1. CASE SaveStep(c)
  BY <1>1 DEF SaveStep, MakeRoot, ChmodRoot, Create, CreateRefused, WriteAll, Fill, Sync, Withdraw,
      WithdrawRefused
<1>2. CASE LoadStep(c)
  BY <1>2 DEF LoadStep, Load, Loadable, LoadRefused
<1>3. CASE RetireStep(c)
  BY <1>3 DEF RetireStep, Reload, Loadable, ReloadRefused, MakeArchive, ChmodArchive, Link,
      LinkRefused, SyncArchive, RemoveActive, RemoveRefused, SyncRoot
<1>4. CASE StoreFault(c)
  BY <1>4 DEF StoreFault, WriteShort, Fill, SyncFails, CallFails
<1> QED
  BY <1>1, <1>2, <1>3, <1>4 DEF StoreStep

\* In the store a command leaves the files alone; if it retires another snapshot than the one
\* it verified, it counts as disturbed.
LEMMA StoreAgrees ==
  ASSUME Inductive, NEW c \in Commands, FilesAgree(c),
         StoreStep(c) \/ StoreFault(c),
         At(c, "reload") /\ held'[c] # held[c] => c \in disturbed',
         disturbed \subseteq disturbed', UNCHANGED <<driverVars, stage, job>>
  PROVE  FilesAgree(c)'
<1>1. StoreTypeOK
  BY DEF Inductive, StoreInductive
<1>2. storing[c] \notin {"idle", "done", "failed"}
  BY <1>1, StoreMovesOne
<1>3. stage[c] \in InStore /\ drive[c] = IdleDrive /\ ~Reads(c)
  BY <1>2, PartsFollowStage DEF InStore, Reads
<1>4. UNCHANGED <<host, seen, drive>>
  BY DEF driverVars
<1>5. seen'[c] = Unseen /\ drive'[c] = IdleDrive
  BY <1>3, <1>4, UnseenUnlessReading
<1>6. CASE storing'[c] \notin RetiringAt \ {"syncroot"}
  BY <1>5, <1>6, NothingSeen, InNoPartAgreesNext
<1>7. CASE storing'[c] \in RetiringAt \ {"syncroot"}
  <2>1. storing[c] \in RetiringAt \ {"syncroot"} /\ (At(c, "reload") \/ held'[c] = held[c])
    BY <1>1, <1>7, RetiringGoesOn DEF At, RetiringAt
  <2>2. DOMAIN drive[c].steps = {} /\ drive[c].step = "idle"
    BY <1>3 DEF IdleDrive
  <2>3. SeenIsTrue(c)'
    BY <1>5, NothingSeen
  <2>4. StepsSound(c)' /\ RestoresSnapshot(c)'
    BY <1>4, <2>2 DEF StepsSound, RestoresSnapshot
  <2>5. ASSUME c \notin disturbed'
        PROVE  DriverIsAt(c)' /\ OthersRestored(c)' /\ RestoreIsAt(c)'
    <3>1. held'[c] = held[c] /\ OthersRestored(c)
      BY <2>1, <2>5 DEF FilesAgree
    <3>2. OthersRestored(c)'
      BY <1>4, <2>1, <2>2, <3>1 DEF OthersRestored, Holds, File
    <3> QED
      BY <1>4, <2>2, <3>2 DEF DriverIsAt, RestoreIsAt
  <2> QED
    BY <2>3, <2>4, <2>5 DEF FilesAgree
<1> QED
  BY <1>6, <1>7

\* In the audit it leaves everything else alone.
LEMMA TellAgrees ==
  ASSUME Inductive, NEW c \in Commands, FilesAgree(c),
         UNCHANGED <<storeVars, driverVars, lifeVars, disturbed>>, faults' = 0 => faults = 0
  PROVE  FilesAgree(c)'
<1>1. LeftAlone(c)
  BY DEF LeftAlone, storeVars, driverVars, lifeVars
<1> QED
  BY <1>1, LeftAloneAgrees

LEMMA KilledAgrees ==
  ASSUME Inductive, NEW c \in Commands, Killed(c)
  PROVE  FilesAgree(c)'
<1>1. drive'[c] = IdleDrive /\ storing'[c] = "idle" /\ seen'[c] = Unseen
  BY ForgetForgets DEF Inductive, DriverTypeOK, StoreInductive, StoreTypeOK, Killed, StoreDies
<1> QED
  BY <1>1, NothingSeen, InNoPartAgreesNext DEF RetiringAt

-------------------------------------------------------------------------------
(* The changes that are begun *)

\* Short sequences put together.
LEMMA PairIs ==
  ASSUME NEW a, NEW b
  PROVE  <<a>> \o <<b>> = <<a, b>>
<1> DEFINE S == {a, b}
           x == <<a>>
           y == <<b>>
           z == <<a, b>>
<1>1. x \in Seq(S) /\ y \in Seq(S) /\ z \in Seq(S) /\ Len(x) = 1 /\ Len(y) = 1 /\ Len(z) = 2
      /\ x[1] = a /\ y[1] = b /\ z[1] = a /\ z[2] = b
  OBVIOUS
<1> HIDE DEF S, x, y, z
<1>2. x \o y \in Seq(S) /\ Len(x \o y) = 2 /\ (x \o y)[1] = x[1] /\ (x \o y)[2] = y[1]
  <2> DEFINE xy == x \o y
  <2>1. /\ xy \in Seq(S) /\ Len(xy) = Len(x) + Len(y)
        /\ \A i \in 1 .. Len(x) + Len(y) : xy[i] = IF i <= Len(x) THEN x[i] ELSE y[i - Len(x)]
    BY <1>1, ConcatProperties, Zenon
  <2> HIDE DEF xy
  <2>2. xy \in Seq(S) /\ Len(xy) = 2 /\ xy[1] = x[1] /\ xy[2] = y[1]
    BY <1>1, <2>1
  <2> QED
    BY <2>2 DEF xy
<1>3. x \o y = z
  BY <1>1, <1>2, SeqEqual
<1> QED
  BY <1>3 DEF x, y, z

LEMMA TripleIs ==
  ASSUME NEW a, NEW b, NEW c
  PROVE  <<a, b>> \o <<c>> = <<a, b, c>>
<1> DEFINE S == {a, b, c}
           x == <<a, b>>
           y == <<c>>
           z == <<a, b, c>>
<1>1. x \in Seq(S) /\ y \in Seq(S) /\ z \in Seq(S) /\ Len(x) = 2 /\ Len(y) = 1 /\ Len(z) = 3
      /\ x[1] = a /\ x[2] = b /\ y[1] = c /\ z[1] = a /\ z[2] = b /\ z[3] = c
  OBVIOUS
<1> HIDE DEF S, x, y, z
<1>2. x \o y \in Seq(S) /\ Len(x \o y) = Len(x) + Len(y)
      /\ \A i \in 1..(Len(x) + Len(y)) : (x \o y)[i] = IF i <= Len(x) THEN x[i] ELSE y[i - Len(x)]
  BY <1>1, ConcatProperties
<1>3. (x \o y)[1] = x[1] /\ (x \o y)[2] = x[2]
  BY <1>1, <1>2
<1>4. (x \o y)[3] = y[3 - 2]
  BY <1>1, <1>2
<1>5. 3 - 2 = 1
  OBVIOUS
<1>6. x \o y = z
  BY <1>1, <1>2, <1>3, <1>4, <1>5, SeqEqual
<1> QED
  BY <1>6 DEF x, y, z

LEMMA EmptyIs ==
  ASSUME NEW S, NEW s \in Seq(S)
  PROVE  s \o <<>> = s /\ <<>> \o s = s
BY ConcatEmptySeq

\* Three parts of at most one element each.
Joined(s, x, y, z, a, b, g) ==
  s = IF x = <<>> THEN IF y = <<>> THEN z ELSE IF z = <<>> THEN <<b>> ELSE <<b, g>>
      ELSE IF y = <<>> THEN IF z = <<>> THEN <<a>> ELSE <<a, g>>
      ELSE IF z = <<>> THEN <<a, b>> ELSE <<a, b, g>>

LEMMA PartsAre ==
  ASSUME NEW a, NEW b, NEW g,
         NEW x \in {<<>>, <<a>>}, NEW y \in {<<>>, <<b>>}, NEW z \in {<<>>, <<g>>},
         NEW s, s = x \o y \o z
  PROVE  Joined(s, x, y, z, a, b, g)
<1> DEFINE S == {a, b, g}
<1>1. /\ <<>> \in Seq(S) /\ <<a>> \in Seq(S) /\ <<b>> \in Seq(S) /\ <<g>> \in Seq(S)
      /\ <<a, b>> \in Seq(S)
      /\ <<a>> # <<>> /\ <<b>> # <<>> /\ <<g>> # <<>>
  OBVIOUS
<1> HIDE DEF S
<1>2. <<a>> \o <<b>> = <<a, b>> /\ <<a>> \o <<g>> = <<a, g>> /\ <<b>> \o <<g>> = <<b, g>>
      /\ <<a, b>> \o <<g>> = <<a, b, g>>
  BY PairIs, TripleIs
<1>3. \A t \in Seq(S) : t \o <<>> = t /\ <<>> \o t = t
  BY EmptyIs
<1>4. CASE x = <<>>
  BY <1>1, <1>2, <1>3, <1>4 DEF Joined
<1>5. CASE x = <<a>>
  <2>1. CASE y = <<>>
    BY <1>1, <1>2, <1>3, <1>5, <2>1 DEF Joined
  <2>2. CASE y = <<b>>
    BY <1>1, <1>2, <1>3, <1>5, <2>2 DEF Joined
  <2> QED
    BY <2>1, <2>2
<1> QED
  BY <1>4, <1>5

\* Tuples, entry by entry.
LEMMA TupleEntries ==
  ASSUME NEW a, NEW b, NEW g
  PROVE  /\ DOMAIN <<a, b>> = {1, 2} /\ <<a, b>>[1] = a /\ <<a, b>>[2] = b
         /\ DOMAIN <<a, b, g>> = {1, 2, 3}
         /\ <<a, b, g>>[1] = a /\ <<a, b, g>>[2] = b /\ <<a, b, g>>[3] = g
<1>1. DOMAIN <<a, b>> = 1..2 /\ DOMAIN <<a, b, g>> = 1..3
  OBVIOUS
<1>2. 1..2 = {1, 2} /\ 1..3 = {1, 2, 3}
  OBVIOUS
<1> QED
  BY <1>1, <1>2

\* No file twice; what is expected, written and put back; and which files are left out.
SoundRestore(steps, s, live) ==
  /\ \A i, j \in DOMAIN steps : steps[i].file = steps[j].file => i = j
  /\ \A i \in DOMAIN steps :
       /\ steps[i].file \in Files /\ steps[i].expect = None
       /\ steps[i].target = s.host[steps[i].file] /\ steps[i].back = live[steps[i].file]
       /\ steps[i].file = "max" => i = 1
       /\ steps[i].file = "min" => i = 1 \/ steps[1].file = "max"
  /\ \A f \in Files : (\A i \in DOMAIN steps : steps[i].file # f) =>
       Matches(f, live[f], s.host[f])

\* A restore writes what does not match, the ceiling before the floor.
LEMMA RestoreStepsSound ==
  ASSUME NEW s, NEW live
  PROVE  SoundRestore(RestoreSteps(s, live), s, live)
<1> DEFINE a == Step("max", None, s.host["max"], live["max"])
           b == Step("min", None, s.host["min"], live["min"])
           g == Step("governor", None, s.host["governor"], live["governor"])
           x == IfUnmatched("max", s, live)
           y == IfUnmatched("min", s, live)
           z == IfUnmatched("governor", s, live)
           Of(e, f) == /\ e.file = f /\ e.expect = None
                       /\ e.target = s.host[f] /\ e.back = live[f]
           M(f) == Matches(f, live[f], s.host[f])
           steps == RestoreSteps(s, live)
<1>1. /\ x = (IF M("max") THEN <<>> ELSE <<a>>) /\ y = (IF M("min") THEN <<>> ELSE <<b>>)
      /\ z = (IF M("governor") THEN <<>> ELSE <<g>>)
      /\ steps = x \o y \o z
  BY DEF IfUnmatched, RestoreSteps
<1>2. Of(a, "max") /\ Of(b, "min") /\ Of(g, "governor")
  BY DEF Step
<1> SUFFICES SoundRestore(steps, s, live)
  OBVIOUS
<1> HIDE DEF a, b, g, x, y, z, M, steps
<1>3. <<a>> # <<>> /\ <<b>> # <<>> /\ <<g>> # <<>>
  OBVIOUS
<1>4. Joined(steps, x, y, z, a, b, g)
  <2>1. x \in {<<>>, <<a>>} /\ y \in {<<>>, <<b>>} /\ z \in {<<>>, <<g>>}
    BY <1>1
  <2> QED
    BY <1>1, <2>1, PartsAre, Zenon
<1>5. \A f \in Files : f = "max" \/ f = "min" \/ f = "governor"
  BY DEF Files
<1> DEFINE Restores(e, f) == Of(e, f) /\ f \in Files
<1>6. Restores(a, "max") /\ Restores(b, "min") /\ Restores(g, "governor")
  BY <1>2 DEF Files
<1>7. CASE M("max") /\ M("min") /\ M("governor")
  <2>1. steps = <<>> /\ DOMAIN steps = {}
    BY <1>1, <1>4, <1>7 DEF Joined
  <2> QED
    BY <1>5, <1>7, <2>1 DEF SoundRestore, M
<1>8. CASE M("max") /\ M("min") /\ ~M("governor")
  <2>1. steps = <<g>> /\ DOMAIN steps = {1} /\ steps[1] = g
    BY <1>1, <1>3, <1>4, <1>8 DEF Joined
  <2> QED
    BY <1>5, <1>6, <1>8, <2>1 DEF SoundRestore, M
<1>9. CASE M("max") /\ ~M("min") /\ M("governor")
  <2>1. steps = <<b>> /\ DOMAIN steps = {1} /\ steps[1] = b
    BY <1>1, <1>3, <1>4, <1>9 DEF Joined
  <2> QED
    BY <1>5, <1>6, <1>9, <2>1 DEF SoundRestore, M
<1>10. CASE M("max") /\ ~M("min") /\ ~M("governor")
  <2>1. steps = <<b, g>> /\ DOMAIN steps = {1, 2} /\ steps[1] = b /\ steps[2] = g
    <3>1. steps = <<b, g>>
      BY <1>1, <1>3, <1>4, <1>10 DEF Joined
    <3> QED
      BY <3>1, TupleEntries
  <2> QED
    BY <1>5, <1>6, <1>10, <2>1 DEF SoundRestore, M
<1>11. CASE ~M("max") /\ M("min") /\ M("governor")
  <2>1. steps = <<a>> /\ DOMAIN steps = {1} /\ steps[1] = a
    BY <1>1, <1>3, <1>4, <1>11 DEF Joined
  <2> QED
    BY <1>5, <1>6, <1>11, <2>1 DEF SoundRestore, M
<1>12. CASE ~M("max") /\ M("min") /\ ~M("governor")
  <2>1. steps = <<a, g>> /\ DOMAIN steps = {1, 2} /\ steps[1] = a /\ steps[2] = g
    <3>1. steps = <<a, g>>
      BY <1>1, <1>3, <1>4, <1>12 DEF Joined
    <3> QED
      BY <3>1, TupleEntries
  <2> QED
    BY <1>5, <1>6, <1>12, <2>1 DEF SoundRestore, M
<1>13. CASE ~M("max") /\ ~M("min") /\ M("governor")
  <2>1. steps = <<a, b>> /\ DOMAIN steps = {1, 2} /\ steps[1] = a /\ steps[2] = b
    <3>1. steps = <<a, b>>
      BY <1>1, <1>3, <1>4, <1>13 DEF Joined
    <3> QED
      BY <3>1, TupleEntries
  <2> QED
    BY <1>5, <1>6, <1>13, <2>1 DEF SoundRestore, M
<1>14. CASE ~M("max") /\ ~M("min") /\ ~M("governor")
  <2>1. /\ steps = <<a, b, g>> /\ DOMAIN steps = {1, 2, 3}
        /\ steps[1] = a /\ steps[2] = b /\ steps[3] = g
    <3>1. steps = <<a, b, g>>
      BY <1>1, <1>3, <1>4, <1>14 DEF Joined
    <3> QED
      BY <3>1, TupleEntries
  <2> QED
    BY <1>5, <1>6, <1>14, <2>1 DEF SoundRestore, M
<1> QED
  BY <1>7, <1>8, <1>9, <1>10, <1>11, <1>12, <1>13, <1>14

\* No file twice; what is expected is what was found, and counts as what is put back; and
\* REST's governor and a lower ceiling are what is written.
SoundApply(steps, s, found) ==
  /\ \A i, j \in DOMAIN steps : steps[i].file = steps[j].file => i = j
  /\ \A i \in DOMAIN steps :
       /\ steps[i].file \in Files
       /\ steps[i].expect = found[steps[i].file] /\ steps[i].expect # None
       /\ Matches(steps[i].file, steps[i].expect, steps[i].back)
       /\ steps[i].back = s.host[steps[i].file]
       /\ \/ steps[i].file = "governor" /\ steps[i].target = RestGovernor
          \/ /\ steps[i].file = "max" /\ steps[i].target = RestTarget(HwMin, HwMax)
             /\ found["max"] > RestTarget(HwMin, HwMax)

\* An apply changes at most the governor and the ceiling, from what was found and matches.
LEMMA ApplyStepsSound ==
  ASSUME NEW s, NEW found,
         plan(CapabilitiesOf(found)).status = "Ready",
         AcceptsPlan(plan(CapabilitiesOf(found)).changes, s)
  PROVE  SoundApply(ApplySteps(plan(CapabilitiesOf(found)).changes, s), s, found)
<1> DEFINE caps == CapabilitiesOf(found)
           x == plan_governor(caps).changes
           y == plan_frequency(caps).changes
           changes == plan(caps).changes
           steps == ApplySteps(changes, s)
           a == Change("governor", found["governor"], RestGovernor)
           target == RestTarget(HwMin, HwMax)
           b == Change("max", found["max"], target)
           Finds(e, f) == e.file = f /\ e.current = found[f]
<1>1. x = <<>> \/ (x = <<a>> /\ found["governor"] # None)
  BY DEF plan_governor, CapabilitiesOf
<1>2. y = <<>> \/ (y = <<b>> /\ found["max"] # None /\ found["max"] > target)
  BY DEF plan_frequency, PlanCeiling, CapabilitiesOf
<1>3. changes = x \o y
  BY DEF plan
<1>4. /\ Finds(a, "governor") /\ Finds(b, "max") /\ {"governor", "max"} \subseteq Files
      /\ a.target = RestGovernor /\ b.target = target
  BY DEF Change, Files
<1>5. /\ DOMAIN steps = DOMAIN changes
      /\ \A i \in DOMAIN changes :
           /\ steps[i].file = changes[i].file /\ steps[i].expect = changes[i].current
           /\ steps[i].target = changes[i].target
           /\ steps[i].back = s.host[steps[i].file]
           /\ Matches(steps[i].file, steps[i].expect, steps[i].back)
  BY DEF ApplySteps, Step, AcceptsPlan, verify_original_matches_plan
<1> SUFFICES SoundApply(steps, s, found)
  OBVIOUS
<1> HIDE DEF x, y, changes, steps, a, b
<1>6. CASE x = <<>>
  <2>1. changes = <<>> \/ (changes = <<b>> /\ found["max"] # None /\ found["max"] > target)
    BY <1>2, <1>3, <1>6
  <2> QED
    BY <1>4, <1>5, <2>1 DEF SoundApply
<1>7. CASE x = <<a>> /\ y = <<>>
  <2>1. changes = <<a>>
    BY <1>3, <1>7
  <2> QED
    BY <1>1, <1>4, <1>5, <1>7, <2>1 DEF SoundApply
<1>8. CASE x = <<a>> /\ y = <<b>>
  <2>1. changes = <<a, b>>
    BY <1>3, <1>8, PairIs, Zenon
  <2>2. DOMAIN changes = {1, 2} /\ changes[1] = a /\ changes[2] = b
    BY <2>1, TupleEntries
  <2>3. found["governor"] # None /\ found["max"] # None /\ found["max"] > target
    BY <1>1, <1>2, <1>8
  <2> QED
    BY <1>4, <1>5, <2>2, <2>3 DEF SoundApply
<1> QED
  BY <1>1, <1>2, <1>6, <1>7, <1>8

-------------------------------------------------------------------------------
(* The answers *)

\* What a command begins with.
LEMMA BeginBegins ==
  ASSUME Inductive, NEW c \in Commands, NEW step, NEW steps, Begin(c, step, steps)
  PROVE  drive'[c] = [step |-> step, steps |-> steps, at |-> 1, broken |-> FALSE]
BY DEF Inductive, DriverTypeOK, Begin, IdleDrive

\* An apply begins with changes of what it has just read.
LEMMA PlannedAgrees ==
  ASSUME Inductive, NEW c \in Commands, FilesAgree(c), Planned(c)
  PROVE  FilesAgree(c)'
<1> DEFINE p == plan(CapabilitiesOf(seen[c]))
           steps == ApplySteps(p.changes, held[c])
<1>1. /\ stage[c] = "probing" /\ job[c] = "apply" /\ drive[c] = IdleDrive /\ storing[c] = "idle"
      /\ UNCHANGED <<storing, host, disturbed, job>> /\ seen'[c] = Unseen
  BY PartsFollowStage, ForgetForgets DEF Planned, storeVars, noise, InStore, Finish, GoOnTo
<1>2. CASE UNCHANGED drive
  BY <1>1, <1>2, NothingSeen, InNoPartAgreesNext DEF RetiringAt
<1>3. CASE p.status = "Ready" /\ AcceptsPlan(p.changes, held[c]) /\ Begin(c, "check", steps)
  <2>1. SoundApply(steps, held[c], seen[c])
    BY <1>3, ApplyStepsSound
  <2>2. drive'[c] = [step |-> "check", steps |-> steps, at |-> 1, broken |-> FALSE]
    BY <1>3, BeginBegins
  <2>3. drive'[c].step = "check" /\ drive'[c].steps = steps
    BY <2>2
  <2> HIDE DEF steps, p
  <2>4. StepsSound(c)'
    BY <2>1, <2>3 DEF SoundApply, StepsSound, Before
  <2>5. ASSUME c \notin disturbed' PROVE DriverIsAt(c)'
    <3>1. \A f \in Files : seen[c][f] \in {None, host[f]}
      BY <1>1, <2>5 DEF FilesAgree, SeenIsTrue
    <3>2. \A i \in DOMAIN steps : steps[i].expect # None /\ host[steps[i].file] = steps[i].expect
      BY <2>1, <3>1 DEF SoundApply
    <3>3. \A i \in DOMAIN drive'[c].steps : Untouched(c, i)'
      BY <1>1, <2>3, <3>2 DEF Untouched, File, Before
    <3> QED
      BY <2>3, <3>3 DEF DriverIsAt
  <2>6. RestoresSnapshot(c)' /\ OthersRestored(c)' /\ RestoreIsAt(c)'
    BY <1>1 DEF RestoresSnapshot, OthersRestored, RestoreIsAt, RetiringAt
  <2> QED
    BY <1>1, <2>4, <2>5, <2>6, NothingSeen DEF FilesAgree
<1> QED
  BY <1>2, <1>3 DEF Planned

\* A restore begins with what differs from the snapshot, or retires at once when nothing does.
LEMMA LiveReadAgrees ==
  ASSUME Inductive, NEW c \in Commands, FilesAgree(c), LiveRead(c)
  PROVE  FilesAgree(c)'
<1> DEFINE steps == RestoreSteps(held[c], seen[c])
<1>1. /\ stage[c] = "reading" /\ job[c] = "restore" /\ drive[c] = IdleDrive /\ storing[c] = "idle"
      /\ storing \in [Commands -> StoreSteps]
      /\ UNCHANGED <<host, disturbed, job, held>> /\ seen'[c] = Unseen
  BY PartsFollowStage, StageFacts, ForgetForgets
  DEF LiveRead, storeVars, noise, InStore, JobMatches, Finish, GoOnTo, BeginRetire
<1>2. held[c] \in Snapshots
  BY <1>1, PlansFromSnapshot
<1>3. CASE UNCHANGED <<storing, drive>>
  BY <1>1, <1>3, NothingSeen, InNoPartAgreesNext DEF RetiringAt
<1>4. SoundRestore(steps, held[c], seen[c])
  BY RestoreStepsSound
<1>5. ASSUME None \notin {seen[c][f] : f \in Files}, c \notin disturbed
      PROVE  \A f \in Files : seen[c][f] = host[f]
  BY <1>5 DEF FilesAgree, SeenIsTrue
<1> HIDE DEF steps
<1>6. CASE None \notin {seen[c][f] : f \in Files} /\ steps = <<>> /\ BeginRetire(c) /\ UNCHANGED drive
  <2>1. storing'[c] = "reload" /\ drive'[c].step = "idle" /\ DOMAIN drive'[c].steps = {}
    BY <1>1, <1>6 DEF BeginRetire, GoTo, IdleDrive
  <2>2. StepsSound(c)' /\ RestoresSnapshot(c)'
    BY <2>1 DEF StepsSound, RestoresSnapshot
  <2>3. ASSUME c \notin disturbed'
        PROVE  DriverIsAt(c)' /\ OthersRestored(c)' /\ RestoreIsAt(c)'
    <3>1. \A f \in Files : Matches(f, seen[c][f], held[c].host[f])
      BY <1>4, <1>6 DEF SoundRestore
    <3>2. \A f \in Files : Holds(f, held[c].host[f])'
      BY <1>1, <1>5, <1>6, <2>3, <3>1 DEF Holds
    <3> QED
      BY <1>1, <1>2, <2>1, <3>2 DEF DriverIsAt, OthersRestored, RestoreIsAt
  <2> QED
    BY <1>1, <2>2, <2>3, NothingSeen DEF FilesAgree
<1>7. CASE /\ None \notin {seen[c][f] : f \in Files} /\ Begin(c, "write", steps)
           /\ UNCHANGED storeVars
  <2>1. drive'[c] = [step |-> "write", steps |-> steps, at |-> 1, broken |-> FALSE]
        /\ storing' = storing
    BY <1>7, BeginBegins DEF storeVars
  <2>2. drive'[c].step = "write" /\ drive'[c].steps = steps /\ drive'[c].at = 1
    BY <2>1
  <2>3. \A f \in Files : Fits(f, seen[c][f])
    BY <1>7 DEF Inductive, DriverTypeOK
  <2>4. \A i \in DOMAIN steps : Matches(steps[i].file, steps[i].back, steps[i].back)
    BY <1>4, <2>3, EqualMatches DEF SoundRestore
  <2>5. StepsSound(c)' /\ RestoresSnapshot(c)'
    BY <1>1, <1>4, <2>2, <2>4 DEF SoundRestore, StepsSound, RestoresSnapshot, Before
  <2>6. ASSUME c \notin disturbed'
        PROVE  DriverIsAt(c)' /\ OthersRestored(c)' /\ RestoreIsAt(c)'
    <3>1. \A f \in Files : seen[c][f] = host[f]
      BY <1>1, <1>5, <1>7, <2>6
    <3>2. \A i \in DOMAIN drive'[c].steps : Untouched(c, i)'
      BY <1>1, <1>4, <2>2, <3>1 DEF SoundRestore, Untouched, File, Before
    <3>3. DOMAIN steps \subseteq Nat \ {0}
      <4>1. steps \in Seq(Changes)
        BY <1>2, <2>3, RestoreStepsTyped DEF steps, Inductive, DriverTypeOK
      <4> QED
        BY <4>1
    <3>4. DriverIsAt(c)'
      BY <2>2, <3>2, <3>3 DEF DriverIsAt
    <3>5. OthersRestored(c)'
      BY <1>1, <1>2, <1>4, <2>2, <3>1 DEF SoundRestore, OthersRestored, Holds, File
    <3>6. RestoreIsAt(c)'
      BY <2>2, <3>3 DEF RestoreIsAt
    <3> QED
      BY <3>4, <3>5, <3>6
  <2> QED
    BY <1>1, <2>5, <2>6, NothingSeen DEF FilesAgree
<1> QED
  BY <1>3, <1>6, <1>7 DEF LiveRead, storeVars, steps

\* A restore whose driver is done has restored everything; otherwise nothing is at hand.
LEMMA DrivenAgrees ==
  ASSUME Inductive, NEW c \in Commands, FilesAgree(c), Driven(c)
  PROVE  FilesAgree(c)'
<1>1. /\ stage[c] = "driving" /\ storing[c] = "idle" /\ drive[c].step \in OverDrive
      /\ storing \in [Commands -> StoreSteps]
      /\ UNCHANGED <<host, disturbed, job, held, seen>>
  BY PartsFollowStage, StageFacts
  DEF Driven, noise, InStore, Finish, GoOnTo, BeginRetire, storeVars
<1>2. seen'[c] = Unseen
  BY <1>1, UnseenUnlessReading DEF Reads
<1>3. drive'[c] = IdleDrive
  BY DEF Driven, Inductive, DriverTypeOK
<1>4. CASE job[c] = "restore" /\ drive[c].step = "done" /\ BeginRetire(c)
  <2>1. storing'[c] = "reload"
    BY <1>1, <1>4 DEF BeginRetire, GoTo
  <2>2. drive'[c].step = "idle" /\ DOMAIN drive'[c].steps = {}
    BY <1>3 DEF IdleDrive
  <2>3. StepsSound(c)' /\ RestoresSnapshot(c)'
    BY <2>2 DEF StepsSound, RestoresSnapshot
  <2>4. ASSUME c \notin disturbed'
        PROVE  DriverIsAt(c)' /\ OthersRestored(c)' /\ RestoreIsAt(c)'
    <3>1. \A i \in DOMAIN drive[c].steps : Holds(File(c, i), held[c].host[File(c, i)])
      BY <1>1, <1>4, <2>4 DEF FilesAgree, DriverIsAt, RestoresSnapshot, Written, File
    <3>2. /\ held[c] \in Snapshots
          /\ \A f \in Files : (\A i \in DOMAIN drive[c].steps : File(c, i) # f) =>
               Holds(f, held[c].host[f])
      BY <1>1, <1>4, <2>4 DEF FilesAgree, OthersRestored, Driving
    <3>3. \A f \in Files : Holds(f, held[c].host[f])
      BY <3>1, <3>2
    <3> QED
      BY <1>1, <2>2, <3>2, <3>3 DEF DriverIsAt, OthersRestored, RestoreIsAt, Holds
  <2> QED
    BY <1>2, <2>3, <2>4, NothingSeen DEF FilesAgree
<1>5. CASE UNCHANGED storeVars
  BY <1>1, <1>2, <1>3, <1>5, NothingSeen, InNoPartAgreesNext DEF storeVars, RetiringAt
<1> QED
  BY <1>4, <1>5 DEF Driven

\* After every other answer nothing is at hand.
LEMMA AnswerAgrees ==
  ASSUME Inductive, NEW c \in Commands, FilesAgree(c), Answer(c)
  PROVE  FilesAgree(c)'
<1>1. storing \in [Commands -> StoreSteps]
  BY StageFacts
<1>2. CASE Probed(c)
  <2>1. stage[c] = "probing" /\ drive[c] = IdleDrive /\ storing[c] = "idle"
    BY <1>2, PartsFollowStage DEF Probed, InStore
  <2>2. drive'[c] = IdleDrive /\ seen'[c] = Unseen
    BY <1>2, <2>1, ForgetForgets DEF Probed
  <2>3. storing'[c] \in {"idle", "mkdir"}
    BY <1>1, <1>2, <2>1 DEF Probed, BeginSave, GoTo, storeVars
  <2> QED
    BY <2>2, <2>3, NothingSeen, InNoPartAgreesNext DEF RetiringAt
<1>3. CASE \/ IntentRecorded(c) \/ Loaded(c) \/ Saved(c) \/ Retired(c) \/ RetirementTold(c)
           \/ Finished(c)
  <2>1. stage[c] \notin {"probing", "reading", "driving"} /\ UNCHANGED driverVars
    BY <1>3 DEF IntentRecorded, Loaded, Saved, Retired, RetirementTold, Finished
  <2>2. drive'[c] = IdleDrive /\ seen'[c] = Unseen
    BY <2>1, PartsFollowStage, UnseenUnlessReading DEF driverVars, Reads
  <2>3. storing'[c] \notin RetiringAt
    <3>1. CASE UNCHANGED storeVars
      <4>1. stage[c] \notin InStore
        BY <1>3, <3>1, <1>1
        DEF IntentRecorded, Loaded, Saved, Retired, RetirementTold, Finished, InStore, Return,
            GoTo, storeVars
      <4> QED
        BY <3>1, <4>1, PartsFollowStage DEF storeVars, RetiringAt
    <3>2. CASE BeginLoad(c) \/ Return(c)
      BY <1>1, <3>2 DEF BeginLoad, Return, GoTo, RetiringAt
    <3> QED
      BY <1>3, <3>1, <3>2
      DEF IntentRecorded, Loaded, Saved, Retired, RetirementTold, Finished
  <2> QED
    BY <2>2, <2>3, NothingSeen, InNoPartAgreesNext
<1> QED
  BY <1>2, <1>3, PlannedAgrees, LiveReadAgrees, DrivenAgrees DEF Answer

-------------------------------------------------------------------------------
(* A command's own steps in the driver *)

\* Where a step of the driver goes.
LEMMA ToGoes ==
  ASSUME DriverTypeOK, NEW c \in Commands, NEW step, NEW at, To(c, step, at)
  PROVE  /\ drive'[c].step = step /\ drive'[c].at = at
         /\ drive'[c].broken = drive[c].broken /\ drive'[c].steps = drive[c].steps
BY DEF DriverTypeOK, To

LEMMA BackwardGoes ==
  ASSUME DriverTypeOK, NEW c \in Commands, NEW broken \in BOOLEAN, Backward(c, broken)
  PROVE  /\ drive'[c].broken = broken /\ drive'[c].steps = drive[c].steps
         /\ IF drive[c].at > 1
              THEN drive'[c].step = "undo" /\ drive'[c].at = drive[c].at - 1
              ELSE drive'[c].step = (IF broken THEN "torn" ELSE "rolledback") /\ drive'[c].at = 1
<1> DEFINE step == IF drive[c].at > 1 THEN "undo" ELSE IF broken THEN "torn" ELSE "rolledback"
           at == IF drive[c].at > 1 THEN drive[c].at - 1 ELSE 1
<1>1. drive' = [drive EXCEPT ![c].broken = broken, ![c].step = step, ![c].at = at]
  BY DEF Backward, DriverTypeOK
<1> HIDE DEF step, at
<1>2. /\ drive'[c].broken = broken /\ drive'[c].steps = drive[c].steps
      /\ drive'[c].step = step /\ drive'[c].at = at
  BY <1>1 DEF DriverTypeOK
<1> QED
  BY <1>2 DEF step, at

\* The changes are numbered, and the driver is at one of them.
LEMMA DriverAt ==
  ASSUME DriverTypeOK, NEW c \in Commands, DriveStep(c) \/ DriveFault(c)
  PROVE  /\ drive[c].at \in 1..Len(drive[c].steps) /\ drive[c].at \in Nat
         /\ DOMAIN drive[c].steps = 1..Len(drive[c].steps) /\ Len(drive[c].steps) \in Nat
         /\ drive[c].broken \in BOOLEAN
         /\ \A i \in DOMAIN drive[c].steps : File(c, i) \in Files
         /\ drive'[c].steps = drive[c].steps /\ drive'[c].step # "idle"
         /\ DOMAIN host = Files
<1>1. MovesOn(c) /\ ~Driving(c, "idle")
  BY DriveMovesOn
<1>2. drive[c].steps \in Seq(Changes) /\ drive[c].at \in 1..Len(drive[c].steps)
      /\ drive[c].broken \in BOOLEAN
  BY <1>1 DEF DriverTypeOK
<1>3. \A i \in DOMAIN drive[c].steps : drive[c].steps[i] \in Changes
  BY <1>2
<1> QED
  BY <1>1, <1>2, <1>3, HostIsFunction DEF MovesOn, DriverTypeOK, File, Changes

\* Only the file at hand is written, and either with the target or with what is put back.
LEMMA OneFileChanges ==
  ASSUME DriverTypeOK, NEW c \in Commands, DriveStep(c) \/ DriveFault(c)
  PROVE  \/ host' = host
         \/ /\ Driving(c, "write") /\ To(c, "verify", drive[c].at)
            /\ host' = [host EXCEPT ![This(c).file] = This(c).target]
         \/ /\ Driving(c, "undo") /\ To(c, "recheck", drive[c].at)
            /\ host' = [host EXCEPT ![This(c).file] = This(c).back]
BY DEF DriveStep, DriveFault, Check, Expect, Write, Verify, Undo, Recheck, AccessFails,
       WriteIgnored

\* So the other files stay.
LEMMA OtherFilesStay ==
  ASSUME DriverTypeOK, NEW c \in Commands, DriveStep(c) \/ DriveFault(c), StepsSound(c)
  PROVE  /\ \A f \in Files : f # File(c, drive[c].at) => host'[f] = host[f]
         /\ \A i \in DOMAIN drive[c].steps : i # drive[c].at =>
              host'[File(c, i)] = host[File(c, i)]
<1>1. \A f \in Files : f # File(c, drive[c].at) => host'[f] = host[f]
  BY OneFileChanges, DriverAt DEF File, This
<1>2. \A i \in DOMAIN drive[c].steps : i # drive[c].at => File(c, i) # File(c, drive[c].at)
  BY DriverAt DEF StepsSound, File
<1> QED
  BY <1>1, <1>2, DriverAt

\* What a step says of the changes it is not at.
LEMMA OtherChangesStay ==
  ASSUME DriverTypeOK, NEW c \in Commands, DriveStep(c) \/ DriveFault(c), StepsSound(c)
  PROVE  \A i \in DOMAIN drive[c].steps :
           i # drive[c].at \/ host' = host =>
             /\ Untouched(c, i)' <=> Untouched(c, i)
             /\ Written(c, i)' <=> Written(c, i)
             /\ Undone(c, i)' <=> Undone(c, i)
BY OtherFilesStay, DriverAt DEF Untouched, Written, Undone, File, Holds

\* A rollback begins: what comes after has not been touched, and counts as put back.
LEMMA RollBackStaysTrue ==
  ASSUME DriverTypeOK, NEW c \in Commands, DriveStep(c) \/ DriveFault(c),
         StepsSound(c), DriverIsAt(c),
         drive[c].step \in {"expect", "write", "verify"}, RollBack(c), host' = host
  PROVE  DriverIsAt(c)'
<1>1. drive'[c].step = "undo" /\ drive'[c].at = drive[c].at
  BY ToGoes DEF RollBack
<1>2. ASSUME NEW i \in DOMAIN drive[c].steps, i > drive[c].at PROVE Undone(c, i)'
  <2>1. Untouched(c, i)
    BY <1>2, DriverAt DEF DriverIsAt
  <2>2. Undone(c, i)
    BY <2>1 DEF StepsSound, Untouched, Undone, Holds, File
  <2> QED
    BY <2>2, OtherChangesStay
<1> QED
  BY <1>1, <1>2, DriverAt DEF DriverIsAt

\* A change is verified, and the driver goes on.
LEMMA OnwardStaysTrue ==
  ASSUME DriverTypeOK, NEW c \in Commands, DriveStep(c), StepsSound(c), DriverIsAt(c),
         Driving(c, "verify"), Written(c, drive[c].at), Onward(c), host' = host
  PROVE  DriverIsAt(c)'
<1>1. /\ \A i \in DOMAIN drive[c].steps : i <= drive[c].at => Written(c, i)
      /\ \A i \in DOMAIN drive[c].steps : i > drive[c].at => Untouched(c, i)
  BY DriverAt DEF DriverIsAt, Driving
<1>2. CASE IsLast(c)
  <2>1. drive'[c].step = "done"
    BY <1>2, ToGoes DEF Onward
  <2>2. \A i \in DOMAIN drive[c].steps : Written(c, i)'
    BY <1>1, <1>2, DriverAt, OtherChangesStay DEF IsLast
  <2> QED
    BY <2>1, <2>2, DriverAt DEF DriverIsAt
<1>3. CASE ~IsLast(c)
  <2>1. drive'[c].step \in {"write", "expect"} /\ drive'[c].at = drive[c].at + 1
    BY <1>3, ToGoes DEF Onward
  <2>2. /\ \A i \in DOMAIN drive[c].steps : i < drive'[c].at => Written(c, i)'
        /\ \A i \in DOMAIN drive[c].steps : i >= drive'[c].at => Untouched(c, i)'
    BY <1>1, <2>1, DriverAt, OtherChangesStay
  <2> QED
    BY <2>1, <2>2, DriverAt DEF DriverIsAt
<1> QED
  BY <1>2, <1>3

\* A change is put back, or it is known that it is not.
LEMMA BackwardStaysTrue ==
  ASSUME DriverTypeOK, NEW c \in Commands, DriveStep(c) \/ DriveFault(c), StepsSound(c),
         DriverIsAt(c), drive[c].step \in {"undo", "recheck"}, NEW broken \in BOOLEAN,
         Backward(c, broken), host' = host,
         ~broken => ~drive[c].broken /\ Undone(c, drive[c].at)
  PROVE  DriverIsAt(c)'
<1>1. drive'[c].broken = broken
      /\ IF drive[c].at > 1
           THEN drive'[c].step = "undo" /\ drive'[c].at = drive[c].at - 1
           ELSE drive'[c].step = (IF broken THEN "torn" ELSE "rolledback") /\ drive'[c].at = 1
  BY BackwardGoes
<1>2. CASE broken
  BY <1>1, <1>2, DriverAt DEF DriverIsAt
<1>3. CASE ~broken
  <2>1. \A i \in DOMAIN drive[c].steps : i >= drive[c].at => Undone(c, i)'
    BY <1>3, DriverAt, OtherChangesStay DEF DriverIsAt
  <2>2. CASE drive[c].at > 1
    <3>1. drive'[c].step = "undo" /\ drive'[c].at = drive[c].at - 1
      BY <1>1, <2>2
    <3>2. \A i \in DOMAIN drive[c].steps : i > drive'[c].at => Undone(c, i)'
      BY <2>1, <3>1, DriverAt
    <3> QED
      BY <3>1, <3>2, DriverAt DEF DriverIsAt
  <2>3. CASE ~(drive[c].at > 1)
    <3>1. drive'[c].step = "rolledback"
      BY <1>1, <1>3, <2>3
    <3>2. \A i \in DOMAIN drive[c].steps : Undone(c, i)'
      BY <2>1, <2>3, DriverAt
    <3> QED
      BY <3>1, <3>2, DriverAt DEF DriverIsAt
  <2> QED
    BY <2>2, <2>3
<1> QED
  BY <1>2, <1>3

\* What is said of the changes stays true through every step of the driver.
LEMMA DriverStaysTrue ==
  ASSUME DriverTypeOK, NEW c \in Commands, DriveStep(c) \/ DriveFault(c), StepsSound(c),
         DriverIsAt(c)
  PROVE  DriverIsAt(c)'
<1> USE DEF Driving
<1> DEFINE steps == drive[c].steps
           at == drive[c].at
<1>1. CASE Check(c)
  <2>1. \A i \in DOMAIN steps : Untouched(c, i)'
    BY <1>1, OtherChangesStay DEF Check, DriverIsAt
  <2>2. drive'[c].step \in {"refused", "check"} \/ (drive'[c].step = "expect" /\ drive'[c].at = 1)
    BY <1>1, ToGoes DEF Check
  <2> QED
    BY <2>1, <2>2, DriverAt DEF DriverIsAt
<1>2. CASE Expect(c) /\ To(c, "write", at)
  <2>1. drive'[c].step = "write" /\ drive'[c].at = at
    BY <1>2, ToGoes
  <2> QED
    BY <1>2, <2>1, DriverAt, OtherChangesStay DEF Expect, DriverIsAt
<1>3. CASE (Expect(c) \/ Write(c) \/ Verify(c) \/ AccessFails(c)) /\ RollBack(c) /\ host' = host
           /\ drive[c].step \in {"expect", "write", "verify"}
  BY <1>3, RollBackStaysTrue
<1>4. CASE drive[c].step = "write" /\ To(c, "verify", at)
  <2>1. drive'[c].step = "verify" /\ drive'[c].at = at
    BY <1>4, ToGoes
  <2> QED
    BY <1>4, <2>1, DriverAt, OtherChangesStay DEF DriverIsAt
<1>5. CASE Verify(c) /\ Onward(c) /\ Holds(This(c).file, This(c).target)
  <2>1. Written(c, at)
    BY <1>5 DEF Written, File, This
  <2> QED
    BY <1>5, <2>1, OnwardStaysTrue DEF Verify, DriveStep
<1>6. CASE drive[c].step = "undo" /\ To(c, "recheck", at)
  <2>1. drive'[c].step = "recheck" /\ drive'[c].at = at /\ drive'[c].broken = drive[c].broken
    BY <1>6, ToGoes
  <2> QED
    BY <1>6, <2>1, DriverAt, OtherChangesStay DEF DriverIsAt
<1>7. CASE drive[c].step \in {"undo", "recheck"} /\ Backward(c, TRUE) /\ host' = host
  BY <1>7, BackwardStaysTrue
<1>8. CASE Recheck(c)
  <2> DEFINE broken == drive[c].broken \/ ~Holds(This(c).file, This(c).back)
  <2>1. broken \in BOOLEAN /\ Backward(c, broken) /\ host' = host
    BY <1>8 DEF Recheck
  <2>2. ~broken => ~drive[c].broken /\ Undone(c, at)
    BY DEF Undone, File, This
  <2> QED
    BY <1>8, <2>1, <2>2, BackwardStaysTrue DEF Recheck
<1>9. CASE AccessFails(c) /\ drive[c].step = "check"
  <2>1. drive'[c].step = "refused"
    BY <1>9, ToGoes DEF AccessFails
  <2> QED
    BY <2>1, DriverAt DEF DriverIsAt
<1> QED
  BY <1>1, <1>2, <1>3, <1>4, <1>5, <1>6, <1>7, <1>8, <1>9
  DEF DriveStep, DriveFault, Expect, Write, Verify, Undo, AccessFails, WriteIgnored

\* A restore never expects anything.
LEMMA RestoreStaysBlind ==
  ASSUME DriverTypeOK, NEW c \in Commands, DriveStep(c) \/ DriveFault(c),
         RestoresSnapshot(c), job'[c] = job[c], held'[c] = held[c]
  PROVE  RestoresSnapshot(c)'
<1> SUFFICES ASSUME job[c] = "restore" PROVE drive'[c].step \notin {"check", "expect"}
  BY DriverAt DEF RestoresSnapshot
<1>1. /\ drive[c].step \notin {"check", "expect"}
      /\ \A i \in DOMAIN drive[c].steps : drive[c].steps[i].expect = None
  BY DEF RestoresSnapshot
<1>2. CASE Onward(c)
  <2>1. ~IsLast(c) => drive[c].at + 1 \in DOMAIN drive[c].steps
    BY DriverAt DEF IsLast
  <2> QED
    BY <1>1, <1>2, <2>1, ToGoes DEF Onward
<1>3. CASE \E broken \in BOOLEAN : Backward(c, broken)
  BY <1>3, BackwardGoes
<1>4. CASE \E step \in {"verify", "undo", "recheck"} : To(c, step, drive[c].at)
  BY <1>4, ToGoes
<1>5. (drive[c].broken \/ ~Holds(This(c).file, This(c).back)) \in BOOLEAN
  OBVIOUS
<1> QED
  BY <1>1, <1>2, <1>3, <1>4, <1>5
  DEF DriveStep, DriveFault, Check, Expect, Write, Verify, Undo, Recheck, AccessFails,
      WriteIgnored, RollBack, Driving

\* What it leaves alone stays restored.
LEMMA OthersStayRestored ==
  ASSUME DriverTypeOK, NEW c \in Commands, DriveStep(c) \/ DriveFault(c),
         StepsSound(c), OthersRestored(c), storing[c] = "idle",
         storing'[c] = storing[c], job'[c] = job[c], held'[c] = held[c]
  PROVE  OthersRestored(c)'
<1>1. ~Driving(c, "idle")
  BY DriveMovesOn
<1> SUFFICES ASSUME job[c] = "restore"
             PROVE  /\ held[c] \in Snapshots
                    /\ \A f \in Files : (\A i \in DOMAIN drive[c].steps : File(c, i) # f) =>
                         Holds(f, held[c].host[f])'
  BY DriverAt DEF OthersRestored, RetiringAt, File
<1>2. ASSUME NEW f \in Files, \A i \in DOMAIN drive[c].steps : File(c, i) # f
      PROVE  host'[f] = host[f] /\ Holds(f, held[c].host[f])
  BY <1>1, <1>2, DriverAt, OtherFilesStay DEF OthersRestored
<1> QED
  BY <1>1, <1>2 DEF OthersRestored, Holds

\* Without a fault, a restore is refused a write only at its first change, and only when the
\* limits exclude the recorded ones.
LEMMA RefusedIsExcluded ==
  ASSUME DriverTypeOK, NEW c \in Commands, Write(c), job[c] = "restore", faults = 0,
         StepsSound(c), RestoresSnapshot(c), DriverIsAt(c), OthersRestored(c), RestoreIsAt(c),
         Crosses(This(c).file, This(c).target)
  PROVE  drive[c].at = 1 /\ Excludes(held[c]) /\ host[File(c, 1)] = drive[c].steps[1].back
<1> DEFINE at == drive[c].at
           steps == drive[c].steps
<1>1. at \in DOMAIN steps /\ 1 \in DOMAIN steps /\ at \in Nat /\ at >= 1
  BY DriverAt DEF DriveStep
<1>2. /\ steps[at].target = held[c].host[steps[at].file]
      /\ steps[at].file = "max" => at = 1
      /\ steps[at].file = "min" => at = 1 \/ steps[1].file = "max"
      /\ \A i \in DOMAIN steps : steps[i].expect = None
      /\ \A i \in DOMAIN steps : steps[i].file = "max" => i = 1
      /\ steps[1].target = held[c].host[steps[1].file]
  BY <1>1 DEF RestoresSnapshot
<1>3. held[c] \in Snapshots /\ held[c].host \in Hosts
  BY RestLifecycleAssumption DEF OthersRestored, Write, Driving
<1>4. held[c].host["min"] <= held[c].host["max"] /\ host["min"] \in Nat /\ host["max"] \in Nat
      /\ held[c].host["min"] \in Nat /\ held[c].host["max"] \in Nat
  BY <1>3, RestDriverAssumption DEF Hosts, DriverTypeOK
<1>5. at = 1 => host[File(c, 1)] = steps[1].back
  BY <1>1, <1>2 DEF DriverIsAt, Untouched, Before, Write, Driving
<1>6. CASE steps[at].file = "max"
  <2>1. held[c].host["max"] < host["min"]
    BY <1>2, <1>6 DEF Crosses, This
  <2> QED
    BY <1>2, <1>4, <1>5, <1>6, <2>1 DEF Excludes
<1>7. CASE steps[at].file = "min"
  <2>1. held[c].host["min"] > host["max"]
    BY <1>2, <1>7 DEF Crosses, This
  <2>2. at = 1
    <3> SUFFICES ASSUME at # 1 PROVE FALSE
      OBVIOUS
    <3>1. steps[1].file = "max"
      BY <1>2, <1>7
    <3>2. host["max"] = held[c].host["max"]
      <4>1. drive[c].step = "write" /\ 1 < at
        BY <1>1 DEF Write, Driving
      <4>2. host[File(c, 1)] = steps[1].target
        BY <1>1, <4>1 DEF RestoreIsAt
      <4> QED
        BY <1>2, <3>1, <4>2 DEF File
    <3> QED
      BY <1>4, <2>1, <3>2
  <2>3. \A i \in DOMAIN steps : File(c, i) # "max"
    BY <1>2, <1>7, <2>2 DEF File
  <2>4. Holds("max", held[c].host["max"])
    BY <2>3 DEF OthersRestored, Write, Driving, Files
  <2> QED
    BY <1>4, <1>5, <2>1, <2>2, <2>4 DEF Excludes
<1> QED
  BY <1>6, <1>7 DEF Crosses, This

\* Without a fault, what a restore has written stays there to the unit.
LEMMA RestoreStaysExact ==
  ASSUME DriverTypeOK, NEW c \in Commands, DriveStep(c),
         StepsSound(c), RestoresSnapshot(c), DriverIsAt(c), OthersRestored(c), RestoreIsAt(c),
         faults' = faults, job'[c] = job[c], held'[c] = held[c]
  PROVE  RestoreIsAt(c)'
<1> DEFINE at == drive[c].at
           steps == drive[c].steps
           Goal == /\ drive'[c].step \in {"write", "verify"} =>
                        \A i \in DOMAIN steps :
                          i < drive'[c].at \/ (i = drive'[c].at /\ drive'[c].step = "verify") =>
                            host'[File(c, i)] = steps[i].target
                   /\ drive'[c].step \in {"undo", "recheck", "rolledback", "torn"} =>
                        /\ drive'[c].at = 1 /\ host'[File(c, 1)] = steps[1].back
                        /\ Excludes(held[c])'
<1> SUFFICES ASSUME faults = 0, job[c] = "restore" PROVE Goal
  BY DriverAt DEF RestoreIsAt, File, Excludes, Holds
<1>1. drive[c].step \notin {"check", "expect"}
      /\ \A i \in DOMAIN steps : steps[i].expect = None
  BY DEF RestoresSnapshot
<1>2. at \in DOMAIN steps /\ 1 \in DOMAIN steps /\ DOMAIN steps \subseteq Nat /\ at \in Nat
  BY DriverAt
<1>3. CASE Write(c) /\ Crosses(This(c).file, This(c).target)
  <2>1. at = 1 /\ Excludes(held[c]) /\ host[File(c, 1)] = steps[1].back
    BY <1>3, RefusedIsExcluded
  <2>2. drive'[c].step = "undo" /\ drive'[c].at = at /\ host' = host
    BY <1>3, ToGoes DEF Write, RollBack
  <2> QED
    BY <2>1, <2>2 DEF Excludes, Holds
<1>4. CASE Write(c) /\ ~Crosses(This(c).file, This(c).target)
  <2>1. drive'[c].step = "verify" /\ drive'[c].at = at
    BY <1>4, ToGoes DEF Write
  <2>2. host'[File(c, at)] = steps[at].target
    BY <1>2, <1>4, DriverAt DEF Write, File, This
  <2>3. \A i \in DOMAIN steps : i < at => host'[File(c, i)] = steps[i].target
    BY <1>2, <1>4, OtherFilesStay DEF RestoreIsAt, Write, Driving
  <2> QED
    BY <2>1, <2>2, <2>3
<1>5. CASE Verify(c)
  <2>1. \A i \in DOMAIN steps : i <= at => host[File(c, i)] = steps[i].target
    BY <1>2, <1>5 DEF RestoreIsAt, Verify, Driving
  <2>2. Holds(This(c).file, This(c).target)
    <3>1. This(c).file \in Files /\ Fits(This(c).file, This(c).target)
      BY <1>5, ThisIsTyped DEF Verify, Driving
    <3>2. host[This(c).file] = This(c).target
      BY <1>2, <2>1 DEF File, This
    <3> QED
      BY <3>1, <3>2, EqualMatches DEF Holds
  <2>3. Onward(c) /\ host' = host
    BY <1>5, <2>2 DEF Verify
  <2>4. CASE IsLast(c)
    <3>1. drive'[c].step = "done"
      BY <2>3, <2>4, ToGoes DEF Onward
    <3> QED
      BY <3>1
  <2>5. CASE ~IsLast(c)
    <3>1. drive[c].at + 1 \in DOMAIN steps
      BY <2>5, DriverAt DEF IsLast
    <3>2. drive'[c].step = "write" /\ drive'[c].at = at + 1
      BY <1>1, <2>3, <2>5, <3>1, ToGoes DEF Onward
    <3> QED
      BY <1>2, <2>1, <2>3, <3>2
  <2> QED
    BY <2>4, <2>5
<1>6. CASE drive[c].step \in {"undo", "recheck"}
  <2>1. at = 1 /\ host[File(c, 1)] = steps[1].back /\ Excludes(held[c])
    BY <1>6 DEF RestoreIsAt
  <2>2. host' = host
    <3>1. CASE host' = [host EXCEPT ![This(c).file] = This(c).back]
      <4>1. host[This(c).file] = This(c).back
        BY <2>1 DEF File, This
      <4>2. host = [f \in Files |-> host[f]]
        BY HostIsFunction DEF DriverTypeOK
      <4> QED
        BY <3>1, <4>1, <4>2
    <3>2. ~Driving(c, "write")
      BY <1>6 DEF Driving
    <3> QED
      BY <3>1, <3>2, OneFileChanges
  <2>3. Excludes(held[c])' /\ host'[File(c, 1)] = steps[1].back
    BY <2>1, <2>2 DEF Excludes, Holds
  <2>4. CASE To(c, "recheck", at)
    <3>1. drive'[c].step = "recheck" /\ drive'[c].at = 1
      BY <2>1, <2>4, ToGoes
    <3> QED
      BY <2>3, <3>1
  <2>5. CASE \E broken \in BOOLEAN : Backward(c, broken)
    <3>1. drive'[c].step \in {"torn", "rolledback"} /\ drive'[c].at = 1
      BY <2>1, <2>5, BackwardGoes
    <3> QED
      BY <2>3, <3>1
  <2>6. (drive[c].broken \/ ~Holds(This(c).file, This(c).back)) \in BOOLEAN
    OBVIOUS
  <2> QED
    BY <1>6, <2>4, <2>5, <2>6
    DEF DriveStep, Check, Expect, Write, Verify, Undo, Recheck, Driving
<1> QED
  BY <1>1, <1>3, <1>4, <1>5, <1>6 DEF DriveStep, Check, Expect, Undo, Recheck, Driving

\* Every step in the driver keeps what the files are known to hold.
LEMMA DriveAgrees ==
  ASSUME Inductive, NEW c \in Commands, FilesAgree(c),
         (DriveStep(c) /\ faults' = faults) \/ (DriveFault(c) /\ faults' # 0),
         c \notin disturbed' => c \notin disturbed,
         UNCHANGED <<storing, held, stage, job>>
  PROVE  FilesAgree(c)'
<1>1. DriverTypeOK /\ MovesOn(c) /\ ~Driving(c, "idle") /\ UNCHANGED seen
  BY DriveMovesOn DEF Inductive
<1>2. stage[c] = "driving" /\ storing[c] = "idle" /\ ~Reads(c)
  BY <1>1, StageFacts DEF Driving, InStore, Reads
<1>3. StepsSound(c)'
  BY <1>1 DEF MovesOn, FilesAgree, StepsSound
<1>4. RestoresSnapshot(c)'
  BY <1>1, RestoreStaysBlind DEF FilesAgree
<1>5. SeenIsTrue(c)'
  BY <1>1, <1>2, UnseenUnlessReading, NothingSeen
<1>6. ASSUME c \notin disturbed'
      PROVE  DriverIsAt(c)' /\ OthersRestored(c)' /\ RestoreIsAt(c)'
  <2>1. StepsSound(c) /\ RestoresSnapshot(c) /\ DriverIsAt(c) /\ OthersRestored(c)
        /\ RestoreIsAt(c)
    BY <1>6 DEF FilesAgree
  <2>2. DriverIsAt(c)' /\ OthersRestored(c)'
    BY <1>1, <1>2, <2>1, DriverStaysTrue, OthersStayRestored
  <2>3. RestoreIsAt(c)'
    BY <1>1, <2>1, RestoreStaysExact DEF RestoreIsAt
  <2> QED
    BY <2>2, <2>3
<1> QED
  BY <1>3, <1>4, <1>5, <1>6 DEF FilesAgree

-------------------------------------------------------------------------------
(* Every step *)

\* A command's own step keeps what it knows of the files.
LEMMA StepAgrees ==
  ASSUME Inductive, FilesInductive, NEW c \in Commands, CommandStep(c)
  PROVE  FilesAgree(c)'
<1>1. FilesAgree(c) /\ faults \in Nat
  BY DEF FilesInductive
<1>2. CASE Start(c) \/ LookStep(c) \/ Answer(c) \/ Killed(c)
  BY <1>1, <1>2, StartAgrees, LookAgrees, AnswerAgrees, KilledAgrees
<1>3. CASE Drives(c)
  <2>1. DriveStep(c) /\ faults' = faults /\ UNCHANGED <<storing, held, stage, job>>
    BY <1>3 DEF Drives, storeVars, lifeVars
  <2>2. c \notin disturbed' => c \notin disturbed
    BY <1>3 DEF Drives, Disturbs
  <2>3. (DriveStep(c) /\ faults' = faults) \/ (DriveFault(c) /\ faults' # 0)
    BY <2>1
  <2> QED
    BY <1>1, <2>1, <2>2, <2>3, DriveAgrees
<1>4. CASE Stores(c)
  BY <1>1, <1>4, StoreAgrees DEF Stores, lifeVars
<1>5. CASE Tells(c)
  BY <1>1, <1>5, TellAgrees DEF Tells, noise
<1>6. CASE SystemCallFails(c)
  <2>1. faults' # 0
    BY <1>1, <1>6 DEF SystemCallFails, Fault
  <2>2. UNCHANGED <<stage, job>>
    BY <1>6 DEF SystemCallFails, lifeVars
  <2>3. CASE LookFails(c) /\ UNCHANGED <<storeVars, auditVars, disturbed>>
    <3>1. LeftAlone(c)
      BY <2>1, <2>2, <2>3 DEF LookFails, LeftAlone, storeVars
    <3> QED
      BY <1>1, <3>1, LeftAloneAgrees
  <2>4. CASE DriveFault(c) /\ UNCHANGED <<storeVars, auditVars, disturbed>>
    BY <1>1, <2>1, <2>2, <2>4, DriveAgrees DEF storeVars
  <2>5. CASE StoreFault(c) /\ UNCHANGED <<driverVars, auditVars, disturbed>>
    <3>1. ~At(c, "reload") \/ held'[c] = held[c]
      BY <2>5 DEF StoreFault, WriteShort, Fill, SyncFails, CallFails, Fail, At
    <3> QED
      BY <1>1, <2>2, <2>5, <3>1, StoreAgrees
  <2>6. CASE UNCHANGED <<storeVars, driverVars, disturbed>>
    BY <1>1, <1>6, <2>1, <2>6, TellAgrees DEF SystemCallFails
  <2> QED
    BY <1>6, <2>3, <2>4, <2>5, <2>6 DEF SystemCallFails
<1> QED
  BY <1>2, <1>3, <1>4, <1>5, <1>6 DEF CommandStep, Work

LEMMA NextKeepsFiles ==
  ASSUME Inductive, FilesInductive, Next
  PROVE  FilesInductive'
<1>1. faults \in Nat /\ outside \in Nat /\ \A c \in Commands : FilesAgree(c)
  BY DEF FilesInductive
<1>2. faults' \in Nat /\ outside' \in Nat
  <2>1. CASE UNCHANGED <<faults, outside>>
    BY <1>1, <2>1
  <2>2. CASE Fault /\ UNCHANGED outside
    BY <1>1, <2>2 DEF Fault
  <2>3. CASE Outside
    BY <1>1, <2>3 DEF Outside
  <2>4. ASSUME NEW c \in Commands, Start(c) \/ Work(c) \/ Answer(c) \/ Killed(c)
        PROVE  UNCHANGED <<faults, outside>>
    <3>1. CASE Start(c) \/ Killed(c)
      BY <3>1 DEF Start, StartAs, Killed, noise
    <3>2. CASE Work(c)
      BY <3>2 DEF Work, LookStep, Drives, Stores, Tells, noise
    <3>3. CASE Answer(c)
      BY <3>3 DEF Answer, IntentRecorded, Loaded, Probed, Saved, Planned, LiveRead, Driven,
         Retired, RetirementTold, Finished, noise
    <3> QED
      BY <2>4, <3>1, <3>2, <3>3
  <2>5. (\E c \in Commands : SystemCallFails(c)) \/ PowerLoss => Fault /\ UNCHANGED outside
    BY DEF SystemCallFails, PowerLoss
  <2> QED
    BY <2>1, <2>2, <2>3, <2>4, <2>5 DEF Next
<1>3. ASSUME NEW c \in Commands, CommandStep(c), NEW d \in Commands
      PROVE  FilesAgree(d)'
  <2>1. CASE d = c
    BY <1>3, <2>1, StepAgrees
  <2>2. CASE d # c
    BY <1>1, <1>3, <2>2, OthersLeftAlone, LeftAloneAgrees
  <2> QED
    BY <2>1, <2>2
<1>4. ASSUME Outside, NEW d \in Commands
      PROVE  FilesAgree(d)'
  <2>1. LeftAlone(d)
    BY <1>4 DEF Outside, Disturbs, LeftAlone, storeVars, lifeVars
  <2> QED
    BY <1>1, <2>1, LeftAloneAgrees
<1>5. ASSUME PowerLoss, NEW d \in Commands
      PROVE  FilesAgree(d)'
  <2>1. drive'[d] = IdleDrive /\ seen'[d] = Unseen /\ storing'[d] = "idle"
    BY <1>5 DEF PowerLoss, StorePowerLoss
  <2> QED
    BY <2>1, NothingSeen, InNoPartAgreesNext DEF RetiringAt
<1> QED
  BY <1>2, <1>3, <1>4, <1>5 DEF Next, CommandStep, FilesInductive

LEMMA InitFiles == Init => FilesInductive
<1> SUFFICES ASSUME Init PROVE FilesInductive
  OBVIOUS
<1>1. faults = 0 /\ outside = 0
  BY DEF Init
<1>2. ASSUME NEW c \in Commands PROVE FilesAgree(c)
  <2>1. drive[c] = IdleDrive /\ seen[c] = Unseen /\ storing[c] = "idle"
    BY DEF Init, DriverInit, StoreInit
  <2>2. SeenIsTrue(c)
    BY <2>1 DEF SeenIsTrue, Unseen
  <2> QED
    BY <2>1, <2>2, InNoPartAgrees DEF InNoPart, RetiringAt
<1> QED
  BY <1>1, <1>2 DEF FilesInductive

LEMMA StutterFiles ==
  ASSUME Inductive, FilesInductive, UNCHANGED vars
  PROVE  FilesInductive'
<1> SUFFICES ASSUME NEW c \in Commands PROVE FilesAgree(c)'
  BY DEF FilesInductive, vars, noise
<1>1. LeftAlone(c)
  BY DEF LeftAlone, vars, storeVars, driverVars, lifeVars, noise
<1> QED
  BY <1>1, LeftAloneAgrees DEF FilesInductive

\* What the commands know of the files is an invariant of the lifecycle.
LEMMA LifecycleFiles == Spec => [](Inductive /\ FilesInductive)
<1>1. Inductive /\ FilesInductive /\ [Next]_vars => FilesInductive'
  BY NextKeepsFiles, StutterFiles
<1> QED
  BY <1>1, InitFiles, LifecycleInductive, PTL DEF Spec

-------------------------------------------------------------------------------
(* The theorems about the files *)

(***************************************************************************)
(* As long as nobody else changes the files, "written and verified" and    *)
(* "was rolled back" are true of every file the driver touched, whichever  *)
(* reads and writes fail or have no effect, for every set of settings and  *)
(* every tolerance (linux_rest.rs:79-92, 111-129).                         *)
(***************************************************************************)
THEOREM LifecycleReportsTruly == Spec => []ReportIsTrue
<1>1. FilesInductive => ReportIsTrue
  BY DEF FilesInductive, FilesAgree, DriverIsAt, ReportIsTrue, Written, Undone, File
<1> QED
  BY <1>1, LifecycleFiles, PTL

(***************************************************************************)
(* Without a fault, a restore that nobody disturbs fails only where the    *)
(* limits of the host exclude the recorded ones: the ceiling goes first,   *)
(* and no write after the first is ever refused (linux_rest.rs:107-131).   *)
(***************************************************************************)
THEOREM LifecycleRestoresThrough == Spec => []RestoreGoesThrough
<1>1. FilesInductive => RestoreGoesThrough
  BY DEF FilesInductive, FilesAgree, RestoreIsAt, RestoreGoesThrough
<1> QED
  BY <1>1, LifecycleFiles, PTL

\* What a restore that is about to remove the snapshot knows of the files.
LEMMA AboutToRemove ==
  ASSUME Inductive, FilesInductive, NEW c \in Commands, c \notin disturbed, At(c, "remove"),
         ~clashed
  PROVE  \A f \in Files : Holds(f, active.host[f])
<1>1. active = held[c]
  BY DEF Inductive, StoreInductive, LinkedTwice, At
<1>2. DOMAIN drive[c].steps = {}
  BY StageFacts, PartsFollowStage DEF At, InStore, IdleDrive
<1>3. OthersRestored(c)
  BY DEF FilesInductive, FilesAgree
<1> QED
  BY <1>1, <1>2, <1>3 DEF OthersRestored, RetiringAt, At

(***************************************************************************)
(* The snapshot is taken out of use only when the host holds the settings  *)
(* it records, however many commands save, apply and restore at once,      *)
(* unless somebody else changed the files or replaced the snapshot while   *)
(* the restore ran, or a failed save removed a file that others rely on    *)
(* (main.rs:301, original_power.rs:155-161, 255-294).                      *)
(***************************************************************************)
THEOREM LifecycleRetiresOnlyWhenBack == Spec => RetiresOnlyWhenBack
<1>1. Inductive /\ FilesInductive => RetiredWhenBack
  BY AboutToRemove DEF RetiredWhenBack, At
<1> QED
  BY <1>1, LifecycleFiles, PTL DEF RetiresOnlyWhenBack

-------------------------------------------------------------------------------
(* One command at a time *)

\* A command does something only when it is at work, or starts.
LEMMA OnlyAtWork ==
  ASSUME Inductive, NEW c \in Commands, CommandStep(c), ~Start(c)
  PROVE  Running(c)
<1>1. Reads(c) => Running(c)
  BY DEF Reads, Running
<1>2. stage[c] \in {"driving", "intent", "telling", "outcome"} \union InStore => Running(c)
  BY DEF Running, InStore
<1>3. (DriveStep(c) \/ DriveFault(c)) => stage[c] = "driving"
  BY DriveMovesOn, StageFacts DEF Inductive, Driving
<1>4. (StoreStep(c) \/ StoreFault(c)) => stage[c] \in InStore
  <2>1. ASSUME StoreStep(c) \/ StoreFault(c) PROVE storing[c] # "idle"
    BY <2>1, StoreMovesOne DEF Inductive, StoreInductive
  <2> QED
    BY <2>1, PartsFollowStage
<1>5. (Accept(c) \/ Refuse(c) \/ AcceptUnheard(c)) => stage[c] \in Recording
  BY DEF Accept, Refuse, AcceptUnheard, Telling, Inductive, CommandOK, StageMatches
<1>6. CASE Work(c) \/ SystemCallFails(c)
  BY <1>1, <1>2, <1>3, <1>4, <1>5, <1>6
  DEF Work, LookStep, Drives, Stores, Tells, SystemCallFails, Recording
<1>7. CASE Answer(c)
  BY <1>7
  DEF Answer, IntentRecorded, Loaded, Probed, Saved, Planned, LiveRead, Driven, Retired,
      RetirementTold, Finished, Running
<1> QED
  BY <1>6, <1>7 DEF CommandStep, Killed

\* A command that rests while another one takes a step has nothing at hand.
LEMMA RestingHasNothing ==
  ASSUME Inductive, NEW c \in Commands, NEW d \in Commands \ {c}, OthersRest(c), ~Running(d)
  PROVE  ~Running(d)' /\ HeldIsActive(d)' /\ SavesOurs(d)' /\ DrivesOurs(d)'
<1>1. stage'[d] = stage[d] /\ storing'[d] = storing[d] /\ drive'[d] = drive[d]
  BY DEF OthersRest
<1>2. storing[d] = "idle" /\ stage[d] \notin {"loading", "probing", "reading", "driving"}
      /\ drive[d].step = "idle"
  BY PartsFollowStage DEF InStore, Running
<1>3. ~Running(d)' /\ DrivesOurs(d)'
  BY <1>1, <1>2 DEF Running, DrivesOurs, Driving
<1> QED
  BY <1>1, <1>2, <1>3 DEF HeldIsActive, SavesOurs, RetiringAt, SavingAt, At

-------------------------------------------------------------------------------
(* The settings that nordfir leaves and comes back to *)

\* What REST makes of the settings the kernel starts with.
LEMMA RestedIs ==
  ASSUME boot \in Hosts
  PROVE  /\ Rested(boot)["governor"] = RestGovernor
         /\ Rested(boot)["min"] = boot["min"]
         /\ Rested(boot)["max"] = IF boot["max"] > RestTarget(HwMin, HwMax)
                                    THEN RestTarget(HwMin, HwMax) ELSE boot["max"]
<1>1. boot = [f \in Files |-> boot[f]]
  BY HostIsFunction
<1> QED
  BY <1>1 DEF Rested, Files

\* Settings that are not REST's count as those the kernel starts with.
LEMMA OriginsAre ==
  ASSUME boot \in Hosts, NEW h \in Origins
  PROVE  /\ h \in Hosts /\ CountsAsBoot(h)
         /\ \A f \in Files : Ours(f, h[f])
         /\ h["governor"] = boot["governor"] /\ h["min"] = boot["min"]
         /\ h["max"] \in {boot["max"], Rested(boot)["max"]}
         /\ Matches("max", h["max"], boot["max"])
<1> DEFINE max == Rested(boot)["max"]
<1>1. \A f \in Files : Fits(f, boot[f]) /\ Matches(f, boot[f], boot[f])
  BY HostIsFunction, EqualMatches
<1>2. CASE h = boot
  BY <1>1, <1>2 DEF CountsAsBoot, Ours, Files
<1>3. CASE h # boot
  <2>1. h = [boot EXCEPT !["max"] = max] /\ h \in Hosts /\ Matches("max", h["max"], boot["max"])
    BY <1>3 DEF Origins
  <2>2. boot = [f \in Files |-> boot[f]]
    BY HostIsFunction
  <2> HIDE DEF max
  <2>3. h["governor"] = boot["governor"] /\ h["min"] = boot["min"] /\ h["max"] = max
    BY <2>1, <2>2 DEF Files
  <2>4. CountsAsBoot(h)
    BY <1>1, <2>1, <2>3 DEF CountsAsBoot, Files
  <2>5. \A f \in Files : Ours(f, h[f])
    BY <2>3 DEF Ours, Files, max
  <2> QED
    BY <2>1, <2>3, <2>4, <2>5 DEF max
<1> QED
  BY <1>2, <1>3

\* And settings of which the governor is the kernel's, and the ceiling counts as the kernel's,
\* are not REST's.
LEMMA OriginIs ==
  ASSUME boot \in Hosts, NEW h \in Hosts, \A f \in Files : Ours(f, h[f]),
         h["governor"] = boot["governor"], Matches("max", h["max"], boot["max"])
  PROVE  h \in Origins
<1> DEFINE max == Rested(boot)["max"]
<1>1. h["min"] = boot["min"] /\ h["max"] \in {boot["max"], max}
  BY RestedIs DEF Ours, Files
<1>2. h = [f \in Files |-> h[f]] /\ boot = [f \in Files |-> boot[f]]
  BY HostIsFunction
<1> HIDE DEF max
<1>3. h["max"] = boot["max"] => h = boot
  BY <1>1, <1>2 DEF Files
<1>4. h["max"] = max => h = [boot EXCEPT !["max"] = max]
  BY <1>1, <1>2 DEF Files
<1> QED
  BY <1>1, <1>3, <1>4 DEF Origins, max

\* A host that holds what a snapshot of such settings says has such settings.
LEMMA BackIsOrigin ==
  ASSUME boot \in Hosts, host \in Hosts, \A f \in Files : Ours(f, host[f]),
         NEW o \in Origins, \A f \in Files : Holds(f, o[f])
  PROVE  host \in Origins
<1> DEFINE max == Rested(boot)["max"]
<1>1. /\ o["governor"] = boot["governor"] /\ o["max"] \in {boot["max"], max}
      /\ Matches("max", o["max"], boot["max"])
  BY OriginsAre
<1>2. host["governor"] = boot["governor"]
  BY <1>1 DEF Holds, Matches, Files
<1>3. Matches("max", host["max"], o["max"]) /\ host["max"] \in {boot["max"], max}
  BY DEF Holds, Files, Ours
<1>4. Matches("max", boot["max"], boot["max"])
  BY HostIsFunction, EqualMatches DEF Files
<1>5. Matches("max", host["max"], boot["max"])
  <2> HIDE DEF max
  <2> QED
    BY <1>1, <1>3, <1>4
<1> QED
  BY <1>2, <1>5, OriginIs

\* A ceiling above REST's goes down to the one that REST leaves of the kernel's.
LEMMA TargetIsOurs ==
  ASSUME boot \in Hosts, NEW v \in {boot["max"], Rested(boot)["max"]},
         v > RestTarget(HwMin, HwMax)
  PROVE  RestTarget(HwMin, HwMax) = Rested(boot)["max"]
<1> DEFINE target == RestTarget(HwMin, HwMax)
<1>1. target \in Nat /\ boot["max"] \in Nat
  BY RestDriverAssumption, HostIsFunction DEF Fits, Files
<1>2. Rested(boot)["max"] = IF boot["max"] > target THEN target ELSE boot["max"]
  BY RestedIs
<1> HIDE DEF target
<1>3. CASE boot["max"] > target
  BY <1>2, <1>3 DEF target
<1>4. CASE ~(boot["max"] > target)
  <2>1. v = boot["max"]
    BY <1>2, <1>4
  <2> QED
    BY <1>4, <2>1 DEF target
<1> QED
  BY <1>3, <1>4 DEF target

\* None of this depends on more than the settings the kernel starts with.
LEMMA SettingsStay ==
  ASSUME boot' = boot
  PROVE  /\ Origins' = Origins
         /\ \A f, v : Ours(f, v)' <=> Ours(f, v)
         /\ \A text : IsEarlier(text)' <=> IsEarlier(text)
<1>1. Origins' = Origins
  BY DEF Origins, Rested
<1>2. \A f, v : Ours(f, v)' <=> Ours(f, v)
  BY DEF Ours, Rested
<1>3. \A text : IsEarlier(text)' <=> IsEarlier(text)
  BY <1>1 DEF IsEarlier
<1> QED
  BY <1>1, <1>2, <1>3

-------------------------------------------------------------------------------
(* The step of a command that is alone *)

\* What holds of the one that is at work.
AloneWith(c) ==
  /\ ~clashed /\ disturbed = {} /\ Recoverable
  /\ HeldIsActive(c) /\ SavesOurs(c) /\ DrivesOurs(c)

\* It sets a file while the snapshot is active, or it leaves the files alone.
GoesAlone ==
  /\ boot' = boot
  /\ host' = host \/ (active \in Snapshots /\ active' = active)

LEMMA RecoverableStays ==
  ASSUME Recoverable, UNCHANGED <<host, boot, active, older>>
  PROVE  Recoverable'
BY SettingsStay DEF Recoverable

\* The steps in the driver.
LEMMA StepsStayOurs ==
  ASSUME NEW c \in Commands, DrivesOurs(c), ~Driving(c, "idle"), boot' = boot,
         drive'[c].steps = drive[c].steps
  PROVE  DrivesOurs(c)'
BY SettingsStay DEF DrivesOurs, File

LEMMA DriveAlone ==
  ASSUME Inductive, NEW c \in Commands, AloneWith(c), DriveStep(c) \/ DriveFault(c),
         disturbed' = {}, UNCHANGED <<storeVars, lifeVars>>
  PROVE  GoesAlone /\ AloneWith(c)'
<1>1. MovesOn(c) /\ ~Driving(c, "idle") /\ host' \in Hosts
  BY DriveMovesOn DEF Inductive
<1>2. stage[c] = "driving" /\ storing[c] = "idle"
  BY <1>1, StageFacts, PartsFollowStage DEF Driving, InStore
<1>3. UNCHANGED <<active, older, writer, clashed, boot, storing, held, stage, job>>
  BY DEF storeVars, files, disk, past, lifeVars
<1>4. held[c] = active /\ active \in Snapshots
  BY <1>2 DEF AloneWith, HeldIsActive
<1>5. HeldIsActive(c)' /\ SavesOurs(c)'
  BY <1>2, <1>3, <1>4 DEF HeldIsActive, SavesOurs, At, SavingAt
<1>6. DrivesOurs(c)'
  BY <1>1, <1>3, StepsStayOurs DEF AloneWith, MovesOn
<1>7. \A f \in Files : Ours(f, host'[f])
  <2>1. host \in Hosts /\ drive[c].steps \in Seq(Changes) /\ drive[c].at \in 1..Len(drive[c].steps)
    BY <1>1 DEF Inductive, DriverTypeOK
  <2>2. host = [f \in Files |-> host[f]] /\ \A f \in Files : Ours(f, host[f])
    BY <2>1, HostIsFunction DEF AloneWith, Recoverable
  <2>3. Ours(This(c).file, This(c).target) /\ Ours(This(c).file, This(c).back)
    BY <1>1, <2>1 DEF AloneWith, DrivesOurs, File, This
  <2>4. host' = host \/ \E v \in {This(c).target, This(c).back} :
                          host' = [host EXCEPT ![This(c).file] = v]
    BY DEF DriveStep, DriveFault, Check, Expect, Write, Verify, Undo, Recheck, AccessFails,
           WriteIgnored
  <2>5. CASE host' = host
    BY <2>2, <2>5
  <2>6. ASSUME NEW v \in {This(c).target, This(c).back}, host' = [host EXCEPT ![This(c).file] = v]
        PROVE  \A f \in Files : Ours(f, host'[f])
    <3> DEFINE file == This(c).file
    <3>1. Ours(file, v) /\ host' = [host EXCEPT ![file] = v]
      BY <2>3, <2>6
    <3> HIDE DEF file
    <3>2. \A f \in Files : host'[f] = IF f = file THEN v ELSE host[f]
      BY <2>2, <3>1
    <3> QED
      BY <2>2, <3>1, <3>2
  <2> QED
    BY <2>4, <2>5, <2>6
<1>8. Recoverable'
  BY <1>3, <1>4, <1>7, SettingsStay DEF AloneWith, Recoverable
<1> QED
  BY <1>3, <1>4, <1>5, <1>6, <1>8 DEF GoesAlone, AloneWith

\* The steps in the store: the snapshot that is there is of a host that is not in REST, or as
\* it was, and when there is none the host is not in REST either.
StoredOurs ==
  /\ IsEarlier(active') /\ \A e \in older' : e \in older \/ e[1] = active
  /\ host \notin Origins => active' \in Snapshots

LEMMA StoreGoesOurs ==
  ASSUME Inductive, FilesInductive, NEW c \in Commands, AloneWith(c),
         StoreStep(c) \/ (StoreFault(c) /\ Shortens), ~shortened'
  PROVE  StoredOurs
<1>1. Torn \notin Snapshots /\ None \notin Snapshots
  BY RecoveryStoreAssumption
<1>2. Recoverable /\ ~clashed /\ c \notin disturbed /\ SavesOurs(c)
  BY DEF AloneWith
<1>3. IsEarlier(active) /\ (host \notin Origins => active \in Snapshots)
  BY <1>2 DEF Recoverable
<1>4. CASE Create(c)
  <2>1. host \in Origins /\ active' = Torn
    BY <1>1, <1>3, <1>4 DEF Create, MayCreate
  <2> QED
    BY <1>1, <1>4, <2>1 DEF Create, Outdate, StoredOurs, IsEarlier
<1>5. CASE WriteAll(c)
  <2>1. writer = c /\ host \in Origins /\ held[c].host = host /\ held[c] \in Snapshots
    BY <1>2, <1>5
    DEF WriteAll, At, SavesOurs, AloneWith, HeldIsActive, SavingAt, Inductive, StoreInductive,
        HasSnapshot
  <2>2. active' = held[c] /\ older' = older
    BY <1>5, <2>1 DEF WriteAll, Fill, disk
  <2> QED
    BY <2>1, <2>2 DEF StoredOurs, IsEarlier
<1>6. CASE WriteShort(c) /\ Shortens
  <2>1. host \in Origins /\ older' = older
    BY <1>2, <1>6 DEF WriteShort, Fill, disk, At, SavesOurs
  <2>2. ~(active' \in Snapshots /\ active' \notin {active} \union {e[1] : e \in older})
    BY <1>6, Zenon DEF Shortens
  <2>3. IsEarlier(active')
    BY <1>2, <2>2 DEF IsEarlier, Recoverable
  <2> QED
    BY <2>1, <2>3 DEF StoredOurs
<1>7. CASE Withdraw(c)
  <2>1. host \in Origins /\ active' = None
    BY <1>2, <1>7 DEF Withdraw, At, SavesOurs
  <2> QED
    BY <1>1, <1>7, <2>1 DEF Withdraw, Outdate, StoredOurs, IsEarlier
<1>8. CASE RemoveActive(c)
  <2>1. \A f \in Files : Holds(f, active.host[f])
    BY <1>2, <1>8, AboutToRemove DEF RemoveActive
  <2>2. active \in Snapshots
    BY <1>8 DEF RemoveActive, AloneWith, HeldIsActive, At, RetiringAt
  <2>3. active.host \in Origins
    BY <1>3, <2>2 DEF IsEarlier
  <2>4. boot \in Hosts /\ host \in Hosts /\ \A f \in Files : Ours(f, host[f])
    BY <1>2, RestLifecycleAssumption DEF Inductive, DriverTypeOK, LifeTypeOK, Recoverable
  <2>5. host \in Origins
    BY <2>1, <2>3, <2>4, BackIsOrigin
  <2> QED
    BY <1>1, <1>8, <2>5 DEF RemoveActive, Outdate, StoredOurs, IsEarlier
<1>9. CASE active' = active /\ (older' = older \/ older' = {})
  BY <1>3, <1>9 DEF StoredOurs
<1>10. CASE StoreStep(c)
  <2>1. CASE SaveStep(c)
    BY <1>4, <1>5, <1>7, <1>9, <2>1
    DEF SaveStep, MakeRoot, ChmodRoot, CreateRefused, Sync, WithdrawRefused, Fail, files, disk
  <2>2. CASE LoadStep(c)
    BY <1>9, <2>2 DEF LoadStep, Load, LoadRefused, Fail, files, disk
  <2>3. CASE RetireStep(c)
    BY <1>8, <1>9, <2>3
    DEF RetireStep, Reload, ReloadRefused, MakeArchive, ChmodArchive, Link, LinkRefused,
        SyncArchive, RemoveRefused, SyncRoot, Fail, files, disk
  <2> QED
    BY <1>10, <2>1, <2>2, <2>3 DEF StoreStep
<1>11. CASE StoreFault(c) /\ Shortens
  BY <1>6, <1>9, <1>11 DEF StoreFault, SyncFails, CallFails, Fail, files, disk
<1> QED
  BY <1>10, <1>11

LEMMA StoreSavesOurs ==
  ASSUME Inductive, NEW c \in Commands, AloneWith(c), StoreStep(c) \/ StoreFault(c),
         UNCHANGED <<host, boot>>
  PROVE  SavesOurs(c)'
<1>1. StoreTypeOK /\ SavesOurs(c)
  BY DEF Inductive, StoreInductive, AloneWith
<1>2. host \in Origins => (host \in Origins)'
  BY SettingsStay
<1>3. CASE storing'[c] \notin {"write", "sync", "withdraw"}
  BY <1>3 DEF SavesOurs, At
<1>4. CASE Create(c)
  <2>1. storing'[c] = "write" /\ writer' = c /\ active = None
    BY <1>1, <1>4 DEF Create, GoTo, StoreTypeOK, MayCreate
  <2>2. host \in Origins
    BY <2>1, RecoveryStoreAssumption DEF AloneWith, Recoverable
  <2> QED
    BY <1>2, <2>1, <2>2 DEF SavesOurs, At
<1>5. CASE WriteAll(c)
  <2>1. storing'[c] = "sync" /\ writer = c /\ host \in Origins
    BY <1>1, <1>5 DEF WriteAll, GoTo, At, StoreTypeOK, SavesOurs
  <2>2. writer' = c /\ active' = held[c] /\ held' = held
    BY <1>5, <2>1 DEF WriteAll, Fill, disk
  <2> QED
    BY <1>2, <2>1, <2>2 DEF SavesOurs, At
<1>6. CASE WriteShort(c) \/ SyncFails(c)
  <2>1. storing'[c] = "withdraw" /\ writer = c /\ host \in Origins /\ writer' = writer
    BY <1>1, <1>6 DEF WriteShort, SyncFails, Fill, disk, GoTo, At, StoreTypeOK, SavesOurs
  <2> QED
    BY <1>2, <2>1 DEF SavesOurs, At
<1>7. CASE StoreStep(c)
  <2> USE DEF StoreTypeOK, At, GoTo, Fail
  <2>1. CASE SaveStep(c)
    BY <1>1, <1>3, <1>4, <1>5, <2>1
    DEF SaveStep, MakeRoot, ChmodRoot, CreateRefused, Sync, Withdraw, WithdrawRefused
  <2>2. CASE LoadStep(c)
    BY <1>1, <1>3, <2>2 DEF LoadStep, Load, LoadRefused
  <2>3. CASE RetireStep(c)
    BY <1>1, <1>3, <2>3
    DEF RetireStep, Reload, ReloadRefused, MakeArchive, ChmodArchive, Link, LinkRefused,
        SyncArchive, RemoveActive, RemoveRefused, SyncRoot
  <2> QED
    BY <1>7, <2>1, <2>2, <2>3 DEF StoreStep
<1>8. CASE StoreFault(c)
  BY <1>1, <1>3, <1>6, <1>8 DEF StoreFault, CallFails, Fail, GoTo, StoreTypeOK
<1> QED
  BY <1>7, <1>8

\* And the snapshot at hand stays the active one.
LEMMA StoreKeepsHeld ==
  ASSUME Inductive, NEW c \in Commands, HeldIsActive(c), StoreStep(c) \/ StoreFault(c),
         UNCHANGED <<host, stage, job>>
  PROVE  HeldIsActive(c)' /\ (At(c, "reload") => held'[c] = held[c])
<1>1. StoreTypeOK
  BY DEF Inductive, StoreInductive
<1>2. storing[c] \notin {"idle", "done", "failed"}
  BY <1>1, StoreMovesOne
<1>3. stage[c] \in InStore /\ (stage[c] = "loading" => At(c, "load"))
  BY <1>2, PartsFollowStage DEF Inductive, CommandOK, HasLoaded, At
<1>4. /\ stage'[c] \notin {"probing", "reading", "driving"}
      /\ stage'[c] = "loading" => At(c, "load")
  BY <1>3 DEF InStore
<1>5. storing[c] \in RetiringAt \ {"syncroot"} => held[c] = active /\ active \in Snapshots
  BY DEF HeldIsActive
<1>6. At(c, "reload") => held'[c] = held[c]
  BY <1>1, <1>5, RetiringGoesOn DEF At, RetiringAt
<1>7. /\ At(c, "load") /\ storing'[c] = "done" => held'[c] = active' /\ active' \in Snapshots
      /\ storing'[c] \in RetiringAt \ {"syncroot"} =>
           /\ storing[c] \in RetiringAt \ {"syncroot"}
           /\ active' = active /\ held'[c] = held[c]
      /\ storing'[c] \in SavingAt => storing[c] \in SavingAt /\ held'[c] = held[c]
  BY <1>1, <1>6, RetiringGoesOn DEF At, SavingAt, RetiringAt
<1>8. storing[c] \in SavingAt => held[c].host = host
  BY DEF HeldIsActive
<1> QED
  BY <1>4, <1>5, <1>6, <1>7, <1>8 DEF HeldIsActive, At, SavingAt

\* A failed save that is alone removes a file of its own, on which nobody relies.
LEMMA NothingClashes ==
  ASSUME Inductive, NEW c \in Commands, AloneWith(c), StoreStep(c) \/ StoreFault(c),
         \A d \in Commands \ {c} : ~Running(d)
  PROVE  ~clashed'
<1>1. CASE Withdraw(c)
  <2>1. writer = c /\ storing[c] = "withdraw"
    BY <1>1 DEF Withdraw, At, AloneWith, SavesOurs
  <2>2. \A d \in Commands \ {c} : storing[d] = "idle"
    BY PartsFollowStage
  <2>3. ~OthersRely(c)
    BY <2>1, <2>2 DEF OthersRely, RetiringAt
  <2>4. clashed' = (clashed \/ OthersRely(c)) /\ ~clashed
    BY <1>1 DEF Withdraw, AloneWith
  <2> QED
    BY <2>3, <2>4, Zenon
<1>2. CASE UNCHANGED clashed
  BY <1>2 DEF AloneWith
<1>3. CASE SaveStep(c)
  BY <1>1, <1>2, <1>3
  DEF SaveStep, MakeRoot, ChmodRoot, Create, CreateRefused, WriteAll, Fill, Sync, WithdrawRefused,
      Fail, past
<1>4. CASE LoadStep(c)
  BY <1>2, <1>4 DEF LoadStep, Load, LoadRefused, Fail, past
<1>5. CASE RetireStep(c)
  BY <1>2, <1>5
  DEF RetireStep, Reload, ReloadRefused, MakeArchive, ChmodArchive, Link, LinkRefused, SyncArchive,
      RemoveActive, RemoveRefused, SyncRoot, Fail, past
<1>6. CASE StoreFault(c)
  BY <1>2, <1>6 DEF StoreFault, WriteShort, Fill, SyncFails, CallFails, Fail, past
<1> QED
  BY <1>3, <1>4, <1>5, <1>6 DEF StoreStep

LEMMA StoreAlone ==
  ASSUME Inductive, FilesInductive, NEW c \in Commands, AloneWith(c),
         \A d \in Commands \ {c} : ~Running(d),
         StoreStep(c) \/ (StoreFault(c) /\ Shortens), ~shortened',
         UNCHANGED <<driverVars, lifeVars>>,
         (At(c, "reload") => held'[c] = held[c]) => disturbed' = {}
  PROVE  GoesAlone /\ AloneWith(c)'
<1>1. UNCHANGED <<host, drive, boot, stage, job>>
  BY DEF driverVars, lifeVars
<1>2. HeldIsActive(c)' /\ disturbed' = {}
  BY <1>1, StoreKeepsHeld DEF AloneWith
<1>3. SavesOurs(c)' /\ ~clashed'
  BY <1>1, StoreSavesOurs, NothingClashes
<1>4. DrivesOurs(c)'
  BY <1>1, SettingsStay DEF AloneWith, DrivesOurs, File, Driving
<1>5. StoredOurs
  BY StoreGoesOurs
<1>6. Recoverable'
  BY <1>1, <1>5, SettingsStay DEF StoredOurs, AloneWith, Recoverable
<1> QED
  BY <1>1, <1>2, <1>3, <1>4, <1>6 DEF GoesAlone, AloneWith

\* The answers: the snapshot at hand is the active one, and nothing is written.
LEMMA AnswerKeepsHeld ==
  ASSUME Inductive, FilesInductive, NEW c \in Commands, c \notin disturbed,
         Answer(c), HeldIsActive(c)
  PROVE  /\ HeldIsActive(c)' /\ storing'[c] \notin {"write", "sync", "withdraw"}
         /\ UNCHANGED <<host, active, older, clashed, boot, disturbed>>
<1>1. storing \in [Commands -> StoreSteps] /\ held \in [Commands -> Snapshots \union {None}]
      /\ stage \in [Commands -> Stages]
  BY DEF Inductive, StoreInductive, StoreTypeOK, LifeTypeOK
<1>2. StageMatches(c) /\ JobMatches(c) /\ HasLoaded(c)
  BY DEF Inductive, CommandOK
<1>3. stage[c] \notin InStore => storing[c] = "idle"
  BY PartsFollowStage
<1>4. UNCHANGED <<host, active, older, clashed, boot, disturbed>>
  BY DEF Answer, IntentRecorded, Loaded, Probed, Saved, Planned, LiveRead, Driven, Retired,
         RetirementTold, Finished, Finish, End, GoOnTo, BeginLoad, BeginSave, BeginRetire,
         Return, storeVars, files, disk, past, driverVars, noise
<1> SUFFICES HeldIsActive(c)' /\ storing'[c] \notin {"write", "sync", "withdraw"}
  BY <1>4
<1>5. CASE Probed(c)
  <2>1. stage[c] = "probing" /\ storing[c] = "idle"
    BY <1>3, <1>5 DEF Probed, InStore
  <2>2. CASE End(c, TRUE) /\ UNCHANGED storeVars
    BY <1>1, <2>1, <2>2 DEF End, Stage, storeVars, HeldIsActive, At, RetiringAt, SavingAt
  <2>3. ASSUME NEW at \in Clock, capture(seen[c], at) # None, GoOnTo(c, "saving"),
               BeginSave(c, capture(seen[c], at))
        PROVE  HeldIsActive(c)' /\ storing'[c] = "mkdir"
    <3>1. capture(seen[c], at).host = seen[c] /\ \A f \in Files : seen[c][f] # None
      BY <2>3 DEF capture
    <3>2. \A f \in Files : seen[c][f] = host[f]
      BY <3>1 DEF FilesInductive, FilesAgree, SeenIsTrue
    <3>3. seen[c] = host
      BY <3>2, HostIsFunction DEF Inductive, DriverTypeOK
    <3>4. held'[c].host = host' /\ stage'[c] = "saving" /\ storing'[c] = "mkdir"
      BY <1>1, <1>4, <2>3, <3>1, <3>3 DEF BeginSave, GoTo, GoOnTo, Stage
    <3> QED
      BY <3>4 DEF HeldIsActive, At, RetiringAt
  <2> QED
    BY <1>5, <2>1, <2>2, <2>3 DEF Probed, storeVars
<1>6. CASE IntentRecorded(c)
  <2>1. stage[c] = "intent" /\ storing[c] = "idle"
    BY <1>3, <1>6 DEF IntentRecorded, InStore
  <2>2. storing'[c] \in {"idle", "load"} /\ stage'[c] \in {"ended", "loading"}
    BY <1>1, <1>6, <2>1 DEF IntentRecorded, Stage, storeVars, BeginLoad, GoTo
  <2> QED
    BY <2>2 DEF HeldIsActive, At, RetiringAt, SavingAt
<1>7. CASE Loaded(c)
  <2>1. stage[c] = "loading" /\ storing'[c] = "idle" /\ held' = held
    BY <1>1, <1>7 DEF Loaded, Return, GoTo
  <2>2. CASE storing[c] = "done"
    BY <1>4, <2>1, <2>2 DEF HeldIsActive, At, RetiringAt, SavingAt
  <2>3. CASE storing[c] = "failed"
    <3>1. stage'[c] = "outcome"
      BY <1>1, <1>7, <2>3 DEF Loaded, Finish, Stage
    <3> QED
      BY <2>1, <3>1 DEF HeldIsActive, At, RetiringAt, SavingAt
  <2> QED
    BY <1>7, <2>2, <2>3 DEF Loaded
<1>8. CASE Planned(c) \/ LiveRead(c) \/ Driven(c)
  <2>1. /\ \/ stage[c] = "probing" /\ job[c] = "apply"
           \/ stage[c] \in {"reading", "driving"}
        /\ storing[c] = "idle" /\ held' = held
    BY <1>3, <1>8
    DEF Planned, LiveRead, Driven, storeVars, BeginRetire, InStore
  <2>2. held[c] = active /\ active \in Snapshots
    BY <2>1 DEF HeldIsActive
  <2>3. storing'[c] \in {"idle", "reload"}
    BY <1>1, <1>8, <2>1 DEF Planned, LiveRead, Driven, storeVars, BeginRetire, GoTo
  <2> QED
    BY <1>4, <2>1, <2>2, <2>3 DEF HeldIsActive, SavingAt
<1>9. CASE Saved(c) \/ Retired(c) \/ RetirementTold(c) \/ Finished(c)
  <2>1. storing'[c] = "idle" /\ stage'[c] \in {"ended", "outcome", "telling"}
    BY <1>1, <1>3, <1>9
    DEF Saved, Retired, RetirementTold, Finished, End, Finish, Stage, Return, GoTo, storeVars,
        InStore
  <2> QED
    BY <2>1 DEF HeldIsActive, At, RetiringAt, SavingAt
<1> QED
  BY <1>4, <1>5, <1>6, <1>7, <1>8, <1>9 DEF Answer

\* What an apply begins with leads to REST, and back to the snapshot.
LEMMA PlannedIsOurs ==
  ASSUME Inductive, FilesInductive, NEW c \in Commands, AloneWith(c), Planned(c)
  PROVE  DrivesOurs(c)'
<1> DEFINE p == plan(CapabilitiesOf(seen[c]))
           steps == ApplySteps(p.changes, held[c])
           found == seen[c]
<1>1. /\ stage[c] = "probing" /\ job[c] = "apply" /\ drive[c] = IdleDrive /\ boot' = boot
  BY PartsFollowStage DEF Planned, Finish, GoOnTo
<1>2. CASE UNCHANGED drive
  BY <1>1, <1>2 DEF DrivesOurs, Driving, IdleDrive
<1>3. CASE p.status = "Ready" /\ AcceptsPlan(p.changes, held[c]) /\ Begin(c, "check", steps)
  <2>1. SoundApply(steps, held[c], found)
    BY <1>3, ApplyStepsSound
  <2>2. drive'[c] = [step |-> "check", steps |-> steps, at |-> 1, broken |-> FALSE]
    BY <1>3, BeginBegins
  <2>3. drive'[c].step = "check" /\ drive'[c].steps = steps
    BY <2>2
  <2>4. boot \in Hosts /\ \A f \in Files : Ours(f, host[f])
    BY RestLifecycleAssumption DEF Inductive, LifeTypeOK, AloneWith, Recoverable
  <2>5. \A f \in Files : found[f] \in {None, host[f]}
    BY DEF FilesInductive, FilesAgree, SeenIsTrue, AloneWith
  <2>6. \A f \in Files : Ours(f, held[c].host[f])
    <3>1. held[c] \in Snapshots /\ IsEarlier(held[c])
      BY <1>1 DEF AloneWith, HeldIsActive, Recoverable
    <3>2. held[c].host \in Origins
      BY <3>1 DEF IsEarlier
    <3> QED
      BY <2>4, <3>2, OriginsAre
  <2> HIDE DEF steps, p, found
  <2>7. ASSUME NEW i \in DOMAIN steps PROVE Ours(steps[i].file, steps[i].back)
    BY <2>1, <2>6 DEF SoundApply
  <2>8. ASSUME NEW i \in DOMAIN steps PROVE Ours(steps[i].file, steps[i].target)
    <3>1. CASE steps[i].file = "governor" /\ steps[i].target = RestGovernor
      BY <2>4, <3>1, RestedIs DEF Ours
    <3>2. CASE steps[i].file = "max" /\ steps[i].target = RestTarget(HwMin, HwMax)
               /\ found["max"] > RestTarget(HwMin, HwMax)
      <4>1. found["max"] # None
        BY <2>1, <3>2 DEF SoundApply
      <4>2. found["max"] = host["max"]
        BY <2>5, <4>1 DEF Files
      <4>3. host["max"] \in {boot["max"], Rested(boot)["max"]}
        BY <2>4 DEF Ours, Files
      <4>4. RestTarget(HwMin, HwMax) = Rested(boot)["max"]
        BY <2>4, <3>2, <4>2, <4>3, TargetIsOurs
      <4> QED
        BY <3>2, <4>4 DEF Ours
    <3> QED
      BY <2>1, <3>1, <3>2 DEF SoundApply
  <2> QED
    BY <1>1, <2>3, <2>7, <2>8, SettingsStay DEF DrivesOurs, File
<1> QED
  BY <1>2, <1>3 DEF Planned

\* What a restore begins with leads to the snapshot, and back to what was there.
LEMMA LiveReadIsOurs ==
  ASSUME Inductive, FilesInductive, NEW c \in Commands, AloneWith(c), LiveRead(c)
  PROVE  DrivesOurs(c)'
<1> DEFINE steps == RestoreSteps(held[c], seen[c])
<1>1. stage[c] = "reading" /\ drive[c] = IdleDrive /\ boot' = boot
  BY PartsFollowStage DEF LiveRead, Finish, GoOnTo
<1>2. CASE UNCHANGED drive
  BY <1>1, <1>2 DEF DrivesOurs, Driving, IdleDrive
<1>3. CASE None \notin {seen[c][f] : f \in Files} /\ Begin(c, "write", steps)
  <2>1. SoundRestore(steps, held[c], seen[c])
    BY RestoreStepsSound
  <2>2. drive'[c] = [step |-> "write", steps |-> steps, at |-> 1, broken |-> FALSE]
    BY <1>3, BeginBegins
  <2>3. drive'[c].step = "write" /\ drive'[c].steps = steps
    BY <2>2
  <2>4. boot \in Hosts /\ \A f \in Files : Ours(f, host[f])
    BY RestLifecycleAssumption DEF Inductive, LifeTypeOK, AloneWith, Recoverable
  <2>5. \A f \in Files : seen[c][f] = host[f]
    BY <1>3 DEF FilesInductive, FilesAgree, SeenIsTrue, AloneWith
  <2>6. \A f \in Files : Ours(f, held[c].host[f])
    <3>1. held[c] \in Snapshots /\ IsEarlier(held[c])
      BY <1>1 DEF AloneWith, HeldIsActive, Recoverable
    <3>2. held[c].host \in Origins
      BY <3>1 DEF IsEarlier
    <3> QED
      BY <2>4, <3>2, OriginsAre
  <2> HIDE DEF steps
  <2>7. \A i \in DOMAIN steps : Ours(steps[i].file, steps[i].target)
                               /\ Ours(steps[i].file, steps[i].back)
    BY <2>1, <2>4, <2>5, <2>6 DEF SoundRestore
  <2> QED
    BY <1>1, <2>3, <2>7, SettingsStay DEF DrivesOurs, File
<1> QED
  BY <1>2, <1>3 DEF LiveRead

LEMMA AnswerAlone ==
  ASSUME Inductive, FilesInductive, NEW c \in Commands, AloneWith(c), Answer(c)
  PROVE  GoesAlone /\ AloneWith(c)'
<1>1. /\ HeldIsActive(c)' /\ storing'[c] \notin {"write", "sync", "withdraw"}
      /\ UNCHANGED <<host, active, older, clashed, boot, disturbed>>
  BY AnswerKeepsHeld DEF AloneWith
<1>2. SavesOurs(c)'
  BY <1>1 DEF SavesOurs, At
<1>3. Recoverable'
  BY <1>1, RecoverableStays DEF AloneWith
<1>4. DrivesOurs(c)'
  <2>1. CASE Planned(c) \/ LiveRead(c)
    BY <2>1, PlannedIsOurs, LiveReadIsOurs
  <2>2. CASE Driven(c)
    BY <2>2 DEF Driven, DrivesOurs, Driving, IdleDrive, Inductive, DriverTypeOK
  <2>3. CASE UNCHANGED drive
    BY <1>1, <2>3, SettingsStay DEF AloneWith, DrivesOurs, File, Driving
  <2> QED
    BY <2>1, <2>2, <2>3
    DEF Answer, IntentRecorded, Loaded, Probed, Saved, Retired, RetirementTold, Finished, driverVars
<1> QED
  BY <1>1, <1>2, <1>3, <1>4 DEF GoesAlone, AloneWith

LEMMA StepAlone ==
  ASSUME Inductive, FilesInductive, NEW c \in Commands, AloneWith(c), CommandStep(c),
         \A d \in Commands \ {c} : ~Running(d), ~shortened'
  PROVE  GoesAlone /\ AloneWith(c)'
<1>1. CASE Start(c)
  <2>1. UNCHANGED <<host, active, older, clashed, boot, disturbed, drive, storing>>
    BY <1>1 DEF Start, StartAs, storeVars, files, disk, past, driverVars
  <2>2. storing'[c] = "idle" /\ drive'[c].step = "idle"
    BY <1>1, <2>1, PartsFollowStage DEF Start, StartAs, InStore
  <2>3. stage'[c] = "intent" \/ (stage'[c] = "probing" /\ job'[c] = "save")
    BY <1>1 DEF Start, StartAs, Stage, Inductive, LifeTypeOK
  <2>4. HeldIsActive(c)' /\ SavesOurs(c)' /\ DrivesOurs(c)'
    BY <2>2, <2>3 DEF HeldIsActive, SavesOurs, DrivesOurs, Driving, At, RetiringAt, SavingAt
  <2>5. Recoverable'
    BY <2>1, RecoverableStays DEF AloneWith
  <2> QED
    BY <2>1, <2>4, <2>5 DEF GoesAlone, AloneWith
<1>2. CASE Answer(c)
  BY <1>2, AnswerAlone
<1>3. CASE Killed(c)
  <2>1. UNCHANGED <<host, active, older, clashed, boot, disturbed>>
    BY <1>3 DEF Killed, StoreDies, files, disk, past, noise
  <2>2. storing'[c] = "idle" /\ stage'[c] = "dead" /\ drive'[c].step = "idle"
    BY <1>3
    DEF Killed, StoreDies, Stage, Inductive, StoreInductive, StoreTypeOK, LifeTypeOK,
        DriverTypeOK, IdleDrive
  <2>3. HeldIsActive(c)' /\ SavesOurs(c)' /\ DrivesOurs(c)'
    BY <2>2 DEF HeldIsActive, SavesOurs, DrivesOurs, Driving, At, RetiringAt, SavingAt
  <2>4. Recoverable'
    BY <2>1, RecoverableStays DEF AloneWith
  <2> QED
    BY <2>1, <2>3, <2>4 DEF GoesAlone, AloneWith
<1>4. CASE UNCHANGED <<host, drive, storeVars, lifeVars, disturbed>>
  <2>1. UNCHANGED <<host, active, older, writer, clashed, boot, disturbed, drive, storing, held>>
        /\ UNCHANGED <<stage, job>>
    BY <1>4 DEF storeVars, files, disk, past, lifeVars
  <2>2. HeldIsActive(c)'
    BY <2>1 DEF AloneWith, HeldIsActive, At
  <2>3. SavesOurs(c)' /\ DrivesOurs(c)'
    BY <2>1, SettingsStay DEF AloneWith, SavesOurs, DrivesOurs, File, Driving, At
  <2>4. Recoverable'
    BY <2>1, RecoverableStays DEF AloneWith
  <2> QED
    BY <2>1, <2>2, <2>3, <2>4 DEF GoesAlone, AloneWith
<1>5. CASE Drives(c)
  <2>1. disturbed' = {}
    BY <1>5 DEF Drives, Disturbs, AloneWith
  <2> QED
    BY <1>5, <2>1, DriveAlone DEF Drives
<1>6. CASE Stores(c)
  <2>1. (At(c, "reload") => held'[c] = held[c]) => disturbed' = {}
    BY <1>6 DEF Stores, AloneWith
  <2> QED
    BY <1>6, <2>1, StoreAlone DEF Stores
<1>7. CASE LookStep(c) \/ Tells(c)
  BY <1>4, <1>7 DEF LookStep, Look, Tells, driverVars, noise
<1>8. CASE SystemCallFails(c)
  <2>1. UNCHANGED lifeVars /\ disturbed' = {} /\ UNCHANGED disturbed /\ Shortens
    BY <1>8 DEF SystemCallFails, AloneWith
  <2>2. CASE LookFails(c) /\ UNCHANGED <<storeVars, auditVars>>
    BY <1>4, <2>1, <2>2 DEF LookFails
  <2>3. CASE DriveFault(c) /\ UNCHANGED <<storeVars, auditVars>>
    BY <2>1, <2>3, DriveAlone
  <2>4. CASE StoreFault(c) /\ UNCHANGED <<driverVars, auditVars>>
    BY <2>1, <2>4, StoreAlone
  <2>5. CASE UNCHANGED <<storeVars, driverVars>>
    BY <1>4, <2>1, <2>5 DEF driverVars
  <2> QED
    BY <1>8, <2>2, <2>3, <2>4, <2>5 DEF SystemCallFails
<1> QED
  BY <1>1, <1>2, <1>3, <1>5, <1>6, <1>7, <1>8 DEF CommandStep, Work

-------------------------------------------------------------------------------
(* Every step, with one command at a time *)

\* Who is alone afterwards was alone before.
LEMMA AloneBefore ==
  ASSUME FilesInductive, [Next]_vars, Alone'
  PROVE  Alone /\ ~Outside
<1>1. outside \in Nat
  BY DEF FilesInductive
<1>2. CASE UNCHANGED <<outside, overlapped, shortened>>
  BY <1>1, <1>2 DEF Alone, Outside
<1>3. CASE Outside
  BY <1>1, <1>3 DEF Alone, Outside
<1>4. ASSUME NEW c \in Commands, Start(c) PROVE Alone /\ ~Outside
  <2>1. /\ overlapped' = (overlapped \/ \E d \in Commands : Running(d))
        /\ outside' = outside /\ shortened' = shortened
    BY <1>4 DEF Start, StartAs
  <2>2. ~overlapped
    BY <2>1, Zenon DEF Alone
  <2> QED
    BY <1>1, <2>1, <2>2 DEF Alone, Outside
<1>5. ASSUME Shortens, UNCHANGED <<outside, overlapped>> PROVE Alone /\ ~Outside
  <2>1. ~shortened
    BY <1>5, Zenon DEF Shortens, Alone
  <2> QED
    BY <1>1, <1>5, <2>1 DEF Alone, Outside
<1>6. ASSUME NEW c \in Commands, Work(c) \/ Answer(c) \/ Killed(c)
      PROVE  UNCHANGED <<outside, overlapped, shortened>>
  <2>1. CASE Work(c) \/ Killed(c)
    BY <2>1 DEF Work, LookStep, Drives, Stores, Tells, Killed, noise
  <2>2. CASE Answer(c)
    BY <2>2 DEF Answer, IntentRecorded, Loaded, Probed, Saved, Planned, LiveRead, Driven, Retired,
       RetirementTold, Finished, noise
  <2> QED
    BY <1>6, <2>1, <2>2
<1> QED
  BY <1>2, <1>3, <1>4, <1>5, <1>6 DEF Next, SystemCallFails, PowerLoss, noise, vars

\* And with one command at a time, whose step it is works by itself.
LEMMA WorksByItself ==
  ASSUME Inductive, AloneOK, Alone, Alone', NEW c \in Commands, CommandStep(c)
  PROVE  \A d \in Commands \ {c} : ~Running(d)
<1>1. CASE Start(c)
  BY <1>1 DEF Start, StartAs, Alone
<1>2. CASE ~Start(c)
  BY <1>2, OnlyAtWork DEF AloneOK
<1> QED
  BY <1>1, <1>2

\* A power loss brings back what was there before, of a host that is not in REST.
LEMMA PowerLossAlone ==
  ASSUME Inductive, AloneOK, Alone, Alone', PowerLoss
  PROVE  AloneOK' /\ boot' = boot /\ host' = boot
<1>1. UNCHANGED <<boot, disturbed, clashed>> /\ host' = boot /\ older' = {}
  BY DEF PowerLoss, StorePowerLoss
<1>2. \A c \in Commands : ~Running(c)' /\ storing'[c] = "idle" /\ drive'[c].step = "idle"
  BY DEF PowerLoss, StorePowerLoss, Running, Inductive, LifeTypeOK, IdleDrive
<1>3. \A c \in Commands : HeldIsActive(c)' /\ SavesOurs(c)' /\ DrivesOurs(c)'
  BY <1>2
  DEF HeldIsActive, SavesOurs, DrivesOurs, Driving, Running, RetiringAt, SavingAt, At
<1>4. IsEarlier(active')
  <2>1. shortened' = (shortened \/ (active' \in Snapshots
                                     /\ active' \notin {active} \union {e[1] : e \in older}))
        /\ ~shortened'
    BY DEF PowerLoss, Shortens, Alone
  <2>2. ~(active' \in Snapshots /\ active' \notin {active} \union {e[1] : e \in older})
    BY <2>1, Zenon
  <2> QED
    BY <2>2 DEF AloneOK, Recoverable, IsEarlier
<1>5. boot \in Origins /\ \A f \in Files : Ours(f, boot[f])
  BY DEF Origins, Ours
<1>6. Recoverable'
  BY <1>1, <1>4, <1>5, SettingsStay DEF Recoverable
<1> QED
  BY <1>1, <1>2, <1>3, <1>6 DEF AloneOK

LEMMA StepKeepsAlone ==
  ASSUME Inductive, FilesInductive, AloneOK, Alone, Alone', NEW c \in Commands, CommandStep(c)
  PROVE  AloneOK' /\ GoesAlone
<1>1. \A d \in Commands \ {c} : ~Running(d)
  BY WorksByItself
<1>2. AloneWith(c) /\ ~shortened'
  BY DEF AloneOK, AloneWith, Alone
<1>3. GoesAlone /\ AloneWith(c)'
  BY <1>1, <1>2, StepAlone
<1>4. \A d \in Commands \ {c} :
        ~Running(d)' /\ HeldIsActive(d)' /\ SavesOurs(d)' /\ DrivesOurs(d)'
  BY <1>1, OthersRestOn, RestingHasNothing
<1> QED
  BY <1>3, <1>4 DEF AloneOK, AloneWith

LEMMA StutterAlone ==
  ASSUME AloneOK, Alone, UNCHANGED vars
  PROVE  AloneOK' /\ GoesAlone
<1>1. /\ UNCHANGED <<host, active, older, writer, clashed, boot, disturbed, drive, storing, held>>
      /\ UNCHANGED <<stage, job>>
  BY DEF vars, storeVars, files, disk, past, driverVars, lifeVars, noise
<1>2. \A c \in Commands : HeldIsActive(c)' /\ SavesOurs(c)' /\ DrivesOurs(c)'
  <2> TAKE c \in Commands
  <2>1. HeldIsActive(c)'
    BY <1>1 DEF AloneOK, HeldIsActive, At
  <2> QED
    BY <1>1, <2>1, SettingsStay DEF AloneOK, SavesOurs, DrivesOurs, File, Driving, At
<1>3. Recoverable'
  BY <1>1, RecoverableStays DEF AloneOK
<1>4. \A c, d \in Commands : (Running(c) /\ Running(d) => c = d)'
  BY <1>1 DEF AloneOK, Running
<1> QED
  BY <1>1, <1>2, <1>3, <1>4 DEF AloneOK, GoesAlone

LEMMA NextKeepsAlone ==
  ASSUME Inductive, FilesInductive, AloneOK, [Next]_vars, Alone'
  PROVE  AloneOK' /\ (GoesAlone \/ (PowerLoss /\ boot' = boot /\ host' = boot))
<1>1. Alone /\ ~Outside
  BY AloneBefore
<1> QED
  BY <1>1, StepKeepsAlone, PowerLossAlone, StutterAlone DEF Next, CommandStep

LEMMA InitAlone == Init => AloneOK
<1> SUFFICES ASSUME Init PROVE AloneOK
  OBVIOUS
<1>1. /\ stage = [c \in Commands |-> "new"] /\ storing = [c \in Commands |-> "idle"]
      /\ drive = [c \in Commands |-> IdleDrive]
      /\ disturbed = {} /\ older = {} /\ active \in {None} \union Earlier /\ ~clashed
      /\ boot \in Hosts
      /\ host \in Origins \/ (active # None /\ host = Rested(boot))
  BY RestLifecycleAssumption DEF Init, StoreInit, DriverInit
<1>2. active # None => active \in Snapshots /\ active.host \in Origins
  <2>1. active # None => active \in Earlier
    BY <1>1
  <2>2. Earlier \subseteq Snapshots
    BY <1>1, OriginsAre, RestLifecycleAssumption DEF Earlier
  <2> QED
    BY <2>1, <2>2 DEF Earlier
<1>3. \A f \in Files : Ours(f, host[f])
  <2>1. CASE host \in Origins
    BY <1>1, <2>1, OriginsAre
  <2>2. CASE host = Rested(boot)
    BY <2>2 DEF Ours
  <2> QED
    BY <1>1, <2>1, <2>2
<1>4. Recoverable
  BY <1>1, <1>2, <1>3, RecoveryStoreAssumption DEF Recoverable, IsEarlier
<1>5. \A c \in Commands : ~Running(c) /\ HeldIsActive(c) /\ SavesOurs(c) /\ DrivesOurs(c)
  BY <1>1
  DEF Running, HeldIsActive, SavesOurs, DrivesOurs, Driving, IdleDrive, At, RetiringAt, SavingAt
<1> QED
  BY <1>1, <1>4, <1>5 DEF AloneOK

LEMMA LifecycleAlone == Spec => [](Inductive /\ FilesInductive /\ AloneOK)
<1>1. Inductive /\ FilesInductive /\ AloneOK /\ [Next]_vars => AloneOK'
  BY NextKeepsAlone DEF AloneOK
<1> QED
  BY <1>1, InitAlone, LifecycleFiles, PTL DEF Spec

-------------------------------------------------------------------------------
(* The recovery protocol *)

\* What is recorded, when one command at a time is at work, is how the kernel starts.
LEMMA RecordIsOrigin ==
  ASSUME boot \in Hosts, Recoverable
  PROVE  /\ Recorded = IF active \in Snapshots THEN boot ELSE None
         /\ host \in Origins => AsBoot(host) = boot
<1>1. active \in Snapshots => AsBoot(active.host) = boot
  BY OriginsAre DEF Recoverable, IsEarlier, AsBoot
<1> QED
  BY <1>1, OriginsAre DEF Recorded, AsBoot

LEMMA RecordIsOriginNext ==
  ASSUME boot \in Hosts, boot' = boot, Recoverable'
  PROVE  /\ Recorded' = IF active' \in Snapshots THEN boot ELSE None
         /\ host' \in Origins => AsBoot(host)' = boot
<1>1. \A h \in Origins : CountsAsBoot(h)
  BY OriginsAre
<1>2. \A h : CountsAsBoot(h)' <=> CountsAsBoot(h)
  BY DEF CountsAsBoot
<1>3. \A h \in Origins : AsBoot(h)' = boot
  BY <1>1, <1>2 DEF AsBoot
<1>4. active' \in Snapshots => active'.host \in Origins
  BY SettingsStay DEF Recoverable, IsEarlier
<1> QED
  BY <1>1, <1>2, <1>3, <1>4 DEF Recorded, AsBoot

Steps == [Alone' => Recovery!Next \/ (PowerLoss /\ Recovery!Restart)]_<<AsBoot(host), Recorded, boot>>

LEMMA StepKeepsPromise ==
  ASSUME Inductive, FilesInductive, AloneOK, [Next]_vars, Alone'
  PROVE  Steps
<1>1. AloneOK' /\ (GoesAlone \/ (PowerLoss /\ boot' = boot /\ host' = boot)) /\ Alone
  BY NextKeepsAlone, AloneBefore
<1>2. boot \in Hosts /\ None \notin Hosts /\ boot' = boot /\ Recoverable /\ Recoverable'
  BY <1>1, RestLifecycleAssumption DEF Inductive, LifeTypeOK, AloneOK, GoesAlone
<1>3. /\ Recorded = IF active \in Snapshots THEN boot ELSE None
      /\ Recorded' = IF active' \in Snapshots THEN boot ELSE None
  BY <1>2, RecordIsOrigin, RecordIsOriginNext
<1>4. /\ active \notin Snapshots => AsBoot(host) = boot
      /\ active' \notin Snapshots => AsBoot(host)' = boot
  BY <1>2, RecordIsOrigin, RecordIsOriginNext, SettingsStay DEF Recoverable
<1>5. CASE host' = host
  <2>1. AsBoot(host)' = AsBoot(host)
    BY <1>2, <1>5 DEF AsBoot, CountsAsBoot
  <2>2. CASE active \in Snapshots /\ active' \in Snapshots
    BY <1>2, <1>3, <2>1, <2>2 DEF Steps
  <2>3. CASE active \notin Snapshots /\ active' \notin Snapshots
    BY <1>2, <1>3, <2>1, <2>3 DEF Steps
  <2>4. CASE active \notin Snapshots /\ active' \in Snapshots
    BY <1>2, <1>3, <1>4, <2>1, <2>4 DEF Steps, Recovery!Next, Recovery!Save
  <2>5. CASE active \in Snapshots /\ active' \notin Snapshots
    BY <1>2, <1>3, <1>4, <2>1, <2>5 DEF Steps, Recovery!Next, Recovery!Retire
  <2> QED
    BY <2>2, <2>3, <2>4, <2>5
<1>6. CASE active \in Snapshots /\ active' = active
  BY <1>2, <1>3, <1>6 DEF Steps, Recovery!Next, Recovery!Write
<1>7. CASE PowerLoss /\ host' = boot
  <2>1. boot \in Origins
    BY DEF Origins
  <2>2. AsBoot(host)' = boot
    BY <1>2, <1>7, <2>1, RecordIsOriginNext
  <2> QED
    BY <1>2, <1>3, <1>7, <2>2 DEF Steps, Recovery!Restart
<1> QED
  BY <1>1, <1>5, <1>6, <1>7 DEF GoesAlone

(***************************************************************************)
(* One command at a time, the commands that write follow the recovery      *)
(* protocol, for every number of commands, failing calls and power losses, *)
(* every set of settings and every tolerance: a driver step is a Write,    *)
(* the write of the snapshot a Save, its removal a Retire, and only a      *)
(* power loss a Restart (main.rs:60-72, 256-318).  Nothing is said of what *)
(* comes after a cut snapshot file that decodes.                           *)
(***************************************************************************)
THEOREM LifecycleKeepsPromise == Spec => KeepsPromise
<1>1. Init => Recovery!Init
  <2> SUFFICES ASSUME Init PROVE Recovery!Init
    OBVIOUS
  <2>1. Recoverable /\ boot \in Hosts /\ None \notin Hosts
    <3>1. Alone
      BY DEF Init, Alone
    <3> QED
      BY <3>1, InitAlone, RestLifecycleAssumption DEF AloneOK, Init
  <2>2. /\ Recorded = IF active \in Snapshots THEN boot ELSE None
        /\ host \in Origins => AsBoot(host) = boot
    BY <2>1, RecordIsOrigin
  <2> QED
    BY <2>1, <2>2 DEF Recoverable, Recovery!Init
<1>2. Inductive /\ FilesInductive /\ AloneOK /\ [Next]_vars => Steps
  BY StepKeepsPromise DEF Steps
<1> QED
  BY <1>1, <1>2, LifecycleAlone, PTL DEF Spec, KeepsPromise, Steps
===============================================================================
