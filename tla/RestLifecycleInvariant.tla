------------------------ MODULE RestLifecycleInvariant -----------------------
(***************************************************************************)
(* The inductive invariant behind the proofs about RestLifecycle: the      *)
(* types, what the stage of a command says about its job and the snapshot  *)
(* at hand, and which events the sinks have of it.                         *)
(***************************************************************************)
EXTENDS RestLifecycle

Values == Governors \union Floors \union Ceilings

\* Changes that may be made and undone.
Changes ==
  {s \in [file : Files, expect : Values \union {None}, target : Values, back : Values] :
     Fits(s.file, s.target) /\ Fits(s.file, s.back)}

DriveSteps == {"idle", "check", "expect", "write", "verify", "undo", "recheck"} \union OverDrive

DriverTypeOK ==
  /\ host \in Hosts
  /\ seen \in [Commands -> [Files -> Values \union {None}]]
  /\ \A c \in Commands, f \in Files : seen[c][f] = None \/ Fits(f, seen[c][f])
  /\ looked \in [Commands -> 0..Len(Looking)]
  /\ drive \in [Commands -> [step : DriveSteps, steps : Seq(Changes), at : Nat, broken : BOOLEAN]]
  /\ \A c \in Commands :
       IF Driving(c, "idle") THEN drive[c] = IdleDrive ELSE drive[c].at \in 1..Len(drive[c].steps)

LifeTypeOK ==
  /\ boot \in Boots
  /\ job \in [Commands -> Jobs \union {None}]
  /\ stage \in [Commands -> Stages]
  /\ error \in [Commands -> BOOLEAN]
  /\ event \in [Commands -> [kind : Kinds \union {None}, next : 0..(Sinks + 1), failed : BOOLEAN]]
  /\ disturbed \subseteq Commands

\* The stages in which a command records something, and those in which it is in the store.
Recording == {"intent", "telling", "outcome"}
InStore   == {"loading", "saving", "retiring"}

StageMatches(c) ==
  /\ stage[c] = "driving" <=> ~Driving(c, "idle")
  /\ stage[c] \in Recording <=> event[c].kind # None
  /\ stage[c] \in InStore <=> ~At(c, "idle")

\* Which job is in which stage, and what it records there.
JobMatches(c) ==
  /\ stage[c] \in {"intent", "loading", "driving", "outcome"} => job[c] \in {"apply", "restore"}
  /\ stage[c] \in {"reading", "retiring", "telling"} => job[c] = "restore"
  /\ stage[c] = "saving" => job[c] = "save"
  /\ stage[c] = "intent" => event[c].kind = "intent"
  /\ stage[c] = "telling" => event[c].kind = "retired"
  /\ stage[c] = "outcome" =>
       event[c].kind = "executed" \/ (event[c].kind = "failed" /\ error[c])

\* A command that has loaded the snapshot has it at hand when it plans from it.
HasLoaded(c) ==
  /\ stage[c] = "loading" => storing[c] \in {"load", "done", "failed"}
  /\ \/ stage[c] = "loading" /\ At(c, "done")
     \/ stage[c] = "probing" /\ job[c] = "apply"
     \/ stage[c] = "reading"
     => held[c] \in Snapshots

\* The sinks that were tried, if none failed, have the event.
Heard(c) ==
  event[c].kind # None /\ ~event[c].failed =>
    \A sink \in 1..Sinks : sink < event[c].next => <<c, event[c].kind, sink>> \in delivered

\* A command is past its intent only when every sink has it; likewise a restore that is
\* about to report success is past the retirement.
Beyond(c) ==
  /\ \/ stage[c] \in {"loading", "reading", "driving", "retiring", "telling", "outcome"}
     \/ stage[c] = "probing" /\ job[c] = "apply"
     => Told(c, "intent")
  /\ stage[c] = "outcome" /\ event[c].kind = "executed" /\ job[c] = "restore" =>
       Told(c, "retired")

CommandOK(c) ==
  StageMatches(c) /\ JobMatches(c) /\ HasLoaded(c) /\ Heard(c) /\ Beyond(c) /\ SuccessToldOf(c)

Inductive ==
  /\ StoreInductive /\ DriverTypeOK /\ LifeTypeOK
  /\ \A c \in Commands : CommandOK(c)

-------------------------------------------------------------------------------
(* What a command that nobody disturbs knows of the files *)

\* What it has read is what they hold.
SeenIsTrue(c) ==
  /\ Reads(c) \/ seen[c] = Unseen
  /\ c \notin disturbed => \A f \in Files : seen[c][f] \in {None, host[f]}

\* What a file held when the change of it was planned.
Before(step) == IF step.expect = None THEN step.back ELSE step.expect

\* No file is changed twice, and what it held counts as what a rollback puts back.
StepsSound(c) ==
  LET steps == drive[c].steps
  IN /\ \A i, j \in DOMAIN steps : steps[i].file = steps[j].file => i = j
     /\ \A i \in DOMAIN steps : Matches(steps[i].file, Before(steps[i]), steps[i].back)

\* A restore expects nothing, writes what the snapshot says, and the ceiling first.
RestoresSnapshot(c) ==
  LET steps == drive[c].steps
  IN job[c] = "restore" =>
       /\ drive[c].step \notin {"check", "expect"}
       /\ \A i \in DOMAIN steps :
            /\ steps[i].expect = None /\ steps[i].target = held[c].host[steps[i].file]
            /\ steps[i].file = "max" => i = 1
            /\ steps[i].file = "min" => i = 1 \/ steps[1].file = "max"

File(c, i)      == drive[c].steps[i].file
Untouched(c, i) == host[File(c, i)] = Before(drive[c].steps[i])
Written(c, i)   == Holds(File(c, i), drive[c].steps[i].target)
Undone(c, i)    == Holds(File(c, i), drive[c].steps[i].back)

\* Which changes have reached their files.
DriverIsAt(c) ==
  LET step == drive[c].step
      at   == drive[c].at
  IN \A i \in DOMAIN drive[c].steps :
       /\ \/ step = "check"
          \/ step \in {"expect", "write"} /\ i >= at
          \/ step = "verify" /\ i > at
          => Untouched(c, i)
       /\ \/ step \in {"expect", "write", "verify"} /\ i < at
          \/ step = "done"
          => Written(c, i)
       /\ \/ step \in {"undo", "recheck"} /\ ~drive[c].broken /\ i > at
          \/ step = "rolledback"
          => Undone(c, i)

\* A restore leaves alone what counts as restored, and all of it once it is done.
OthersRestored(c) ==
  (job[c] = "restore" /\ ~Driving(c, "idle")) \/ storing[c] \in RetiringAt \ {"syncroot"} =>
    /\ held[c] \in Snapshots
    /\ \A f \in Files : (\A i \in DOMAIN drive[c].steps : File(c, i) # f) =>
         Holds(f, held[c].host[f])

\* Without a fault what a restore has written is there to the unit; it fails only at its first
\* write, and only where the limits exclude it.
RestoreIsAt(c) ==
  LET step == drive[c].step
      at   == drive[c].at
  IN faults = 0 /\ job[c] = "restore" =>
       /\ step \in {"write", "verify"} =>
            \A i \in DOMAIN drive[c].steps : i < at \/ (i = at /\ step = "verify") =>
              host[File(c, i)] = drive[c].steps[i].target
       /\ step \in {"undo", "recheck", "rolledback", "torn"} =>
            /\ at = 1 /\ host[File(c, 1)] = drive[c].steps[1].back
            /\ Excludes(held[c])

\* What holds of the files, of a command that is not disturbed.
FilesAgree(c) ==
  /\ SeenIsTrue(c) /\ StepsSound(c) /\ RestoresSnapshot(c)
  /\ c \notin disturbed => DriverIsAt(c) /\ OthersRestored(c) /\ RestoreIsAt(c)

FilesInductive == faults \in Nat /\ outside \in Nat /\ \A c \in Commands : FilesAgree(c)

-------------------------------------------------------------------------------
(* One command at a time *)

\* A value of a file when the host is in REST or not.
Ours(f, value) == value \in {boot[f], Rested(boot)[f]}

IsEarlier(text) == text \in Snapshots => text.host \in Origins

\* The snapshot that a command works with is the active one, of a host that was not in
\* REST; a save has that of the host.
HeldIsActive(c) ==
  /\ \/ stage[c] = "loading" /\ At(c, "done")
     \/ stage[c] = "probing" /\ job[c] = "apply"
     \/ stage[c] \in {"reading", "driving"}
     \/ storing[c] \in RetiringAt \ {"syncroot"}
     => held[c] = active /\ active \in Snapshots
  /\ storing[c] \in SavingAt => held[c].host = host

\* A command saves a host that is not in REST, and the snapshot file is its own.
SavesOurs(c) ==
  /\ storing[c] \in {"write", "sync", "withdraw"} => host \in Origins /\ writer = c
  /\ At(c, "sync") => active = held[c]

\* What a command writes to the files, or puts back.
DrivesOurs(c) ==
  ~Driving(c, "idle") =>
    \A i \in DOMAIN drive[c].steps :
      /\ Ours(File(c, i), drive[c].steps[i].target)
      /\ Ours(File(c, i), drive[c].steps[i].back)

\* Every snapshot that is or may come back is of a host that is not in REST, and the host
\* is in REST, or half in it, only while one is active.
Recoverable ==
  /\ \A f \in Files : Ours(f, host[f])
  /\ IsEarlier(active) /\ \A e \in older : IsEarlier(e[1])
  /\ host \notin Origins => active \in Snapshots

AloneOK ==
  Alone =>
    /\ ~clashed
    /\ \A c, d \in Commands : Running(c) /\ Running(d) => c = d
    /\ disturbed = {}
    /\ Recoverable
    /\ \A c \in Commands : HeldIsActive(c) /\ SavesOurs(c) /\ DrivesOurs(c)
===============================================================================
