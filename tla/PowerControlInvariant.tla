------------------------- MODULE PowerControlInvariant -------------------------
(***************************************************************************)
(* The inductive invariant behind the properties of PowerControl that hold *)
(* while commands do not overlap.  It says what the one command that runs  *)
(* knows: that its snapshot still describes the lead policy, that its plan *)
(* is what was planned, how far its driver has come, and what a restore    *)
(* has reached when it retires the record.  Two sections go further: what  *)
(* the audit trail then tells of a host of several policies, and, however  *)
(* the commands overlap, the values that can be anywhere.                  *)
(***************************************************************************)
EXTENDS PowerControl

Acts(c) == plan[c].actions

InPlan(c, file) == \E i \in DOMAIN Acts(c) : Acts(c)[i].file = file

\* What the active record says of a file.
Wanted(file) ==
  IF file = "scaling_governor" THEN original.governor ELSE original.scaling_max_khz

\* Policy q holds the expected, or the target, value of the i-th action.
HasExpected(c, i, q) == sysfs[Acts(c)[i].file][q] = Acts(c)[i].expected
HasTarget(c, i, q)   == sysfs[Acts(c)[i].file][q] = Acts(c)[i].target

\* Whether q is the policy of one of the first k CPUs.
Covered(q, k) == \E j \in 1..k : PolicyOf[j] = q

\* Whether the driver's loops come to policy q, in the i-th action, before they
\* come to position p, and whether they have come to it when they are there.
Past(p, i, q)    == i < p.action \/ (i = p.action /\ Covered(q, p.cpu - 1))
Reached(p, i, q) == i < p.action \/ (i = p.action /\ Covered(q, p.cpu))

Planned == {"guard", "execute"}
Writing == {"write", "verify", "undo", "undone"}
Executing == {"driver", "drift", "outcome", "retire"} \cup Writing
BeforeWrites == {"ceiling", "database", "guard", "execute", "driver", "drift"}

-------------------------------------------------------------------------------

OneAtATime == \A c, d \in Commands : Running(c) /\ Running(d) => c = d

\* What a snapshot says of a file stays true until the driver writes that file.
SeenIsTrue(c) ==
  \A f \in Files :
    \/ pc[c] \in BeforeWrites /\ (pc[c] = "ceiling" => f = "scaling_governor")
    \/ pc[c] \in Executing /\ ~InPlan(c, f)
    => seen[c][f] \in {None, sysfs[f][Lead]}

\* A plan with actions rests on a record, and that of a restore leads to it.
PlanIsSound(c) ==
  /\ pc[c] \in Planned /\ blocked(plan[c]) => Acts(c) = <<>>
  /\ pc[c] \in Executing => ~blocked(plan[c])
  /\ pc[c] \in Planned \cup Executing /\ Acts(c) # <<>> => original # None
  /\ pc[c] \in Planned \cup Executing /\ op[c] = "restore" /\ ~blocked(plan[c]) =>
       /\ original # None
       /\ \A f \in Files : ~InPlan(c, f) => seen[c][f] = Wanted(f)
       /\ \A i \in DOMAIN Acts(c) : Acts(c)[i].target = Wanted(Acts(c)[i].file)

\* What the driver has left behind it, and what still lies before it.
DriverIsAt(c) ==
  /\ \A i \in DOMAIN Acts(c), q \in Policies :
       /\ pc[c] = "drift" /\ Past(at[c], i, q) => HasExpected(c, i, q)
       /\ pc[c] \in {"write", "verify"} /\ Past(at[c], i, q) => HasTarget(c, i, q)
       /\ pc[c] = "write" /\ ~Past(at[c], i, q) => HasExpected(c, i, q)
       /\ pc[c] = "verify" /\ ~Reached(at[c], i, q) => HasExpected(c, i, q)
       /\ pc[c] \in {"undo", "undone"} /\ ~failed[c] /\ ~Reached(at[c], i, q) =>
            HasExpected(c, i, q)
  /\ pc[c] \notin {"undo", "undone", "outcome", "retire", "retired"} => failed[c] = FALSE

\* What the result says is so, and a restore that retires the record is home.
ResultSoFar(c) ==
  /\ pc[c] \notin {"outcome", "retire", "retired"} => result[c] = NoResult
  /\ pc[c] = "outcome" =>
       \A i \in DOMAIN Acts(c), q \in Policies :
         /\ result[c].applied /\ ~result[c].error => HasTarget(c, i, q)
         /\ result[c].rolled_back => HasExpected(c, i, q)
  /\ pc[c] = "retire" =>
       original # None /\ \A f \in Files : sysfs[f][Lead] = baseline[f][Lead]

CommandSound(c) == SeenIsTrue(c) /\ PlanIsSound(c) /\ DriverIsAt(c) /\ ResultSoFar(c)

Inductive ==
  /\ TypeOK
  /\ OneAtATime
  /\ RecordIsOriginal
  /\ LeadRecoverable
  /\ \A c \in Commands : CommandSound(c)

-------------------------------------------------------------------------------
(* What the trail tells *)

Recorded(c, event) == \E i \in DOMAIN audit : audit[i].command = c /\ audit[i].event = event

\* A result that says that the rollback is incomplete.
Incomplete(r) == r.error /\ r.applied

\* The trail tells of a command that began and was never heard of again, or that could
\* not roll back.
Torn ==
  \/ \E c \in Commands : ~Running(c) /\ Recorded(c, "started") /\ ~Recorded(c, "outcome")
  \/ \E i \in DOMAIN audit : audit[i].event = "outcome" /\ Incomplete(audit[i].result)

\* A command has its intent on record before it acts, and its outcome when it is done.
TrailGoesAlong(c) ==
  /\ pc[c] \in Executing => Recorded(c, "started")
  /\ pc[c] \in {"retire", "retired"} => Recorded(c, "outcome")
  /\ pc[c] = "done" /\ Recorded(c, "started") => Recorded(c, "outcome")
  /\ pc[c] \in Executing \ {"retire"} => ~Recorded(c, "outcome")
  /\ pc[c] \in {"new", "governor", "ceiling", "database", "guard", "execute"} =>
       \A i \in DOMAIN audit : audit[i].command # c

\* The plan of an apply is the one that what it has seen calls for.
PlansRest(c) ==
  /\ pc[c] \in Planned \cup Executing => op[c] \in {"apply", "dry-run", "restore"}
  /\ pc[c] \in {"drift"} \cup Writing => op[c] # "dry-run"
  /\ pc[c] \in Planned \cup Executing /\ op[c] = "apply" /\ Acts(c) # <<>> =>
       LET cpu == SnapshotOf(seen[c])
           p == plan_changes(cpu, desired_state(cpu, "economize"), RecordOf(baseline))
       IN  Acts(c) = p.actions

\* The host as a driver found it, if it agreed with the plan, and as the plan wants it.
ActionOn(c, f) == Acts(c)[CHOOSE i \in DOMAIN Acts(c) : Acts(c)[i].file = f]
Before(c) ==
  [f \in Files |-> [p \in Policies |->
     IF InPlan(c, f) THEN ActionOn(c, f).expected ELSE sysfs[f][p]]]
After(c) ==
  [f \in Files |-> [p \in Policies |->
     IF InPlan(c, f) THEN ActionOn(c, f).target ELSE sysfs[f][p]]]

\* As it was found, or economized, and then it was alike where that made a difference.
Whole(state) ==
  \/ state = baseline
  \/ /\ state = Economized(baseline)
     /\ \A f \in Files : state[f] # baseline[f] =>
          \A p \in Policies : baseline[f][p] = baseline[f][Lead]

\* A driver is between two whole states of the host, or knows that it left it in neither.
Between(c) ==
  \/ pc[c] \in Writing
  \/ pc[c] = "outcome" /\ Incomplete(result[c])

HostSettled ==
  /\ original = None => sysfs = baseline
  /\ (\A c \in Commands : ~Between(c)) => Whole(sysfs)
  /\ \A c \in Commands : pc[c] \in Writing => Whole(Before(c)) /\ Whole(After(c))

AuditRecords ==
  [command : Commands, event : {"refused", "started", "outcome", "retired"},
   result : [applied : BOOLEAN, error : BOOLEAN, rolled_back : BOOLEAN]]

AuditTyped == audit \in Seq(AuditRecords)

TrailInductive ==
  /\ Inductive
  /\ AuditTyped
  /\ \A c \in Commands : TrailGoesAlong(c) /\ PlansRest(c)
  /\ ~Torn => HostSettled

\* An incomplete rollback takes two faults: one to roll back at all, and one in it.
Counted(c) ==
  /\ pc[c] \in {"undo", "undone"} => faults >= 1
  /\ pc[c] = "verify" /\ Found(c) # ActionAt(c).target => faults >= 1
  /\ pc[c] = "undone" /\ Found(c) # ActionAt(c).expected => faults >= 2
  /\ failed[c] \/ (pc[c] = "outcome" /\ Incomplete(result[c])) => faults >= 2

FaultsCounted ==
  /\ \A c \in Commands : Counted(c)
  /\ \A i \in DOMAIN audit :
       audit[i].event = "outcome" /\ Incomplete(audit[i].result) => faults >= 2

-------------------------------------------------------------------------------
(* However the commands overlap *)

\* A host whose policies are alike.
Alike(state) == \A f \in Files, p \in Policies : state[f][p] = state[f][Lead]

\* The values of a file that are nordfir's own, of a host found in a state: the one it
\* found, and that of rest.
Own(state, f) == {state[f][Lead], Economized(state)[f][Lead]}

OwnReading(state, s) == s \in Readings /\ \A f \in Files : s[f] \in Own(state, f) \cup {None}

OwnActions(state, actions) ==
  \A i \in DOMAIN actions :
    {actions[i].expected, actions[i].target} \subseteq Own(state, actions[i].file)

OwnRecord(state, record) ==
  record # None =>
    \E s \in Readings : OwnReading(state, s) /\ record = original_state_from(SnapshotOf(s))

\* There is no other value in the host, in what a command has seen and plans, or behind
\* the record.
OwnValues ==
  /\ \A f \in Files, p \in Policies : sysfs[f][p] \in Own(baseline, f)
  /\ \A c \in Commands : OwnReading(baseline, seen[c]) /\ OwnActions(baseline, Acts(c))
  /\ OwnRecord(baseline, original)
===============================================================================
