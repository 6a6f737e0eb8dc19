------------------------------- MODULE Observer -------------------------------
(***************************************************************************)
(* The observer loop (nordfir observe) and the recording decision (nordfir *)
(* plan --record), several of them at once on one state database: they     *)
(* store snapshots, audit events that refer to the snapshots by id, and    *)
(* prune the snapshots of their node.                                      *)
(*                                                                         *)
(* A step is one database transaction or one piece of the loop's own code. *)
(* A transaction happens or raises (the database is locked too long, the   *)
(* disk is full), and so may collecting a snapshot; that record_audit      *)
(* appends one event to a log that stays in order is AuditChain's.         *)
(***************************************************************************)
EXTENDS FiniteSetsExt, Integers

CONSTANTS
  Observers, Recorders,   \* the processes, each started at most once
  NodeOf,                 \* the node that a process records
  Keep,                   \* keep_snapshots
  MaxErrors,              \* max_consecutive_errors
  Limits,                 \* what --iterations may be, None for no limit
  None,
  MaxCycles,              \* bound on the cycles of an observer without a limit
  MaxFaults               \* bound on the calls that raise

Processes == Observers \cup Recorders

ASSUME ObserverAssumption ==
  /\ Observers \cap Recorders = {}
  /\ DOMAIN NodeOf = Processes
  /\ None \notin Nat /\ Limits \subseteq (Nat \ {0}) \cup {None}
  /\ {Keep, MaxErrors} \subseteq Nat \ {0}
  /\ {MaxCycles, MaxFaults} \subseteq Nat

VARIABLES
  snapshots,    \* the rows of the table
  trail,        \* how often a process recorded an audit event
  references,   \* the snapshot ids in the audit log, with what they referred to
  pc,           \* where a process is
  held,         \* the id of the snapshot of this cycle, with what it is of
  stop,         \* the observer's event, set by SIGINT and SIGTERM
  iterations,   \* the limit of cycles that the observer was given
  cycles, errors, consecutive, reason,   \* the counters of observe
  captured,     \* history: how many snapshots were taken
  faults        \* how many calls raised

counters == <<iterations, cycles, errors, consecutive, reason>>
database == <<snapshots, trail, references>>
vars == <<database, pc, held, stop, counters, captured, faults>>

Events == {"observer_started", "observation", "observer_error", "observer_stopped", "decision"}
Ended == {"returned", "raised", "killed", "crashed"}
Running(p) == pc[p] \notin Ended \cup {"new"}

-------------------------------------------------------------------------------
(* The database *)

Nothing == [id |-> 0, capture |-> 0]

Of(node) == {s \in snapshots : s.node = node}

\* What SQLite gives an INTEGER PRIMARY KEY that is left out.
NextId == IF snapshots = {} THEN 1 ELSE 1 + Max({s.id : s \in snapshots})

\* The newest ones of a set of snapshots, at most Keep of them.
Newest(set) == {s \in set : Cardinality({t \in set : t.id > s.id}) < Keep}

\* Mutant: the node is not asked of the rows to delete.
PruneEveryNode(node) == snapshots \ Newest(Of(node))

\* What prune_snapshots deletes.
Pruned(node) == Of(node) \ Newest(Of(node))

Goto(p, label) == pc' = [pc EXCEPT ![p] = label]

record_audit(p, event) == trail' = [trail EXCEPT ![p][event] = @ + 1]

Fault == faults < MaxFaults /\ faults' = faults + 1

\* A call raises: nothing of it is in the database.
Raises(p, label) ==
  /\ Fault
  /\ Goto(p, label)
  /\ UNCHANGED <<database, held, stop, counters, captured>>

save_snapshot(p) ==
  LET taken == [id |-> NextId, capture |-> captured + 1]
  IN  /\ snapshots' = snapshots \cup {[id |-> taken.id, capture |-> taken.capture,
                                       node |-> NodeOf[p]]}
      /\ held' = [held EXCEPT ![p] = taken]
      /\ captured' = captured + 1

\* An event that carries the id of the snapshot just saved.
Refer(p, event) ==
  /\ record_audit(p, event)
  /\ references' = references \cup {held[p]}

-------------------------------------------------------------------------------
(* observe *)

\* The table as earlier runs left it.
Init ==
  /\ \E n \in 0..Keep : \E node \in {NodeOf[p] : p \in Processes} :
       /\ snapshots = {[id |-> i, capture |-> i, node |-> node] : i \in 1..n}
       /\ references = {[id |-> i, capture |-> i] : i \in 1..n}
       /\ captured = n
  /\ trail = [p \in Processes |-> [e \in Events |-> 0]]
  /\ pc = [p \in Processes |-> "new"]
  /\ held = [p \in Processes |-> Nothing]
  /\ stop = [o \in Observers |-> FALSE]
  /\ iterations \in [Observers -> Limits]
  /\ cycles = [o \in Observers |-> 0]
  /\ errors = [o \in Observers |-> 0]
  /\ consecutive = [o \in Observers |-> 0]
  /\ reason = [o \in Observers |-> "stopped"]
  /\ faults = 0

Launch(p) ==
  /\ pc[p] = "new"
  /\ Goto(p, "start")
  /\ UNCHANGED <<database, held, stop, counters, captured, faults>>

\* The handler of SIGINT and SIGTERM.
Signal(o) ==
  /\ Running(o) /\ ~stop[o]
  /\ stop' = [stop EXCEPT ![o] = TRUE]
  /\ UNCHANGED <<database, pc, held, counters, captured, faults>>

Started(o) ==
  /\ pc[o] = "start"
  /\ record_audit(o, "observer_started")
  /\ Goto(o, "loop")
  /\ UNCHANGED <<snapshots, references, held, stop, counters, captured, faults>>

NotStarted(o) == pc[o] = "start" /\ Raises(o, "raised")

\* Mutant: the event is not looked at before a cycle.
HeedNothing(o) == FALSE

\* The test of the loop, which also ends the wait between two cycles.
Heed(o) ==
  /\ pc[o] = "loop" /\ stop[o]
  /\ Goto(o, "stop")
  /\ UNCHANGED <<database, held, stop, counters, captured, faults>>

\* collect_hardware
Collect(o) ==
  /\ pc[o] = "loop" /\ ~stop[o]
  /\ iterations[o] = None => cycles[o] < MaxCycles
  /\ \/ Raises(o, "error")
     \/ /\ Goto(o, "save")
        /\ UNCHANGED <<database, held, stop, counters, captured, faults>>

Save(o) ==
  /\ pc[o] = "save"
  /\ save_snapshot(o)
  /\ Goto(o, "observation")
  /\ UNCHANGED <<trail, references, stop, counters, faults>>

Observe(o) ==
  /\ pc[o] = "observation"
  /\ Refer(o, "observation")
  /\ Goto(o, "prune")
  /\ UNCHANGED <<snapshots, held, stop, counters, captured, faults>>

CycleFails(o) == pc[o] \in {"save", "observation", "prune"} /\ Raises(o, "error")

\* The end of a cycle: it counts, and may have been the last one.
Count(o) ==
  LET last == cycles[o] + 1 = iterations[o]
  IN  /\ cycles' = [cycles EXCEPT ![o] = @ + 1]
      /\ reason' = [reason EXCEPT ![o] = IF last THEN "iterations" ELSE @]
      /\ held' = [held EXCEPT ![o] = Nothing]
      /\ Goto(o, IF last THEN "stop" ELSE "loop")

Prune(o) ==
  /\ pc[o] = "prune"
  /\ snapshots' = snapshots \ Pruned(NodeOf[o])
  /\ consecutive' = [consecutive EXCEPT ![o] = 0]
  /\ Count(o)
  /\ UNCHANGED <<trail, references, iterations, errors, stop, captured, faults>>

GiveUp(o) ==
  /\ reason' = [reason EXCEPT ![o] = "too many errors"]
  /\ held' = [held EXCEPT ![o] = Nothing]
  /\ Goto(o, "stop")
  /\ UNCHANGED cycles

\* Mutants: one error more is suffered; the error is not counted.
AuditErrorOneMore(o) ==
  /\ pc[o] = "error"
  /\ errors' = [errors EXCEPT ![o] = @ + 1]
  /\ consecutive' = [consecutive EXCEPT ![o] = @ + 1]
  /\ record_audit(o, "observer_error")
  /\ IF consecutive[o] + 1 > MaxErrors THEN GiveUp(o) ELSE Count(o)
  /\ UNCHANGED <<snapshots, references, stop, iterations, captured, faults>>
AuditErrorUncounted(o) ==
  /\ pc[o] = "error"
  /\ consecutive' = [consecutive EXCEPT ![o] = @ + 1]
  /\ record_audit(o, "observer_error")
  /\ IF consecutive[o] + 1 >= MaxErrors THEN GiveUp(o) ELSE Count(o)
  /\ UNCHANGED <<snapshots, references, iterations, errors, stop, captured, faults>>

\* The handler of a cycle that raised.
AuditError(o) ==
  /\ pc[o] = "error"
  /\ errors' = [errors EXCEPT ![o] = @ + 1]
  /\ consecutive' = [consecutive EXCEPT ![o] = @ + 1]
  /\ record_audit(o, "observer_error")
  /\ IF consecutive[o] + 1 >= MaxErrors THEN GiveUp(o) ELSE Count(o)
  /\ UNCHANGED <<snapshots, references, stop, iterations, captured, faults>>

\* The handler raises, out of observe.
HandlerFails(o) == pc[o] = "error" /\ Raises(o, "killed")

Stopped(o) ==
  /\ pc[o] = "stop"
  /\ record_audit(o, "observer_stopped")
  /\ Goto(o, "returned")
  /\ UNCHANGED <<snapshots, references, held, stop, counters, captured, faults>>

NotStopped(o) == pc[o] = "stop" /\ Raises(o, "raised")

-------------------------------------------------------------------------------
(* run_once *)

RecordSnapshot(r) ==
  /\ pc[r] = "start"
  /\ save_snapshot(r)
  /\ Goto(r, "decision")
  /\ UNCHANGED <<trail, references, stop, counters, faults>>

RecordDecision(r) ==
  /\ pc[r] = "decision"
  /\ Refer(r, "decision")
  /\ held' = [held EXCEPT ![r] = Nothing]
  /\ Goto(r, "returned")
  /\ UNCHANGED <<snapshots, stop, counters, captured, faults>>

RecorderFails(r) == pc[r] \in {"start", "decision"} /\ Raises(r, "raised")

Crash(p) ==
  /\ Running(p)
  /\ held' = [held EXCEPT ![p] = Nothing]
  /\ Goto(p, "crashed")
  /\ UNCHANGED <<database, stop, counters, captured, faults>>

-------------------------------------------------------------------------------

Step(o) ==
  \/ Started(o) \/ NotStarted(o)
  \/ Heed(o) \/ Collect(o) \/ Save(o) \/ Observe(o) \/ Prune(o) \/ CycleFails(o)
  \/ AuditError(o) \/ HandlerFails(o)
  \/ Stopped(o) \/ NotStopped(o)

Next ==
  \/ \E o \in Observers : Signal(o) \/ Step(o)
  \/ \E r \in Recorders : RecordSnapshot(r) \/ RecordDecision(r) \/ RecorderFails(r)
  \/ \E p \in Processes : Launch(p) \/ Crash(p)

Spec == Init /\ [][Next]_vars

\* An observer that runs keeps running; nobody has to start it or to signal it.
FairSpec == Spec /\ \A o \in Observers : WF_vars(Step(o))

-------------------------------------------------------------------------------
(* Properties *)

\* docs/OBSERVER.md: "audit events that refer to pruned snapshot ids no longer
\* resolve".  They may not resolve to another snapshot: an id that is in the audit
\* log, or about to be, is never given to a second snapshot while ids are drawn from
\* what is left in the table (save_snapshot, prune_snapshots).
ReferencesHold ==
  \A r \in references \cup {held[p] : p \in Processes} :
    \A s \in snapshots : s.id = r.id => s.capture = r.capture

\* docs/OBSERVER.md: "only the newest --keep-snapshots per node are kept".  Between
\* two prunings an observer leaves as many more as it may fail in a row, and a
\* recording decision leaves one, whatever raises or dies (prune_snapshots is the
\* last step of a cycle, and the cycles that miss it are errors that add up).
RetentionBounded ==
  \A node \in {NodeOf[p] : p \in Processes} :
    Cardinality(Of(node)) <=
      Keep + MaxErrors * Cardinality({o \in Observers : NodeOf[o] = node})
           + Cardinality({r \in Recorders : NodeOf[r] = node})

\* The summary and observer_stopped agree with the audit log of the run: so many
\* observer_error events, no cycle beyond the limit, and an observation for every
\* cycle but those that failed (the cycle that makes it give up is not counted).
SummaryIsTrue ==
  \A o \in Observers : pc[o] = "returned" =>
    LET tried == cycles[o] + (IF reason[o] = "too many errors" THEN 1 ELSE 0)
    IN  /\ trail[o]["observer_started"] = 1 /\ trail[o]["observer_stopped"] = 1
        /\ trail[o]["observer_error"] = errors[o]
        /\ trail[o]["observation"] \in (tried - errors[o])..tried
        /\ iterations[o] # None => tried <= iterations[o]
        /\ reason[o] = "iterations" => tried = iterations[o]
        /\ reason[o] = "stopped" => stop[o]

\* docs/OBSERVER.md, "Lifecycle": a signal ends the loop, wherever it is and
\* whatever fails.
StopHeeded == \A o \in Observers : stop[o] ~> pc[o] \in Ended

\* observer.py: "a bad cycle must not kill the observer".
BadCycleSurvived == \A o \in Observers : pc[o] # "killed"
===============================================================================
