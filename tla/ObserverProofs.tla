----------------------------- MODULE ObserverProofs ---------------------------
(***************************************************************************)
(* What holds of the observer's database and of its summary for any number *)
(* of observers and recorders, whichever calls raise and whoever dies.     *)
(*                                                                         *)
(* The argument for the ids.  The id of a new snapshot is one more than    *)
(* the largest in the table, and a prune never takes the largest one,      *)
(* because it is among the newest of its node (NewestIsLeft); so what is   *)
(* referred to has an id that is not above it, and the new one is above.   *)
(*                                                                         *)
(* The argument for the summary.  SummaryOK says at every place in the     *)
(* loop what the counters and the trail of this run have in common: at     *)
(* "prune" the observation is recorded and the cycle is not counted, and   *)
(* at "error" it is open whether there was one.                            *)
(*                                                                         *)
(* The argument for the retention.  Debt counts what a process may have    *)
(* left in the table since its node was last pruned: one snapshot for each *)
(* of its cycles that failed in a row, one for the cycle it is in.  A node *)
(* holds no more than Keep and the debts of its processes: to save is to   *)
(* owe one more, and a prune leaves at most Keep (NewestBounded) and ends  *)
(* the debt of the process that pruned.  So that they can be added up, the *)
(* debts are a set of pairs (Debts), and what is counted is that set.      *)
(***************************************************************************)
EXTENDS Observer, FiniteSetTheorems, WellFoundedInduction, TLAPS

Nodes == {NodeOf[p] : p \in Processes}

\* The ids that are in the audit log or about to be.
Drawn == references \cup {held[p] : p \in Processes}

\* The largest id that was ever drawn is still in the table.
NewestIsLeft ==
  \/ snapshots = {} /\ \A r \in Drawn : r.id = 0
  \/ \E s \in snapshots :
       /\ \A t \in snapshots : t.id <= s.id
       /\ \A r \in Drawn : r.id <= s.id

IdInv ==
  /\ snapshots \subseteq [id : Nat \ {0}, capture : Nat, node : Nodes]
  /\ references \subseteq [id : Nat, capture : Nat]
  /\ held \in [Processes -> [id : Nat, capture : Nat]]
  /\ captured \in Nat
  /\ NewestIsLeft
  /\ ReferencesHold

Tried(o) == cycles[o] + (IF reason[o] = "too many errors" THEN 1 ELSE 0)

SummaryOK(o) ==
  LET observed == trail[o]["observation"]
      undecided == {"loop", "save", "observation", "prune", "error"}
  IN  /\ pc[o] \in {"new", "start"} => \A e \in Events : trail[o][e] = 0
      /\ pc[o] \in {"new", "start"} => cycles[o] = 0 /\ errors[o] = 0
      /\ pc[o] \in {"new", "start"} \cup undecided =>
           /\ reason[o] = "stopped"
           /\ iterations[o] # None => cycles[o] < iterations[o]
           /\ trail[o]["observer_error"] = errors[o]
      /\ pc[o] \in undecided \cup {"stop", "returned"} => trail[o]["observer_started"] = 1
      /\ pc[o] \in undecided \cup {"stop"} => trail[o]["observer_stopped"] = 0
      /\ pc[o] \in {"loop", "save", "observation"} =>
           cycles[o] <= observed + errors[o] /\ observed <= cycles[o]
      /\ pc[o] = "prune" => cycles[o] + 1 <= observed + errors[o] /\ observed <= cycles[o] + 1
      /\ pc[o] = "error" => cycles[o] <= observed + errors[o] /\ observed <= cycles[o] + 1
      /\ pc[o] \in {"stop", "returned"} =>
           /\ trail[o]["observer_error"] = errors[o]
           /\ Tried(o) <= observed + errors[o] /\ observed <= Tried(o)
           /\ iterations[o] # None => Tried(o) <= iterations[o]
           /\ reason[o] = "iterations" => Tried(o) = iterations[o]
           /\ reason[o] = "stopped" => stop[o]
      /\ pc[o] = "returned" => trail[o]["observer_stopped"] = 1

SummaryInv ==
  /\ trail \in [Processes -> [Events -> Nat]]
  /\ DOMAIN pc = Processes
  /\ iterations \in [Observers -> Limits]
  /\ cycles \in [Observers -> Nat]
  /\ errors \in [Observers -> Nat]
  /\ DOMAIN reason = Observers /\ DOMAIN stop = Observers
  /\ \A o \in Observers : SummaryOK(o)
-------------------------------------------------------------------------------
(* The ids *)

\* A new snapshot has an id above all that were drawn.
LEMMA NextIdIsNew ==
  ASSUME IdInv
  PROVE  /\ NextId \in Nat \ {0}
         /\ \A s \in snapshots : s.id < NextId
         /\ \A r \in Drawn : r.id < NextId
<1>0. \A r \in Drawn : r.id \in Nat
  BY DEF IdInv, Drawn
<1>1. CASE snapshots = {}
  BY <1>0, <1>1 DEF IdInv, NewestIsLeft, NextId
<1>2. CASE snapshots # {}
  <2> DEFINE ids == {s.id : s \in snapshots}
  <2>1. ids \subseteq Nat
    BY DEF IdInv
  <2>2. PICK s \in snapshots : /\ \A t \in snapshots : t.id <= s.id
                             /\ \A r \in Drawn : r.id <= s.id
    BY <1>2 DEF IdInv, NewestIsLeft
  <2>3. Max(ids) \in ids /\ \A i \in ids : i <= Max(ids)
    BY <2>1, <2>2 DEF Max
  <2>4. s.id <= Max(ids)
    BY <2>3
  <2>5. NextId = 1 + Max(ids)
    BY <1>2 DEF NextId
  <2> HIDE DEF ids
  <2>6. \A t \in snapshots : t.id \in Nat /\ t.id <= Max(ids)
    BY <2>1, <2>3 DEF ids
  <2>7. Max(ids) \in Nat
    BY <2>1, <2>3
  <2>8. \A r \in Drawn : r.id <= Max(ids)
    BY <1>0, <2>2, <2>4, <2>6, <2>7
  <2> DEFINE m == Max(ids)
  <2> HIDE DEF m
  <2>9. m \in Nat /\ NextId = 1 + m
    BY <2>5, <2>7 DEF m
  <2>10. (\A t \in snapshots : t.id \in Nat /\ t.id <= m) /\ \A r \in Drawn : r.id <= m
    BY <2>6, <2>8 DEF m
  <2> QED
    BY <1>0, <2>9, <2>10
<1> QED
  BY <1>1, <1>2

\* A snapshot is saved: it is the newest one, and the one at hand.
LEMMA SaveKeepsIds ==
  ASSUME IdInv, NEW p \in Processes, save_snapshot(p), UNCHANGED references
  PROVE  IdInv'
<1> DEFINE taken == [id |-> NextId, capture |-> captured + 1]
           s == [id |-> taken.id, capture |-> taken.capture, node |-> NodeOf[p]]
<1>1. /\ snapshots' = snapshots \cup {s}
      /\ held' = [held EXCEPT ![p] = taken]
      /\ captured' = captured + 1
  BY DEF save_snapshot
<1>2. /\ taken \in [id : Nat, capture : Nat] /\ taken.id = NextId
      /\ s \in [id : Nat \ {0}, capture : Nat, node : Nodes]
  BY NextIdIsNew DEF IdInv, Nodes
<1>3. \A r \in Drawn' : r = taken \/ r \in Drawn
  BY <1>1 DEF Drawn, IdInv
<1>4. \A t \in snapshots : t.id \in Nat /\ t.id < s.id
  BY NextIdIsNew DEF IdInv
<1>5. \A r \in Drawn : r.id \in Nat /\ r.id < s.id
  BY NextIdIsNew DEF IdInv, Drawn
<1>6. s.id = taken.id /\ s.capture = taken.capture /\ s.id \in Nat
  BY <1>2
<1> HIDE DEF taken, s
<1>7. NewestIsLeft'
  BY <1>1, <1>3, <1>4, <1>5, <1>6 DEF NewestIsLeft
<1>8. ReferencesHold'
  <2> SUFFICES ASSUME NEW r \in Drawn', NEW t \in snapshots', t.id = r.id
               PROVE  t.capture = r.capture
    BY DEF ReferencesHold, Drawn
  <2>1. r \in Drawn /\ t \in snapshots => t.capture = r.capture
    BY DEF IdInv, ReferencesHold, Drawn
  <2> QED
    BY <1>1, <1>3, <1>4, <1>5, <1>6, <2>1
<1> QED
  BY <1>1, <1>2, <1>7, <1>8 DEF IdInv

\* A prune leaves the newest snapshot of all.
LEMMA PruneKeepsIds ==
  ASSUME IdInv, NEW node, snapshots' = snapshots \ Pruned(node), UNCHANGED <<references, captured>>,
         held' \in [Processes -> [id : Nat, capture : Nat]],
         \A p \in Processes : held'[p] = held[p] \/ held'[p] = Nothing
  PROVE  IdInv'
<1>1. \A r \in Drawn' : r \in Drawn \/ r.id = 0
  BY DEF Drawn, Nothing
<1>2. \A t \in snapshots : t.id \in Nat \ {0}
  BY DEF IdInv
<1>3. \A r \in Drawn : r.id \in Nat
  BY DEF IdInv, Drawn
<1>4. NewestIsLeft'
  <2>1. CASE snapshots = {}
    BY <1>1, <2>1 DEF IdInv, NewestIsLeft
  <2>2. CASE snapshots # {}
    <3>1. PICK s \in snapshots : /\ \A t \in snapshots : t.id <= s.id
                               /\ \A r \in Drawn : r.id <= s.id
      BY <2>2 DEF IdInv, NewestIsLeft
    <3>2. {t \in Of(node) : t.id > s.id} = {}
      BY <1>2, <3>1 DEF Of
    <3>3. Cardinality({t \in Of(node) : t.id > s.id}) < Keep
      <4>1. Cardinality({t \in Of(node) : t.id > s.id}) = 0
        BY <3>2, FS_EmptySet, Zenon
      <4>2. Keep \in Nat /\ 0 < Keep
        BY ObserverAssumption
      <4> QED
        BY <4>1, <4>2
    <3>4. s \in snapshots'
      BY <3>3 DEF Pruned, Newest
    <3> QED
      BY <1>1, <1>2, <3>1, <3>4 DEF NewestIsLeft
  <2> QED
    BY <2>1, <2>2
<1>5. ReferencesHold'
  <2> SUFFICES ASSUME NEW r \in Drawn', NEW t \in snapshots', t.id = r.id
               PROVE  t.capture = r.capture
    BY DEF ReferencesHold, Drawn
  <2>1. t \in snapshots /\ t.id # 0
    BY <1>2
  <2> QED
    BY <1>1, <2>1 DEF IdInv, ReferencesHold, Drawn
<1> QED
  BY <1>4, <1>5 DEF IdInv

\* A step that draws no id and refers to nothing but what is at hand.
LEMMA OthersKeepIds ==
  ASSUME IdInv, UNCHANGED <<snapshots, captured>>,
         \/ UNCHANGED references
         \/ \E p \in Processes : references' = references \cup {held[p]},
         \/ UNCHANGED held
         \/ \E p \in Processes : held' = [held EXCEPT ![p] = Nothing]
  PROVE  IdInv'
<1>1. held' \in [Processes -> [id : Nat, capture : Nat]]
  BY DEF IdInv, Nothing
<1>2. references' \subseteq [id : Nat, capture : Nat]
  BY DEF IdInv
<1>3. \A r \in Drawn' : r \in Drawn \/ r.id = 0
  BY DEF Drawn, Nothing, IdInv
<1>4. \A t \in snapshots : t.id \in Nat \ {0}
  BY DEF IdInv
<1>5. NewestIsLeft'
  BY <1>3, <1>4 DEF IdInv, NewestIsLeft
<1>6. ReferencesHold'
  <2> SUFFICES ASSUME NEW r \in Drawn', NEW t \in snapshots', t.id = r.id
               PROVE  t.capture = r.capture
    BY DEF ReferencesHold, Drawn
  <2> QED
    BY <1>3, <1>4 DEF IdInv, ReferencesHold, Drawn
<1> QED
  BY <1>1, <1>2, <1>5, <1>6 DEF IdInv

\* The database as earlier runs left it.
LEMMA IdsStart == Init => IdInv
<1> SUFFICES ASSUME Init PROVE IdInv
  OBVIOUS
<1>1. PICK n \in 0..Keep, node \in Nodes :
        /\ snapshots = {[id |-> i, capture |-> i, node |-> node] : i \in 1..n}
        /\ references = {[id |-> i, capture |-> i] : i \in 1..n}
        /\ captured = n
  BY DEF Init, Nodes
<1>2. held = [p \in Processes |-> Nothing]
  BY DEF Init
<1>3. n \in Nat
  BY ObserverAssumption
<1>4. \A r \in Drawn : r = Nothing \/ r \in references
  BY <1>2 DEF Drawn
<1>5. NewestIsLeft
  <2>1. CASE n = 0
    BY <1>1, <1>4, <2>1 DEF NewestIsLeft, Nothing
  <2>2. CASE n > 0
    <3>1. [id |-> n, capture |-> n, node |-> node] \in snapshots
      BY <1>1, <1>3, <2>2
    <3>2. \A t \in snapshots : t.id <= n
      BY <1>1
    <3>3. \A r \in Drawn : r.id <= n
      BY <1>1, <1>3, <1>4 DEF Nothing
    <3> QED
      BY <3>1, <3>2, <3>3 DEF NewestIsLeft
  <2> QED
    BY <1>3, <2>1, <2>2
<1>6. ReferencesHold
  <2> SUFFICES ASSUME NEW r \in Drawn, NEW t \in snapshots, t.id = r.id
               PROVE  t.capture = r.capture
    BY DEF ReferencesHold, Drawn
  <2> QED
    BY <1>1, <1>4 DEF Nothing
<1>7. /\ snapshots \subseteq [id : Nat \ {0}, capture : Nat, node : Nodes]
      /\ references \subseteq [id : Nat, capture : Nat]
  BY <1>1, <1>3
<1>8. held \in [Processes -> [id : Nat, capture : Nat]]
  BY <1>2 DEF Nothing
<1> QED
  BY <1>1, <1>3, <1>5, <1>6, <1>7, <1>8 DEF IdInv

\* No step gives out an id a second time.
LEMMA IdsKept == IdInv /\ [Next]_vars => IdInv'
<1> SUFFICES ASSUME IdInv, [Next]_vars PROVE IdInv'
  OBVIOUS
<1> USE DEF database, counters, Raises, Refer, Processes
<1>1. ASSUME NEW o \in Observers, Save(o) PROVE IdInv'
  BY <1>1, SaveKeepsIds DEF Save
<1>2. ASSUME NEW r \in Recorders, RecordSnapshot(r) PROVE IdInv'
  BY <1>2, SaveKeepsIds DEF RecordSnapshot
<1>3. ASSUME NEW o \in Observers, Prune(o) PROVE IdInv'
  <2>1. held' = [held EXCEPT ![o] = Nothing]
    BY <1>3 DEF Prune, Count
  <2>2. /\ held' \in [Processes -> [id : Nat, capture : Nat]]
        /\ \A p \in Processes : held'[p] = held[p] \/ held'[p] = Nothing
    BY <2>1 DEF IdInv, Nothing
  <2> QED
    BY <1>3, <2>2, PruneKeepsIds DEF Prune
<1>4. ASSUME NEW o \in Observers, Signal(o) \/ (Step(o) /\ ~Save(o) /\ ~Prune(o)) PROVE IdInv'
  BY <1>4, OthersKeepIds
  DEF Signal, Step, Started, NotStarted, Heed, Collect, Observe, CycleFails, AuditError, GiveUp,
      Count, HandlerFails, Stopped, NotStopped
<1>5. ASSUME NEW r \in Recorders, RecordDecision(r) \/ RecorderFails(r) PROVE IdInv'
  BY <1>5, OthersKeepIds DEF RecordDecision, RecorderFails
<1>6. ASSUME NEW p \in Processes, Launch(p) \/ Crash(p) PROVE IdInv'
  BY <1>6, OthersKeepIds DEF Launch, Crash
<1>7. CASE UNCHANGED vars
  BY <1>7, OthersKeepIds DEF vars
<1> QED
  BY <1>1, <1>2, <1>3, <1>4, <1>5, <1>6, <1>7 DEF Next

\* An id in the audit log, or about to be, is never given to a second snapshot: for any
\* number of observers and recorders that save and prune at once (save_snapshot,
\* prune_snapshots).
THEOREM IdsNeverReused == Spec => []ReferencesHold
<1>1. IdInv => ReferencesHold
  BY DEF IdInv
<1> QED
  BY IdsStart, IdsKept, <1>1, PTL DEF Spec
-------------------------------------------------------------------------------
(* The summary *)

\* What the summary speaks of does not move when somebody else steps; a signal may come.
LEMMA SummaryStays ==
  ASSUME NEW o \in Observers, SummaryOK(o),
         pc'[o] = pc[o], trail'[o] = trail[o], iterations'[o] = iterations[o],
         cycles'[o] = cycles[o], errors'[o] = errors[o], reason'[o] = reason[o],
         stop[o] => stop'[o]
  PROVE  SummaryOK(o)'
BY DEF SummaryOK, Tried

\* One event more is recorded, by the process p.
LEMMA Recorded ==
  ASSUME SummaryInv, NEW p \in Processes, NEW e \in Events, record_audit(p, e)
  PROVE  /\ trail' \in [Processes -> [Events -> Nat]]
         /\ trail'[p][e] = trail[p][e] + 1
         /\ \A d \in Events \ {e} : trail'[p][d] = trail[p][d]
         /\ \A q \in Processes \ {p} : trail'[q] = trail[q]
BY DEF SummaryInv, record_audit

\* A place at which nothing is asked of the trail.
LEMMA SummaryEnds ==
  ASSUME NEW o \in Observers, pc'[o] \in {"raised", "killed", "crashed"}
  PROVE  SummaryOK(o)'
BY DEF SummaryOK

\* Before the first step nothing is recorded and nothing counted.
LEMMA SummaryStart == Init => SummaryInv
<1> SUFFICES ASSUME Init PROVE SummaryInv
  OBVIOUS
<1>1. Observers \subseteq Processes
  BY DEF Processes
<1>2. ASSUME NEW o \in Observers PROVE SummaryOK(o)
  <2>1. /\ pc[o] = "new" /\ reason[o] = "stopped" /\ cycles[o] = 0 /\ errors[o] = 0
        /\ \A e \in Events : trail[o][e] = 0
    BY <1>1 DEF Init
  <2>2. iterations[o] # None => 0 < iterations[o]
    <3>1. iterations[o] \in (Nat \ {0}) \cup {None}
      BY ObserverAssumption DEF Init
    <3>2. \A n \in Nat \ {0} : 0 < n
      OBVIOUS
    <3> QED
      BY <3>1, <3>2, Zenon
  <2>3. trail[o]["observer_error"] = 0
    BY <2>1 DEF Events
  <2> QED
    BY <2>1, <2>2, <2>3 DEF SummaryOK
<1> QED
  BY <1>2 DEF Init, SummaryInv

\* A step of o, or of a recorder, which changes the counters and the trail of nobody else.
LEMMA SummaryOfOthers ==
  ASSUME SummaryInv, NEW p \in Processes, p \in Observers => SummaryOK(p)',
         trail' \in [Processes -> [Events -> Nat]], DOMAIN pc' = Processes,
         cycles' \in [Observers -> Nat], errors' \in [Observers -> Nat],
         DOMAIN reason' = Observers, UNCHANGED <<iterations, stop>>,
         \A q \in Observers \ {p} :
           /\ pc'[q] = pc[q] /\ trail'[q] = trail[q]
           /\ cycles'[q] = cycles[q] /\ errors'[q] = errors[q] /\ reason'[q] = reason[q]
  PROVE  SummaryInv'
<1>1. ASSUME NEW q \in Observers, q # p PROVE SummaryOK(q)'
  BY <1>1, SummaryStays DEF SummaryInv
<1> QED
  BY <1>1 DEF SummaryInv

\* Nothing is recorded and nothing counted: only the place of p changes.
LEMMA SummaryMoves ==
  ASSUME SummaryInv, NEW p \in Processes, p \in Observers => SummaryOK(p)', NEW label,
         Goto(p, label), UNCHANGED <<trail, iterations, cycles, errors, reason, stop>>
  PROVE  SummaryInv'
<1>1. DOMAIN pc' = Processes /\ \A q \in Processes \ {p} : pc'[q] = pc[q]
  BY DEF SummaryInv, Goto
<1>2. Observers \subseteq Processes
  BY DEF Processes
<1> QED
  BY <1>1, <1>2, SummaryOfOthers DEF SummaryInv

\* One event is recorded and p goes on; nothing is counted.
LEMMA SummaryRecords ==
  ASSUME SummaryInv, NEW p \in Processes, p \in Observers => SummaryOK(p)', NEW label,
         NEW e \in Events, record_audit(p, e),
         Goto(p, label), UNCHANGED <<iterations, cycles, errors, reason, stop>>
  PROVE  SummaryInv'
<1>1. DOMAIN pc' = Processes /\ \A q \in Processes \ {p} : pc'[q] = pc[q]
  BY DEF SummaryInv, Goto
<1>2. Observers \subseteq Processes
  BY DEF Processes
<1>3. trail' \in [Processes -> [Events -> Nat]] /\ \A q \in Processes \ {p} : trail'[q] = trail[q]
  BY Recorded
<1>4. cycles' \in [Observers -> Nat] /\ errors' \in [Observers -> Nat] /\ DOMAIN reason' = Observers
  BY DEF SummaryInv
<1> QED
  BY <1>1, <1>2, <1>3, <1>4, SummaryOfOthers

\* What the counters of o are.
LEMMA Counters ==
  ASSUME SummaryInv, NEW o \in Observers
  PROVE  /\ o \in Processes /\ cycles[o] \in Nat /\ errors[o] \in Nat
         /\ iterations[o] # None => iterations[o] \in Nat
         /\ \A e \in Events : trail[o][e] \in Nat
         /\ SummaryOK(o)
<1>1. iterations[o] \in Limits /\ Limits \subseteq (Nat \ {0}) \cup {None}
  BY ObserverAssumption DEF SummaryInv
<1> QED
  BY <1>1 DEF SummaryInv, Processes

\* What is to be shown of an observer that is back in the loop, and of one that leaves it.
LEMMA LoopOK ==
  ASSUME NEW o \in Observers, pc'[o] = "loop", reason'[o] = "stopped",
         iterations'[o] # None => cycles'[o] < iterations'[o],
         trail'[o]["observer_error"] = errors'[o],
         trail'[o]["observer_started"] = 1, trail'[o]["observer_stopped"] = 0,
         cycles'[o] <= trail'[o]["observation"] + errors'[o],
         trail'[o]["observation"] <= cycles'[o]
  PROVE  SummaryOK(o)'
BY DEF SummaryOK

LEMMA StopOK ==
  ASSUME NEW o \in Observers, pc'[o] = "stop", NEW tried, tried = Tried(o)',
         trail'[o]["observer_error"] = errors'[o],
         trail'[o]["observer_started"] = 1, trail'[o]["observer_stopped"] = 0,
         tried <= trail'[o]["observation"] + errors'[o],
         trail'[o]["observation"] <= tried,
         iterations'[o] # None => tried <= iterations'[o],
         reason'[o] = "iterations" => tried = iterations'[o],
         reason'[o] = "stopped" => stop'[o]
  PROVE  SummaryOK(o)'
BY DEF SummaryOK

LEMMA StartedKeeps ==
  ASSUME SummaryInv, NEW o \in Observers, Started(o) PROVE SummaryInv'
<1>1. /\ pc'[o] = "loop" /\ "observer_started" \in Events
      /\ trail'[o]["observer_started"] = 1
      /\ \A d \in Events \ {"observer_started"} : trail'[o][d] = 0
  BY Counters, Recorded DEF Started, SummaryInv, Goto, SummaryOK, Events
<1>2. SummaryOK(o)'
  BY <1>1, Counters DEF Started, SummaryOK, counters, Events
<1> QED
  BY <1>2, Counters, SummaryRecords DEF Started, counters, Events

LEMMA ObserveKeeps ==
  ASSUME SummaryInv, NEW o \in Observers, Observe(o) PROVE SummaryInv'
<1>1. /\ pc'[o] = "prune" /\ "observation" \in Events
      /\ trail'[o]["observation"] = trail[o]["observation"] + 1
      /\ \A d \in Events \ {"observation"} : trail'[o][d] = trail[o][d]
  BY Counters, Recorded DEF Observe, Refer, SummaryInv, Goto, Events
<1>2. SummaryOK(o)'
  BY <1>1, Counters DEF Observe, SummaryOK, counters, Events
<1> QED
  BY <1>2, Counters, SummaryRecords DEF Observe, Refer, counters, Events

LEMMA StoppedKeeps ==
  ASSUME SummaryInv, NEW o \in Observers, Stopped(o) PROVE SummaryInv'
<1>1. /\ pc'[o] = "returned" /\ "observer_stopped" \in Events
      /\ trail'[o]["observer_stopped"] = 1
      /\ \A d \in Events \ {"observer_stopped"} : trail'[o][d] = trail[o][d]
  BY Counters, Recorded DEF Stopped, SummaryInv, Goto, SummaryOK, Events
<1>2. SummaryOK(o)'
  BY <1>1, Counters DEF Stopped, SummaryOK, Tried, counters, Events
<1> QED
  BY <1>2, Counters, SummaryRecords DEF Stopped, counters, Events

\* A cycle ends well: it is counted.
LEMMA PruneKeeps ==
  ASSUME SummaryInv, NEW o \in Observers, Prune(o) PROVE SummaryInv'
<1> DEFINE last == cycles[o] + 1 = iterations[o]
<1>1. /\ o \in Processes /\ pc[o] = "prune" /\ UNCHANGED <<trail, iterations, errors, stop>>
      /\ cycles' = [cycles EXCEPT ![o] = cycles[o] + 1]
      /\ reason' = [reason EXCEPT ![o] = IF last THEN "iterations" ELSE reason[o]]
      /\ pc' = [pc EXCEPT ![o] = IF last THEN "stop" ELSE "loop"]
  BY Counters DEF Prune, Count, Goto
<1>2. /\ pc'[o] = (IF last THEN "stop" ELSE "loop")
      /\ reason'[o] = (IF last THEN "iterations" ELSE reason[o])
      /\ cycles'[o] = cycles[o] + 1
  BY <1>1 DEF SummaryInv
<1>3. /\ reason[o] = "stopped" /\ cycles[o] \in Nat /\ errors[o] \in Nat
      /\ iterations[o] # None => iterations[o] \in Nat /\ cycles[o] < iterations[o]
      /\ trail[o]["observer_error"] = errors[o]
      /\ trail[o]["observer_started"] = 1 /\ trail[o]["observer_stopped"] = 0
      /\ trail[o]["observation"] \in Nat
      /\ cycles[o] + 1 <= trail[o]["observation"] + errors[o]
      /\ trail[o]["observation"] <= cycles[o] + 1
  BY <1>1, Counters DEF SummaryOK, Events
<1>4. SummaryOK(o)'
  <2>1. CASE last
    <3>1. Tried(o)' = cycles[o] + 1
      BY <1>2, <1>3, <2>1 DEF Tried
    <3> QED
      BY <1>1, <1>2, <1>3, <2>1, <3>1, StopOK
  <2>2. CASE ~last
    <3>1. iterations[o] # None => cycles[o] + 1 < iterations[o]
      BY <1>3, <2>2
    <3> QED
      BY <1>1, <1>2, <1>3, <2>2, <3>1, LoopOK
  <2> QED
    BY <2>1, <2>2
<1>5. /\ cycles' \in [Observers -> Nat] /\ DOMAIN reason' = Observers
      /\ DOMAIN pc' = Processes
      /\ \A q \in Observers \ {o} : pc'[q] = pc[q] /\ cycles'[q] = cycles[q] /\ reason'[q] = reason[q]
  BY <1>1, <1>3 DEF SummaryInv, Processes
<1> HIDE DEF last
<1> QED
  BY <1>1, <1>4, <1>5, SummaryOfOthers DEF SummaryInv

\* A cycle ends badly: it is counted unless it is the one error too many.
LEMMA AuditErrorKeeps ==
  ASSUME SummaryInv, NEW o \in Observers, AuditError(o) PROVE SummaryInv'
<1>1. /\ o \in Processes /\ pc[o] = "error" /\ UNCHANGED <<iterations, stop>>
      /\ errors' = [errors EXCEPT ![o] = errors[o] + 1]
  BY Counters DEF AuditError
<1>2. /\ "observer_error" \in Events
      /\ trail' \in [Processes -> [Events -> Nat]]
      /\ trail'[o]["observer_error"] = trail[o]["observer_error"] + 1
      /\ \A d \in Events \ {"observer_error"} : trail'[o][d] = trail[o][d]
      /\ \A q \in Processes \ {o} : trail'[q] = trail[q]
  BY Counters, Recorded DEF AuditError, Events
<1>3. /\ reason[o] = "stopped" /\ cycles[o] \in Nat /\ errors[o] \in Nat
      /\ iterations[o] # None => iterations[o] \in Nat /\ cycles[o] < iterations[o]
      /\ trail[o]["observer_error"] = errors[o]
      /\ trail[o]["observer_started"] = 1 /\ trail[o]["observer_stopped"] = 0
      /\ trail[o]["observation"] \in Nat
      /\ cycles[o] <= trail[o]["observation"] + errors[o]
      /\ trail[o]["observation"] <= cycles[o] + 1
  BY <1>1, Counters DEF SummaryOK, Events
<1>4. /\ trail'[o]["observer_error"] = errors[o] + 1
      /\ trail'[o]["observer_started"] = 1 /\ trail'[o]["observer_stopped"] = 0
      /\ trail'[o]["observation"] = trail[o]["observation"]
      /\ errors'[o] = errors[o] + 1
  BY <1>1, <1>2, <1>3 DEF Events, SummaryInv
<1>5. /\ errors' \in [Observers -> Nat] /\ \A q \in Observers \ {o} : errors'[q] = errors[q]
      /\ \A q \in Observers \ {o} : trail'[q] = trail[q]
  BY <1>1, <1>2, <1>3 DEF SummaryInv, Processes
<1>6. CASE GiveUp(o)
  <2>1. /\ cycles' = cycles /\ reason' = [reason EXCEPT ![o] = "too many errors"]
        /\ pc' = [pc EXCEPT ![o] = "stop"]
    BY <1>6 DEF GiveUp, Goto
  <2>2. pc'[o] = "stop" /\ reason'[o] = "too many errors" /\ cycles'[o] = cycles[o]
    BY <1>1, <2>1 DEF SummaryInv
  <2>3. Tried(o)' = cycles[o] + 1
    BY <2>2 DEF Tried
  <2>4. iterations[o] # None => cycles[o] + 1 <= iterations[o]
    BY <1>3
  <2>5. SummaryOK(o)'
    <3>1. /\ cycles[o] + 1 <= trail'[o]["observation"] + errors'[o]
          /\ trail'[o]["observation"] <= cycles[o] + 1
      BY <1>3, <1>4
    <3>2. reason'[o] \notin {"iterations", "stopped"}
      BY <2>2
    <3> QED
      BY <1>1, <1>3, <1>4, <2>2, <2>3, <2>4, <3>1, <3>2, StopOK
  <2>6. /\ cycles' \in [Observers -> Nat] /\ DOMAIN reason' = Observers
        /\ DOMAIN pc' = Processes
        /\ \A q \in Observers \ {o} : pc'[q] = pc[q] /\ cycles'[q] = cycles[q] /\ reason'[q] = reason[q]
    BY <1>1, <2>1 DEF SummaryInv, Processes
  <2> QED
    BY <1>1, <1>2, <1>5, <2>5, <2>6, SummaryOfOthers
<1>7. CASE Count(o)
  <2> DEFINE last == cycles[o] + 1 = iterations[o]
  <2>1. /\ cycles' = [cycles EXCEPT ![o] = cycles[o] + 1]
        /\ reason' = [reason EXCEPT ![o] = IF last THEN "iterations" ELSE reason[o]]
        /\ pc' = [pc EXCEPT ![o] = IF last THEN "stop" ELSE "loop"]
    BY <1>7 DEF Count, Goto
  <2>2. /\ pc'[o] = (IF last THEN "stop" ELSE "loop")
        /\ reason'[o] = (IF last THEN "iterations" ELSE reason[o])
        /\ cycles'[o] = cycles[o] + 1
    BY <1>1, <2>1 DEF SummaryInv
  <2>3. SummaryOK(o)'
    <3>1. CASE last
      <4>1. Tried(o)' = cycles[o] + 1
        BY <1>3, <2>2, <3>1 DEF Tried
      <4> QED
        BY <1>1, <1>3, <1>4, <2>2, <3>1, <4>1, StopOK
    <3>2. CASE ~last
      <4>1. iterations[o] # None => cycles[o] + 1 < iterations[o]
        BY <1>3, <3>2
      <4> QED
        BY <1>1, <1>3, <1>4, <2>2, <3>2, <4>1, LoopOK
    <3> QED
      BY <3>1, <3>2
  <2>4. /\ cycles' \in [Observers -> Nat] /\ DOMAIN reason' = Observers
        /\ DOMAIN pc' = Processes
        /\ \A q \in Observers \ {o} : pc'[q] = pc[q] /\ cycles'[q] = cycles[q] /\ reason'[q] = reason[q]
    BY <1>1, <1>3, <2>1 DEF SummaryInv, Processes
  <2> HIDE DEF last
  <2> QED
    BY <1>1, <1>2, <1>5, <2>3, <2>4, SummaryOfOthers
<1> QED
  BY <1>6, <1>7 DEF AuditError

\* The steps of an observer that neither record nor count.
LEMMA QuietKeeps ==
  ASSUME SummaryInv, NEW o \in Observers, Heed(o) \/ Collect(o) \/ Save(o) PROVE SummaryInv'
<1> USE DEF database, counters
<1>1. CASE Heed(o)
  <2>1. pc'[o] = "stop"
    BY <1>1, Counters DEF Heed, Goto, SummaryInv
  <2>2. /\ pc[o] = "loop" /\ stop[o]
        /\ UNCHANGED <<trail, iterations, cycles, errors, reason, stop>>
    BY <1>1 DEF Heed
  <2>3. reason[o] = "stopped" /\ cycles[o] \in Nat /\ Tried(o)' = cycles[o]
    <3>1. reason[o] = "stopped" /\ cycles[o] \in Nat
      BY <2>2, Counters DEF SummaryOK
    <3>2. Tried(o)' = cycles[o] + 0
      BY <2>2, <3>1 DEF Tried
    <3> QED
      BY <3>1, <3>2
  <2>4. iterations[o] # None => cycles[o] <= iterations[o]
    BY <2>2, Counters DEF SummaryOK
  <2>5. SummaryOK(o)'
    BY <2>1, <2>2, <2>3, <2>4, Counters, StopOK DEF SummaryOK
  <2> QED
    BY <1>1, <2>2, <2>5, Counters, SummaryMoves DEF Heed
<1>2. CASE Collect(o)
  <2>1. PICK label \in {"error", "save"} : Goto(o, label)
    BY <1>2 DEF Collect, Raises
  <2>2. pc'[o] \in {"error", "save"}
    BY <2>1, Counters DEF Goto, SummaryInv
  <2>3. pc[o] = "loop" /\ UNCHANGED <<trail, iterations, cycles, errors, reason, stop>>
    BY <1>2 DEF Collect, Raises
  <2>4. cycles[o] \in Nat /\ trail[o]["observation"] \in Nat
    BY Counters DEF Events
  <2>5. trail[o]["observation"] <= cycles[o] => trail[o]["observation"] <= cycles[o] + 1
    BY <2>4
  <2>6. SummaryOK(o)'
    BY <2>2, <2>3, <2>5, Counters DEF SummaryOK
  <2> QED
    BY <2>1, <2>3, <2>6, Counters, SummaryMoves
<1>3. CASE Save(o)
  <2>1. pc'[o] = "observation"
    BY <1>3, Counters DEF Save, Goto, SummaryInv
  <2>2. pc[o] = "save" /\ UNCHANGED <<trail, iterations, cycles, errors, reason, stop>>
    BY <1>3 DEF Save
  <2>3. SummaryOK(o)'
    BY <2>1, <2>2, Counters DEF SummaryOK, Tried, Events
  <2> QED
    BY <1>3, <2>2, <2>3, Counters, SummaryMoves DEF Save
<1> QED
  BY <1>1, <1>2, <1>3

\* A step of an observer that raises.
LEMMA RaisesKeeps ==
  ASSUME SummaryInv, NEW o \in Observers,
         NotStarted(o) \/ CycleFails(o) \/ HandlerFails(o) \/ NotStopped(o)
  PROVE  SummaryInv'
<1>1. PICK label \in {"error", "raised", "killed"} :
        /\ Raises(o, label)
        /\ label = "error" => pc[o] \in {"save", "observation", "prune"}
  BY DEF NotStarted, CycleFails, HandlerFails, NotStopped
<1>2. Goto(o, label) /\ UNCHANGED <<trail, iterations, cycles, errors, reason, stop>>
  BY <1>1 DEF Raises, database, counters
<1>3. pc'[o] = label
  BY <1>2, Counters DEF Goto, SummaryInv
<1>4. SummaryOK(o)'
  <2>1. CASE label = "error"
    BY <1>1, <1>2, <1>3, <2>1, Counters DEF SummaryOK, Events
  <2>2. CASE label # "error"
    BY <1>1, <1>3, <2>2, SummaryEnds
  <2> QED
    BY <2>1, <2>2
<1> QED
  BY <1>2, <1>4, Counters, SummaryMoves

\* No step parts the counters from the trail.
LEMMA SummaryKept == SummaryInv /\ [Next]_vars => SummaryInv'
<1> SUFFICES ASSUME SummaryInv, [Next]_vars PROVE SummaryInv'
  OBVIOUS
<1> USE DEF database, counters
<1>0. /\ Observers \subseteq Processes /\ Recorders \subseteq Processes
      /\ \A r \in Recorders : r \notin Observers
  BY ObserverAssumption DEF Processes
<1>1. ASSUME NEW o \in Observers, Signal(o) PROVE SummaryInv'
  <2>1. \A q \in Observers : stop[q] => stop'[q]
    BY <1>1 DEF Signal, SummaryInv
  <2> QED
    BY <1>1, <2>1, SummaryStays DEF Signal, SummaryInv
<1>2. ASSUME NEW o \in Observers, Step(o) PROVE SummaryInv'
  BY <1>2, StartedKeeps, ObserveKeeps, StoppedKeeps, PruneKeeps, AuditErrorKeeps, QuietKeeps,
     RaisesKeeps DEF Step
<1>3. ASSUME NEW r \in Recorders, RecordSnapshot(r) PROVE SummaryInv'
  BY <1>0, <1>3, SummaryMoves DEF RecordSnapshot
<1>4. ASSUME NEW r \in Recorders, RecordDecision(r) PROVE SummaryInv'
  BY <1>0, <1>4, SummaryRecords DEF RecordDecision, Refer, Events
<1>5. ASSUME NEW r \in Recorders, RecorderFails(r) PROVE SummaryInv'
  BY <1>0, <1>5, SummaryMoves DEF RecorderFails, Raises
<1>6. ASSUME NEW p \in Processes, Launch(p) PROVE SummaryInv'
  <2>1. pc[p] = "new" /\ pc'[p] = "start"
    BY <1>6 DEF Launch, Goto, SummaryInv
  <2>2. p \in Observers => SummaryOK(p)'
    BY <1>6, <2>1, Counters DEF Launch, SummaryOK, Events
  <2> QED
    BY <1>6, <2>2, SummaryMoves DEF Launch
<1>7. ASSUME NEW p \in Processes, Crash(p) PROVE SummaryInv'
  <2>1. pc'[p] = "crashed"
    BY <1>7 DEF Crash, Goto, SummaryInv
  <2> QED
    BY <1>7, <2>1, SummaryEnds, SummaryMoves DEF Crash
<1>8. CASE UNCHANGED vars
  BY <1>8, SummaryStays DEF vars, SummaryInv
<1> QED
  BY <1>1, <1>2, <1>3, <1>4, <1>5, <1>6, <1>7, <1>8 DEF Next

\* What the summary and observer_stopped tell agrees with the audit log of the run: so
\* many errors, an observation for every cycle but those that failed, no cycle beyond
\* the limit and none that the reason does not account for (observe).
THEOREM SummaryHolds == Spec => []SummaryIsTrue
<1>1. SummaryInv => SummaryIsTrue
  <2> SUFFICES ASSUME SummaryInv, NEW o \in Observers, pc[o] = "returned"
               PROVE  /\ trail[o]["observer_started"] = 1 /\ trail[o]["observer_stopped"] = 1
                      /\ trail[o]["observer_error"] = errors[o]
                      /\ trail[o]["observation"] \in (Tried(o) - errors[o])..Tried(o)
                      /\ iterations[o] # None => Tried(o) <= iterations[o]
                      /\ reason[o] = "iterations" => Tried(o) = iterations[o]
                      /\ reason[o] = "stopped" => stop[o]
    BY DEF SummaryIsTrue, Tried
  <2>1. Tried(o) \in Nat
    <3>1. cycles[o] \in Nat
      BY Counters
    <3>2. CASE reason[o] = "too many errors"
      <4>1. Tried(o) = cycles[o] + 1
        BY <3>2 DEF Tried
      <4> QED
        BY <3>1, <4>1
    <3>3. CASE reason[o] # "too many errors"
      <4>1. Tried(o) = cycles[o] + 0
        BY <3>3 DEF Tried
      <4> QED
        BY <3>1, <4>1
    <3> QED
      BY <3>2, <3>3
  <2> QED
    BY <2>1, Counters DEF SummaryOK, Events
<1> QED
  BY SummaryStart, SummaryKept, <1>1, PTL DEF Spec

-------------------------------------------------------------------------------
(* How many snapshots are kept *)

\* How many snapshots a process may have left since its node was last pruned: one for
\* each cycle that failed since then, one for the cycle it is in, and whatever it
\* could when it is gone; a recording decision leaves one.
Debt(p) ==
  IF p \in Recorders THEN (IF pc[p] \in {"new", "start"} THEN 0 ELSE 1)
  ELSE IF pc[p] \in {"raised", "killed", "crashed"} THEN MaxErrors
  ELSE IF pc[p] \in {"observation", "prune", "error"} THEN consecutive[p] + 1
  ELSE consecutive[p]

\* The debts of a node as a set, so that they can be counted.
Debts(node) ==
  {d \in Processes \X (1..MaxErrors) : NodeOf[d[1]] = node /\ d[2] <= Debt(d[1])}

\* An observer that has failed as often as it may is at its end.
ErrorsBounded ==
  \A o \in Observers :
    /\ consecutive[o] <= MaxErrors
    /\ pc[o] \in {"new", "start", "loop", "save", "observation", "prune", "error"} =>
         consecutive[o] < MaxErrors

Distinct(set) == \A s, t \in set : s.id = t.id => s = t

RetentionInv ==
  /\ IdInv
  /\ IsFiniteSet(snapshots) /\ Distinct(snapshots)
  /\ DOMAIN pc = Processes /\ consecutive \in [Observers -> Nat]
  /\ ErrorsBounded
  /\ \A node \in Nodes : Cardinality(Of(node)) <= Keep + Cardinality(Debts(node))

\* The oldest of some snapshots.
LEMMA OldestExists ==
  ASSUME NEW S, IsFiniteSet(S), S # {}, \A s \in S : s.id \in Nat
  PROVE  \E m \in S : \A s \in S : m.id <= s.id
<1> DEFINE below(x) == {s \in S : s.id < x.id}
           U == {below(x) : x \in S}
           R == StrictSubsetOrdering(S)
<1>1. IsWellFoundedOn(R, SUBSET S)
  BY FS_FiniteSubsetsOfFinite, FS_StrictSubsetOrderingWellFounded
<1>2. U \subseteq SUBSET S /\ U # {}
  OBVIOUS
<1> HIDE DEF R
<1>3. PICK x \in U : \A y \in U : <<y, x>> \notin R
  BY <1>1, <1>2, WFMin
<1>4. PICK m \in S : x = below(m)
  BY <1>3
<1>5. ASSUME NEW s \in S, s.id < m.id PROVE FALSE
  <2>1. s.id \in Nat /\ m.id \in Nat
    BY <1>4
  <2>2. below(s) \in U /\ below(s) \in SUBSET S /\ below(m) \in SUBSET S
    BY <1>2
  <2>3. s \in below(m) /\ s \notin below(s)
    BY <1>5, <2>1
  <2>4. below(s) \subseteq below(m)
    <3>1. ASSUME NEW t \in S, t.id < s.id PROVE t.id < m.id
      <4>1. t.id \in Nat
        OBVIOUS
      <4> QED
        BY <1>5, <2>1, <3>1, <4>1
    <3> QED
      BY <3>1
  <2> HIDE DEF below, U
  <2>5. <<below(s), below(m)>> \in R
    BY <2>2, <2>3, <2>4 DEF R, StrictSubsetOrdering
  <2> QED
    BY <1>3, <1>4, <2>2, <2>5
<1>6. \A s \in S : s.id \in Nat /\ m.id \in Nat
  OBVIOUS
<1> HIDE DEF below, U
<1> QED
  BY <1>5, <1>6

\* What a prune leaves of a node: below the oldest of them, fewer than Keep (prune_snapshots).
LEMMA NewestBounded ==
  ASSUME NEW S, IsFiniteSet(S), Distinct(S), \A s \in S : s.id \in Nat
  PROVE  Cardinality(Newest(S)) <= Keep
<1>1. Keep \in Nat \ {0}
  BY ObserverAssumption
<1>2. IsFiniteSet(Newest(S)) /\ Newest(S) \subseteq S
  BY FS_Subset DEF Newest
<1>3. CASE Newest(S) = {}
  BY <1>1, <1>3, FS_EmptySet
<1>4. CASE Newest(S) # {}
  <2>1. PICK m \in Newest(S) : \A s \in Newest(S) : m.id <= s.id
    BY <1>2, <1>4, OldestExists
  <2> DEFINE above == {t \in S : t.id > m.id}
  <2>2. IsFiniteSet(above) /\ Cardinality(above) \in Nat /\ Cardinality(above) < Keep
    <3>1. above \in SUBSET S
      OBVIOUS
    <3>2. Cardinality(above) < Keep
      BY DEF Newest
    <3> QED
      BY <3>1, <3>2, FS_Subset, FS_CardinalityType
  <2>3. Newest(S) \subseteq above \cup {m}
    <3>1. ASSUME NEW s \in Newest(S), s # m PROVE s.id > m.id
      <4>1. s \in S /\ m \in S /\ s.id # m.id /\ m.id <= s.id /\ s.id \in Nat /\ m.id \in Nat
        BY <1>2, <2>1, <3>1 DEF Distinct
      <4> QED
        BY <4>1
    <3> QED
      BY <1>2, <3>1
  <2> HIDE DEF above
  <2>4. IsFiniteSet(above \cup {m}) /\ Cardinality(above \cup {m}) <= Cardinality(above) + 1
    <3>1. /\ IsFiniteSet(above \cup {m})
          /\ Cardinality(above \cup {m}) =
               IF m \in above THEN Cardinality(above) ELSE Cardinality(above) + 1
      BY <2>2, FS_AddElement
    <3> QED
      BY <2>2, <3>1
  <2>5. Cardinality(Newest(S)) <= Cardinality(above \cup {m})
    BY <2>3, <2>4, FS_Subset
  <2>6. Cardinality(Newest(S)) \in Nat /\ Cardinality(above \cup {m}) \in Nat
    BY <1>2, <2>4, FS_CardinalityType
  <2> QED
    BY <1>1, <2>2, <2>4, <2>5, <2>6
<1> QED
  BY <1>3, <1>4

LEMMA DebtBounded ==
  ASSUME RetentionInv, NEW p \in Processes
  PROVE  /\ Debt(p) \in 0..MaxErrors
         /\ p \in Recorders => Debt(p) <= 1
<1>1. MaxErrors \in Nat /\ 1 <= MaxErrors
  BY ObserverAssumption
<1>2. CASE p \in Recorders
  BY <1>1, <1>2 DEF Debt
<1>3. CASE p \notin Recorders
  <2>1. p \in Observers /\ consecutive[p] \in Nat /\ consecutive[p] <= MaxErrors
    BY <1>3 DEF Processes, RetentionInv, ErrorsBounded
  <2>2. pc[p] \in {"observation", "prune", "error"} => consecutive[p] + 1 <= MaxErrors
    BY <1>1, <2>1 DEF RetentionInv, ErrorsBounded
  <2> QED
    BY <1>1, <1>3, <2>1, <2>2 DEF Debt
<1> QED
  BY <1>2, <1>3

LEMMA DebtsFinite ==
  ASSUME IsFiniteSet(Processes), NEW node
  PROVE  /\ IsFiniteSet(Debts(node)) /\ Cardinality(Debts(node)) \in Nat
         /\ IsFiniteSet(Debts(node)') /\ Cardinality(Debts(node)') \in Nat
<1> DEFINE all == Processes \X (1..MaxErrors)
<1>1. IsFiniteSet(1..MaxErrors)
  <2>1. 1 \in Int /\ MaxErrors \in Int
    BY ObserverAssumption
  <2> QED
    BY <2>1, FS_Interval
<1>2. IsFiniteSet(all)
  BY <1>1, FS_Product
<1>3. Debts(node) \subseteq all /\ Debts(node)' \subseteq all
  BY DEF Debts
<1> HIDE DEF all
<1> QED
  BY <1>2, <1>3, FS_Subset, FS_CardinalityType

\* A step that leaves the snapshots, and after which nobody owes less.
LEMMA RetentionStays ==
  ASSUME IsFiniteSet(Processes), RetentionInv, IdInv', UNCHANGED snapshots,
         DOMAIN pc' = Processes, consecutive' \in [Observers -> Nat], ErrorsBounded',
         \A p \in Processes : Debt(p) <= Debt(p)' /\ Debt(p)' \in Nat
  PROVE  RetentionInv'
<1>1. ASSUME NEW node \in Nodes
      PROVE  (Cardinality(Of(node)) <= Keep + Cardinality(Debts(node)))'
  <2>1. Debts(node) \subseteq Debts(node)'
    <3>1. ASSUME NEW d \in Debts(node) PROVE d \in Debts(node)'
      <4>1. /\ d \in Processes \X (1..MaxErrors) /\ NodeOf[d[1]] = node
            /\ d[2] <= Debt(d[1])
        BY DEF Debts
      <4>2. d[1] \in Processes /\ d[2] \in Nat
        BY <4>1
      <4>3. Debt(d[1]) <= Debt(d[1])' /\ Debt(d[1])' \in Nat /\ Debt(d[1]) \in Nat
        BY <4>2, DebtBounded
      <4>4. d[2] <= Debt(d[1])'
        BY <4>1, <4>2, <4>3
      <4> QED
        BY <4>1, <4>4 DEF Debts
    <3> QED
      BY <3>1
  <2>2. Cardinality(Debts(node)) <= Cardinality(Debts(node)')
    BY <2>1, DebtsFinite, FS_Subset
  <2>3. Of(node)' = Of(node)
    BY DEF Of
  <2>4. IsFiniteSet(Of(node)) /\ Cardinality(Of(node)) \in Nat
    BY FS_Subset, FS_CardinalityType DEF Of, RetentionInv
  <2>5. Keep \in Nat
    BY ObserverAssumption
  <2> QED
    BY <2>2, <2>3, <2>4, <2>5, DebtsFinite DEF RetentionInv
<1> QED
  BY <1>1 DEF RetentionInv

\* A process that saves a snapshot owes one more.
LEMMA RetentionSaves ==
  ASSUME IsFiniteSet(Processes), RetentionInv, IdInv', NEW p \in Processes, save_snapshot(p),
         DOMAIN pc' = Processes, consecutive' \in [Observers -> Nat], ErrorsBounded',
         Debt(p) + 1 \in 1..MaxErrors, Debt(p)' = Debt(p) + 1,
         \A q \in Processes \ {p} : Debt(q)' = Debt(q)
  PROVE  RetentionInv'
<1> DEFINE s == [id |-> NextId, capture |-> captured + 1, node |-> NodeOf[p]]
<1>1. snapshots' = snapshots \cup {s}
  BY DEF save_snapshot
<1>2. s \notin snapshots /\ IsFiniteSet(snapshots') /\ Distinct(snapshots')
  <2>1. /\ NextId \in Nat /\ \A t \in snapshots : t.id \in Nat /\ t.id < NextId
    BY NextIdIsNew DEF RetentionInv, IdInv
  <2>2. \A t \in snapshots : t.id # s.id
    BY <2>1
  <2>3. IsFiniteSet(snapshots \cup {s})
    BY FS_AddElement DEF RetentionInv
  <2> HIDE DEF s
  <2>4. Distinct(snapshots \cup {s})
    BY <2>2 DEF Distinct, RetentionInv
  <2> QED
    BY <1>1, <2>2, <2>3, <2>4
<1>3. ASSUME NEW node \in Nodes
      PROVE  (Cardinality(Of(node)) <= Keep + Cardinality(Debts(node)))'
  <2>1. IsFiniteSet(Of(node)) /\ Cardinality(Of(node)) \in Nat
    BY FS_Subset, FS_CardinalityType DEF Of, RetentionInv
  <2>2. Keep \in Nat
    BY ObserverAssumption
  <2>3. \A q \in Processes : Debt(q) \in Nat
    BY DebtBounded
  <2>4. CASE node = NodeOf[p]
    <3> DEFINE d == <<p, Debt(p) + 1>>
    <3>1. Of(node)' = Of(node) \cup {s}
      BY <1>1, <2>4 DEF Of
    <3>2. Debts(node)' = Debts(node) \cup {d}
      <4>1. ASSUME NEW e \in Processes \X (1..MaxErrors)
            PROVE  e[2] <= Debt(e[1])' <=> e[2] <= Debt(e[1]) \/ e = d
        <5>1. CASE e[1] = p
          <6>1. e[2] \in Nat /\ e = <<e[1], e[2]>>
            OBVIOUS
          <6> QED
            BY <2>3, <5>1, <6>1
        <5>2. CASE e[1] # p
          <6>1. Debt(e[1])' = Debt(e[1])
            BY <5>2
          <6> QED
            BY <5>2, <6>1
        <5> QED
          BY <5>1, <5>2
      <4>2. d \in Processes \X (1..MaxErrors) /\ NodeOf[d[1]] = node
        BY <2>4
      <4> HIDE DEF d
      <4> QED
        BY <4>1, <4>2 DEF Debts
    <3>3. d \notin Debts(node)
      BY <2>3 DEF Debts
    <3>4. Cardinality(Debts(node)') = Cardinality(Debts(node)) + 1
      <4>1. IsFiniteSet(Debts(node))
        BY DebtsFinite
      <4> HIDE DEF d
      <4>2. Cardinality(Debts(node) \cup {d}) = Cardinality(Debts(node)) + 1
        BY <3>3, <4>1, FS_AddElement
      <4> QED
        BY <3>2, <4>2
    <3>5. Cardinality(Of(node)') <= Cardinality(Of(node)) + 1 /\ Cardinality(Of(node)') \in Nat
      <4>1. s \notin Of(node)
        BY <1>2 DEF Of
      <4>2. Cardinality(Of(node) \cup {s}) = Cardinality(Of(node)) + 1
        BY <2>1, <4>1, FS_AddElement
      <4> QED
        BY <2>1, <3>1, <4>2
    <3>6. Cardinality(Of(node)) <= Keep + Cardinality(Debts(node))
      BY DEF RetentionInv
    <3>7. Cardinality(Debts(node)) \in Nat
      BY DebtsFinite
    <3> QED
      BY <2>1, <2>2, <3>4, <3>5, <3>6, <3>7
  <2>5. CASE node # NodeOf[p]
    <3>1. Of(node)' = Of(node)
      BY <1>1, <2>5 DEF Of
    <3>2. Debts(node)' = Debts(node)
      <4>1. \A d \in Processes \X (1..MaxErrors) :
              NodeOf[d[1]] = node => Debt(d[1])' = Debt(d[1])
        BY <2>5
      <4> QED
        BY <4>1 DEF Debts
    <3> QED
      BY <3>1, <3>2 DEF RetentionInv
  <2> QED
    BY <2>4, <2>5
<1> QED
  BY <1>2, <1>3 DEF RetentionInv

\* An observer that prunes owes nothing, and its node keeps what it should.
LEMMA RetentionPrunes ==
  ASSUME IsFiniteSet(Processes), RetentionInv, IdInv', NEW p \in Processes,
         snapshots' = snapshots \ Pruned(NodeOf[p]),
         DOMAIN pc' = Processes, consecutive' \in [Observers -> Nat], ErrorsBounded',
         \A q \in Processes \ {p} : Debt(q)' = Debt(q)
  PROVE  RetentionInv'
<1>1. IsFiniteSet(snapshots') /\ Distinct(snapshots')
  BY FS_Subset DEF RetentionInv, Distinct
<1>2. ASSUME NEW node \in Nodes
      PROVE  (Cardinality(Of(node)) <= Keep + Cardinality(Debts(node)))'
  <2>1. IsFiniteSet(Of(node)) /\ Distinct(Of(node)) /\ \A s \in Of(node) : s.id \in Nat
    BY FS_Subset DEF Of, RetentionInv, Distinct, IdInv
  <2>2. Keep \in Nat
    BY ObserverAssumption
  <2>3. CASE node = NodeOf[p]
    <3>1. Of(node)' = Newest(Of(node))
      <4>1. Newest(Of(node)) \subseteq Of(node)
        BY DEF Newest
      <4>2. {s \in snapshots \ (Of(node) \ Newest(Of(node))) : s.node = node} = Newest(Of(node))
        <5> DEFINE kept == Newest(Of(node))
        <5>1. kept \subseteq Of(node)
          BY <4>1
        <5> HIDE DEF kept
        <5>2. {s \in snapshots \ (Of(node) \ kept) : s.node = node} = kept
          BY <5>1 DEF Of
        <5> QED
          BY <5>2 DEF kept
      <4>3. Of(node)' = {s \in snapshots' : s.node = node}
        BY DEF Of
      <4> QED
        BY <2>3, <4>2, <4>3 DEF Pruned
    <3>2. Cardinality(Of(node)') <= Keep
      BY <2>1, <3>1, NewestBounded
    <3>3. Cardinality(Of(node)') \in Nat
      <4>1. IsFiniteSet(Newest(Of(node)))
        BY <2>1, FS_Subset DEF Newest
      <4> QED
        BY <3>1, <4>1, FS_CardinalityType
    <3> QED
      BY <2>2, <3>2, <3>3, DebtsFinite
  <2>4. CASE node # NodeOf[p]
    <3>1. Of(node)' = Of(node)
      BY <2>4 DEF Of, Pruned
    <3>2. Debts(node)' = Debts(node)
      <4>1. \A d \in Processes \X (1..MaxErrors) :
              NodeOf[d[1]] = node => Debt(d[1])' = Debt(d[1])
        BY <2>4
      <4> QED
        BY <4>1 DEF Debts
    <3> QED
      BY <3>1, <3>2 DEF RetentionInv
  <2> QED
    BY <2>3, <2>4
<1> QED
  BY <1>1, <1>2 DEF RetentionInv

LEMMA RetentionStarts == ASSUME IsFiniteSet(Processes) PROVE Init => RetentionInv
<1> SUFFICES ASSUME Init PROVE RetentionInv
  OBVIOUS
<1>1. IdInv
  BY IdsStart
<1>2. PICK n \in 0..Keep, node \in Nodes :
        snapshots = {[id |-> i, capture |-> i, node |-> node] : i \in 1..n}
  BY DEF Init, Nodes
<1>3. n \in Nat /\ n <= Keep /\ Keep \in Nat /\ MaxErrors \in Nat \ {0}
  BY ObserverAssumption
<1> DEFINE f == [i \in 1..n |-> [id |-> i, capture |-> i, node |-> node]]
<1>4. f \in Surjection(1..n, snapshots)
  BY <1>2 DEF Surjection
<1>5. IsFiniteSet(1..n) /\ Cardinality(1..n) = n
  <2>1. 1 \in Int /\ n \in Int
    BY <1>3
  <2>2. Cardinality(1..n) = IF 1 > n THEN 0 ELSE n - 1 + 1
    BY <2>1, FS_Interval
  <2> QED
    BY <1>3, <2>1, <2>2, FS_Interval
<1>6. IsFiniteSet(snapshots) /\ Cardinality(snapshots) <= n
  BY <1>4, <1>5, FS_Surjection
<1>7. Distinct(snapshots)
  BY <1>2 DEF Distinct
<1>8. ASSUME NEW m \in Nodes PROVE Cardinality(Of(m)) <= Keep + Cardinality(Debts(m))
  <2>1. Of(m) \in SUBSET snapshots
    BY DEF Of
  <2>2. Cardinality(Of(m)) <= Cardinality(snapshots)
    BY <1>6, <2>1, FS_Subset
  <2>3. Cardinality(Of(m)) \in Nat /\ Cardinality(snapshots) \in Nat
    BY <1>6, <2>1, FS_Subset, FS_CardinalityType
  <2> QED
    BY <1>3, <1>6, <2>2, <2>3, DebtsFinite
<1>9. DOMAIN pc = Processes /\ consecutive \in [Observers -> Nat] /\ ErrorsBounded
  BY <1>3 DEF Init, ErrorsBounded
<1> QED
  BY <1>1, <1>6, <1>7, <1>8, <1>9 DEF RetentionInv

\* What a step makes of a process.
LEMMA OthersOwe ==
  ASSUME RetentionInv, NEW p \in Processes, NEW label, Goto(p, label),
         \/ UNCHANGED consecutive
         \/ p \in Observers /\ \E n \in Nat : consecutive' = [consecutive EXCEPT ![p] = n]
  PROVE  /\ DOMAIN pc' = Processes /\ pc'[p] = label
         /\ consecutive' \in [Observers -> Nat]
         /\ \A q \in Processes \ {p} : Debt(q)' = Debt(q)
         /\ (p \in Observers => consecutive'[p] <= MaxErrors
                /\ (label \in {"new", "start", "loop", "save", "observation", "prune", "error"} =>
                      consecutive'[p] < MaxErrors))
            => ErrorsBounded'
<1>1. /\ \A q \in Processes \ {p} : pc'[q] = pc[q]
      /\ DOMAIN pc' = Processes /\ pc'[p] = label
  BY DEF Goto, RetentionInv
<1>2. /\ consecutive' \in [Observers -> Nat]
      /\ \A o \in Observers \ {p} : consecutive'[o] = consecutive[o]
  BY DEF RetentionInv
<1>3. \A q \in Processes : q \in Recorders \/ q \in Observers
  BY DEF Processes
<1>4. \A q \in Processes \ {p} : Debt(q)' = Debt(q)
  BY <1>1, <1>2, <1>3 DEF Debt
<1>5. ErrorsBounded
  BY DEF RetentionInv
<1>6. \A o \in Observers : o \in Processes
  BY DEF Processes
<1> QED
  BY <1>1, <1>2, <1>4, <1>5, <1>6 DEF ErrorsBounded

Going == {"new", "start", "loop", "save", "observation", "prune", "error"}

\* A step of an observer that neither saves nor prunes, and counts no error.
LEMMA RetentionMoves ==
  ASSUME IsFiniteSet(Processes), RetentionInv, IdInv', UNCHANGED <<snapshots, consecutive>>,
         NEW o \in Observers, NEW label, Goto(o, label),
         \/ label \in {"raised", "killed", "crashed"}
         \/ pc[o] \in {"loop", "save", "observation", "prune"} /\ label = "error"
         \/ pc[o] \in {"new", "start", "loop"} /\ label \in {"start", "loop", "save", "stop"}
         \/ pc[o] = "observation" /\ label = "prune"
         \/ pc[o] = "stop" /\ label = "returned"
  PROVE  RetentionInv'
<1>0. MaxErrors \in Nat \ {0} /\ o \notin Recorders /\ o \in Processes
  BY ObserverAssumption DEF Processes
<1>1. /\ DOMAIN pc' = Processes /\ pc'[o] = label /\ consecutive' \in [Observers -> Nat]
      /\ \A q \in Processes \ {o} : Debt(q)' = Debt(q)
  BY <1>0, OthersOwe
<1>2. /\ consecutive[o] \in Nat /\ consecutive[o] <= MaxErrors
      /\ pc[o] \in Going => consecutive[o] < MaxErrors
  BY DEF RetentionInv, ErrorsBounded, Going
<1>3. ErrorsBounded'
  <2>1. consecutive'[o] <= MaxErrors /\ (label \in Going => consecutive'[o] < MaxErrors)
    BY <1>2 DEF Going
  <2> QED
    BY <1>0, <2>1, OthersOwe DEF Going
<1>4. Debt(o) \in 0..MaxErrors
  BY <1>0, DebtBounded
<1>5. Debt(o) <= Debt(o)' /\ Debt(o)' \in Nat
  <2>1. CASE label \in {"raised", "killed", "crashed"}
    <3>1. Debt(o)' = MaxErrors
      BY <1>0, <1>1, <2>1 DEF Debt
    <3> QED
      BY <1>0, <1>4, <3>1
  <2>2. CASE pc[o] \in {"loop", "save", "observation", "prune"} /\ label = "error"
    <3>1. Debt(o)' = consecutive[o] + 1
      BY <1>0, <1>1, <2>2 DEF Debt
    <3>2. Debt(o) \in {consecutive[o], consecutive[o] + 1}
      BY <1>0, <2>2 DEF Debt
    <3> QED
      BY <1>2, <3>1, <3>2
  <2>3. CASE \/ pc[o] \in {"new", "start", "loop"} /\ label \in {"start", "loop", "save", "stop"}
             \/ pc[o] = "observation" /\ label = "prune"
             \/ pc[o] = "stop" /\ label = "returned"
    <3>1. Debt(o)' = Debt(o)
      BY <1>0, <1>1, <2>3 DEF Debt
    <3> QED
      BY <1>4, <3>1
  <2> QED
    BY <2>1, <2>2, <2>3
<1>6. \A q \in Processes : Debt(q) <= Debt(q)' /\ Debt(q)' \in Nat
  <2>1. \A q \in Processes : Debt(q) \in Nat
    BY DebtBounded
  <2> QED
    BY <1>1, <1>5, <2>1
<1> QED
  BY <1>1, <1>3, <1>6, RetentionStays

\* A step of a recorder that does not save.
LEMMA RetentionRecords ==
  ASSUME IsFiniteSet(Processes), RetentionInv, IdInv', UNCHANGED <<snapshots, consecutive>>,
         NEW r \in Recorders, NEW label, Goto(r, label),
         pc[r] \in {"new", "start"} \/ label \notin {"new", "start"}
  PROVE  RetentionInv'
<1>1. r \in Processes /\ r \notin Observers
  BY ObserverAssumption DEF Processes
<1>2. /\ DOMAIN pc' = Processes /\ pc'[r] = label /\ consecutive' \in [Observers -> Nat]
      /\ \A q \in Processes \ {r} : Debt(q)' = Debt(q)
      /\ ErrorsBounded'
  BY <1>1, OthersOwe
<1>3. Debt(r) <= Debt(r)' /\ Debt(r)' \in Nat
  BY <1>2 DEF Debt
<1>4. \A q \in Processes : Debt(q) <= Debt(q)' /\ Debt(q)' \in Nat
  <2>1. \A q \in Processes : Debt(q) \in Nat
    BY DebtBounded
  <2> QED
    BY <1>2, <1>3, <2>1
<1> QED
  BY <1>2, <1>4, RetentionStays

\* The error is counted, and the cycle is over.
LEMMA RetentionErrs ==
  ASSUME IsFiniteSet(Processes), RetentionInv, IdInv', NEW o \in Observers, AuditError(o)
  PROVE  RetentionInv'
<1>0. MaxErrors \in Nat \ {0} /\ o \notin Recorders /\ o \in Processes
  BY ObserverAssumption DEF Processes
<1>1. PICK label \in {"loop", "stop"} :
        Goto(o, label) /\ (label = "loop" => consecutive[o] + 1 < MaxErrors)
  <2>1. CASE consecutive[o] + 1 >= MaxErrors
    BY <2>1 DEF AuditError, GiveUp
  <2>2. CASE ~(consecutive[o] + 1 >= MaxErrors)
    <3>1. consecutive[o] \in Nat
      BY DEF RetentionInv
    <3>2. consecutive[o] + 1 < MaxErrors
      BY <1>0, <2>2, <3>1
    <3> QED
      BY <2>2, <3>2 DEF AuditError, Count
  <2> QED
    BY <2>1, <2>2
<1>2. /\ pc[o] = "error" /\ UNCHANGED snapshots
      /\ consecutive' = [consecutive EXCEPT ![o] = consecutive[o] + 1]
      /\ consecutive[o] \in Nat /\ consecutive[o] < MaxErrors
  BY DEF AuditError, RetentionInv, ErrorsBounded
<1>3. consecutive'[o] = consecutive[o] + 1 /\ consecutive[o] + 1 \in Nat
  BY <1>2 DEF RetentionInv
<1>4. /\ DOMAIN pc' = Processes /\ pc'[o] = label /\ consecutive' \in [Observers -> Nat]
      /\ \A q \in Processes \ {o} : Debt(q)' = Debt(q)
  BY <1>0, <1>1, <1>2, <1>3, OthersOwe
<1>5. ErrorsBounded'
  <2>1. consecutive'[o] <= MaxErrors /\ (label = "loop" => consecutive'[o] < MaxErrors)
    BY <1>0, <1>1, <1>2, <1>3
  <2> QED
    BY <1>0, <1>1, <1>2, <1>3, <2>1, OthersOwe
<1>6. Debt(o)' = Debt(o) /\ Debt(o) \in Nat
  <2>1. Debt(o) = consecutive[o] + 1
    BY <1>0, <1>2 DEF Debt
  <2>2. Debt(o)' = consecutive'[o]
    BY <1>0, <1>1, <1>4 DEF Debt
  <2> QED
    BY <1>3, <2>1, <2>2
<1>7. \A q \in Processes : Debt(q) <= Debt(q)' /\ Debt(q)' \in Nat
  <2>1. \A q \in Processes : Debt(q) \in Nat
    BY DebtBounded
  <2> QED
    BY <1>4, <1>6, <2>1
<1> QED
  BY <1>2, <1>4, <1>5, <1>7, RetentionStays

LEMMA RetentionKept ==
  ASSUME IsFiniteSet(Processes) PROVE RetentionInv /\ [Next]_vars => RetentionInv'
<1> SUFFICES ASSUME RetentionInv, [Next]_vars PROVE RetentionInv'
  OBVIOUS
<1>0. IdInv' /\ MaxErrors \in Nat \ {0} /\ Observers \cap Recorders = {}
  BY IdsKept, ObserverAssumption DEF RetentionInv
<1>1. ASSUME NEW o \in Observers, Save(o) PROVE RetentionInv'
  <2>0. o \in Processes /\ o \notin Recorders
    BY <1>0 DEF Processes
  <2>1. /\ pc[o] = "save" /\ save_snapshot(o) /\ Goto(o, "observation")
        /\ UNCHANGED consecutive
        /\ consecutive[o] \in Nat /\ consecutive[o] < MaxErrors
    BY <1>1 DEF Save, RetentionInv, ErrorsBounded, counters
  <2>2. /\ DOMAIN pc' = Processes /\ pc'[o] = "observation"
        /\ consecutive' \in [Observers -> Nat]
        /\ \A q \in Processes \ {o} : Debt(q)' = Debt(q)
        /\ ErrorsBounded'
    BY <1>0, <2>0, <2>1, OthersOwe
  <2>3. Debt(o) = consecutive[o]
    BY <2>0, <2>1 DEF Debt
  <2>4. Debt(o)' = consecutive[o] + 1
    BY <2>0, <2>1, <2>2 DEF Debt
  <2>5. Debt(o)' = Debt(o) + 1 /\ Debt(o) + 1 \in 1..MaxErrors
    BY <1>0, <2>1, <2>3, <2>4
  <2> QED
    BY <1>0, <2>0, <2>1, <2>2, <2>5, RetentionSaves
<1>2. ASSUME NEW r \in Recorders, RecordSnapshot(r) PROVE RetentionInv'
  <2>0. r \in Processes /\ r \notin Observers
    BY <1>0 DEF Processes
  <2>1. /\ pc[r] = "start" /\ save_snapshot(r) /\ Goto(r, "decision") /\ UNCHANGED consecutive
    BY <1>2 DEF RecordSnapshot, counters
  <2>2. /\ DOMAIN pc' = Processes /\ pc'[r] = "decision"
        /\ consecutive' \in [Observers -> Nat]
        /\ \A q \in Processes \ {r} : Debt(q)' = Debt(q)
        /\ ErrorsBounded'
    BY <2>0, <2>1, OthersOwe
  <2>3. Debt(r) = 0 /\ Debt(r)' = 1
    BY <2>1, <2>2 DEF Debt
  <2>4. Debt(r)' = Debt(r) + 1 /\ Debt(r) + 1 \in 1..MaxErrors
    BY <1>0, <2>3
  <2> QED
    BY <1>0, <2>0, <2>1, <2>2, <2>4, RetentionSaves
<1>3. ASSUME NEW o \in Observers, Prune(o) PROVE RetentionInv'
  <2>0. o \in Processes /\ o \notin Recorders
    BY <1>0 DEF Processes
  <2>1. PICK label : Goto(o, label)
    BY <1>3 DEF Prune, Count
  <2>2. snapshots' = snapshots \ Pruned(NodeOf[o]) /\ consecutive' = [consecutive EXCEPT ![o] = 0]
    BY <1>3 DEF Prune
  <2>3. /\ DOMAIN pc' = Processes
        /\ consecutive' \in [Observers -> Nat]
        /\ \A q \in Processes \ {o} : Debt(q)' = Debt(q)
    BY <2>0, <2>1, <2>2, OthersOwe
  <2>4. consecutive'[o] = 0
    BY <2>2 DEF RetentionInv
  <2>5. consecutive'[o] <= MaxErrors /\ consecutive'[o] < MaxErrors
    BY <1>0, <2>4
  <2>6. ErrorsBounded'
    BY <2>0, <2>1, <2>2, <2>5, OthersOwe
  <2> QED
    BY <1>0, <2>0, <2>2, <2>3, <2>6, RetentionPrunes
<1>4. ASSUME NEW o \in Observers,
             \/ Started(o) \/ NotStarted(o) \/ Heed(o) \/ Collect(o) \/ Observe(o)
             \/ CycleFails(o) \/ HandlerFails(o) \/ Stopped(o) \/ NotStopped(o)
      PROVE  RetentionInv'
  <2>1. /\ UNCHANGED <<snapshots, consecutive>>
        /\ \/ \E label \in {"raised", "killed"} : Goto(o, label)
           \/ pc[o] \in {"loop", "save", "observation", "prune"} /\ Goto(o, "error")
           \/ pc[o] \in {"start", "loop"} /\ \E label \in {"loop", "save", "stop"} : Goto(o, label)
           \/ pc[o] = "observation" /\ Goto(o, "prune")
           \/ pc[o] = "stop" /\ Goto(o, "returned")
    BY <1>4 DEF Started, NotStarted, Heed, Collect, Observe, CycleFails, HandlerFails, Stopped,
       NotStopped, Raises, database, counters
  <2> QED
    BY <1>0, <2>1, RetentionMoves
<1>5. ASSUME NEW o \in Observers, AuditError(o) PROVE RetentionInv'
  BY <1>0, <1>5, RetentionErrs
<1>6. ASSUME NEW r \in Recorders, RecordDecision(r) \/ RecorderFails(r) PROVE RetentionInv'
  <2>1. /\ UNCHANGED <<snapshots, consecutive>>
        /\ \E label \in {"returned", "raised"} : Goto(r, label)
    BY <1>6 DEF RecordDecision, RecorderFails, Raises, database, counters
  <2> QED
    BY <1>0, <2>1, RetentionRecords
<1>7. ASSUME NEW p \in Processes, Launch(p) \/ Crash(p) PROVE RetentionInv'
  <2>1. /\ UNCHANGED <<snapshots, consecutive>>
        /\ \/ pc[p] = "new" /\ Goto(p, "start")
           \/ Goto(p, "crashed")
    BY <1>7 DEF Launch, Crash, database, counters
  <2>2. CASE p \in Observers
    BY <1>0, <2>1, <2>2, RetentionMoves
  <2>3. CASE p \in Recorders
    BY <1>0, <2>1, <2>3, RetentionRecords
  <2> QED
    BY <2>2, <2>3 DEF Processes
<1>8. ASSUME UNCHANGED <<snapshots, pc, consecutive>> PROVE RetentionInv'
  <2>1. \A q \in Processes : Debt(q)' = Debt(q) /\ Debt(q) \in Nat
    BY <1>8, DebtBounded DEF Debt
  <2>2. DOMAIN pc' = Processes /\ consecutive' \in [Observers -> Nat] /\ ErrorsBounded'
    BY <1>8 DEF RetentionInv, ErrorsBounded
  <2> QED
    BY <1>0, <1>8, <2>1, <2>2, RetentionStays
<1>9. \A o \in Observers : Signal(o) => UNCHANGED <<snapshots, pc, consecutive>>
  BY DEF Signal, database, counters
<1> QED
  BY <1>1, <1>2, <1>3, <1>4, <1>5, <1>6, <1>7, <1>8, <1>9
  DEF Next, Step, vars, database, counters

\* docs/OBSERVER.md: "only the newest --keep-snapshots per node are kept".  For any
\* number of observers and recording decisions, however often a call of theirs raises
\* and whoever dies, a node has no more snapshots beyond those than the observers may
\* fail in a row and the decisions add (observe, prune_snapshots, run_once).
THEOREM RetentionHolds == ASSUME IsFiniteSet(Processes) PROVE Spec => []RetentionBounded
<1>1. RetentionInv => RetentionBounded
  <2> SUFFICES ASSUME RetentionInv, NEW node \in Nodes
               PROVE  Cardinality(Of(node)) <=
                        Keep + MaxErrors * Cardinality({o \in Observers : NodeOf[o] = node})
                             + Cardinality({r \in Recorders : NodeOf[r] = node})
    BY DEF RetentionBounded, Nodes
  <2> DEFINE os == {o \in Observers : NodeOf[o] = node}
             rs == {r \in Recorders : NodeOf[r] = node}
             ds == os \X (1..MaxErrors)
             es == rs \X {1}
  <2>1. IsFiniteSet(os) /\ IsFiniteSet(rs) /\ IsFiniteSet(1..MaxErrors) /\ IsFiniteSet({1})
        /\ Cardinality(1..MaxErrors) = MaxErrors /\ Cardinality({1}) = 1
    <3>1. os \in SUBSET Processes /\ rs \in SUBSET Processes
      BY DEF Processes
    <3>2. 1 \in Int /\ MaxErrors \in Nat \ {0}
      BY ObserverAssumption
    <3>3. Cardinality(1..MaxErrors) = IF 1 > MaxErrors THEN 0 ELSE MaxErrors - 1 + 1
      BY <3>2, FS_Interval
    <3>4. IsFiniteSet(1..MaxErrors)
      BY <3>2, FS_Interval
    <3>5. Cardinality(1..MaxErrors) = MaxErrors
      BY <3>2, <3>3
    <3> HIDE DEF os, rs
    <3> QED
      BY <3>1, <3>4, <3>5, FS_Subset, FS_Singleton
  <2>2. Debts(node) \subseteq ds \cup es
    <3>1. ASSUME NEW d \in Debts(node) PROVE d \in ds \cup es
      <4>1. /\ d[1] \in Processes /\ d[2] \in 1..MaxErrors /\ d = <<d[1], d[2]>>
            /\ NodeOf[d[1]] = node /\ d[2] <= Debt(d[1])
        BY DEF Debts
      <4>2. CASE d[1] \in Recorders
        <5>1. Debt(d[1]) <= 1 /\ Debt(d[1]) \in 0..MaxErrors /\ MaxErrors \in Nat
          BY <4>1, <4>2, DebtBounded, ObserverAssumption
        <5>2. d[2] = 1
          BY <4>1, <5>1
        <5> QED
          BY <4>1, <4>2, <5>2
      <4>3. CASE d[1] \notin Recorders
        BY <4>1, <4>3 DEF Processes
      <4> QED
        BY <4>2, <4>3
    <3> QED
      BY <3>1
  <2> HIDE DEF os, rs
  <2>3. /\ IsFiniteSet(ds) /\ Cardinality(ds) = Cardinality(os) * MaxErrors
        /\ IsFiniteSet(es) /\ Cardinality(es) = Cardinality(rs) * 1
    BY <2>1, FS_Product
  <2> HIDE DEF ds, es
  <2>4. IsFiniteSet(ds \cup es) /\ Cardinality(ds \cup es) =
          Cardinality(ds) + Cardinality(es) - Cardinality(ds \cap es)
    BY <2>3, FS_Union
  <2>5. IsFiniteSet(ds \cap es) /\ Cardinality(ds \cap es) \in Nat
    BY <2>3, FS_Intersection, FS_CardinalityType
  <2>6. Cardinality(Debts(node)) <= Cardinality(ds \cup es)
    BY <2>2, <2>4, FS_Subset
  <2>7. Cardinality(Of(node)) <= Keep + Cardinality(Debts(node))
    BY DEF RetentionInv
  <2>8. /\ Cardinality(os) \in Nat /\ Cardinality(rs) \in Nat /\ Cardinality(Debts(node)) \in Nat
        /\ Keep \in Nat /\ MaxErrors \in Nat
    BY <2>1, DebtsFinite, FS_CardinalityType, ObserverAssumption
  <2>9. Cardinality(Of(node)) \in Nat
    BY FS_Subset, FS_CardinalityType DEF Of, RetentionInv
  <2>10. Cardinality(os) * MaxErrors = MaxErrors * Cardinality(os)
    BY <2>8
  <2>11. Cardinality(os) * MaxErrors \in Nat
    BY <2>8
  <2> DEFINE m == Cardinality(os) * MaxErrors
  <2>12. m \in Nat /\ m = Cardinality(ds) /\ m = MaxErrors * Cardinality(os)
    BY <2>3, <2>10, <2>11
  <2> HIDE DEF m
  <2>13. Cardinality(Of(node)) <= Keep + m + Cardinality(rs)
    BY <2>3, <2>4, <2>5, <2>6, <2>7, <2>8, <2>9, <2>12
  <2> QED
    BY <2>12, <2>13 DEF os, rs
<1> QED
  BY RetentionStarts, RetentionKept, <1>1, PTL DEF Spec
===============================================================================
