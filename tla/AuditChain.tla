------------------------------ MODULE AuditChain ------------------------------
(***************************************************************************)
(* The audit log: a table of events, each chained to the one before by a   *)
(* hash, that several nordfir processes append to at the same time and     *)
(* that verify_audit checks from the start.                                *)
(*                                                                         *)
(* A writer is a process in record_audit.  What SQLite contributes is a    *)
(* write lock, which BEGIN IMMEDIATE takes or times out on, and a commit   *)
(* that happens or does not; a process that dies gives its lock back and   *)
(* leaves no half a row.  A digest is modelled by the sequence of contents *)
(* it is computed from, so that two digests agree exactly when all that    *)
(* they cover agrees, which is what SHA-256 is used for.                   *)
(***************************************************************************)
EXTENDS SequencesExt, Integers

CONSTANTS
  Writers,     \* the processes that record events
  Contents,    \* what an event may say: recorded_at, event and detail
  None,        \* SQL's NULL
  MaxLegacy,   \* bound on the events from before there were hashes
  MaxEvents,   \* bound on the length of the table when an event is recorded
  MaxDamage    \* bound on how often the file is edited behind nordfir's back

ASSUME AuditChainAssumption ==
  /\ None \notin Seq(Contents)
  /\ None \notin Writers
  /\ MaxLegacy \in Nat /\ MaxEvents \in Nat /\ MaxDamage \in Nat

ASSUME NoneIsNoError == None \notin {"lost its hash", "chain broken", "modified"}

VARIABLES
  table,       \* the committed rows of audit_events, in the order of their ids
  lock,        \* the process that holds SQLite's write lock, or None
  pc,          \* where a writer is
  content,     \* what it records
  row,         \* the row it is about to commit
  anchor,      \* the head that was noted outside the machine
  damages,     \* how often the file was edited
  anchored,    \* history: the chained contents when the anchor was noted
  before,      \* history: the table when the file was last edited
  since        \* history: the contents recorded since then

writer == <<pc, content, row>>
history == <<damages, anchored, before, since>>
vars == <<table, lock, writer, anchor, history>>

-------------------------------------------------------------------------------
(* The chain *)

GENESIS == <<>>

\* Mutant: the digest does not cover what comes before.
HashOfContent(prev, what) == <<what>>

_hash(prev, what) == Append(prev, what)

Row(what, prev, hash) == [content |-> what, prev_hash |-> prev, hash |-> hash]

Hashed(rows) == {i \in DOMAIN rows : rows[i].hash # None}
Legacy(rows) == Len(rows) - Cardinality(Hashed(rows))

\* Mutant: the head is the last row's, whether it has a hash or not.
HeadOfTable(rows) == IF rows = <<>> THEN GENESIS ELSE Last(rows).hash

audit_head(rows) ==
  IF Hashed(rows) = {} THEN GENESIS
  ELSE rows[CHOOSE i \in Hashed(rows) : \A j \in Hashed(rows) : j <= i].hash

\* AuditVerification; an error is named by the check that reports it.
NothingChecked == [error |-> None, checked |-> 0, legacy |-> 0, head |-> GENESIS]

\* Mutants: a row without a hash is passed over wherever it is; the content of a
\* row is not compared with its hash.
InconsistencyPassing(report, r) ==
  CASE r.hash = None -> None
    [] r.hash # None /\ r.prev_hash # report.head -> "chain broken"
    [] /\ r.hash # None /\ r.prev_hash = report.head
       /\ r.hash # _hash(r.prev_hash, r.content) -> "modified"
    [] OTHER -> None
InconsistencyOfOrder(report, r) ==
  CASE r.hash = None /\ report.checked > 0 -> "lost its hash"
    [] r.hash # None /\ r.prev_hash # report.head -> "chain broken"
    [] OTHER -> None

\* What is wrong with a row after the rows reported on, if anything is.
Inconsistency(report, r) ==
  CASE r.hash = None /\ report.checked > 0 -> "lost its hash"
    [] r.hash # None /\ r.prev_hash # report.head -> "chain broken"
    [] /\ r.hash # None /\ r.prev_hash = report.head
       /\ r.hash # _hash(r.prev_hash, r.content) -> "modified"
    [] OTHER -> None

Counted(report, r) ==
  IF r.hash = None THEN [report EXCEPT !.legacy = @ + 1]
                   ELSE [report EXCEPT !.head = r.hash, !.checked = @ + 1]

\* One row of the loop of verify_audit, which ends at the first inconsistency.
Check(report, r) ==
  IF report.error # None THEN report
  ELSE IF Inconsistency(report, r) = None THEN Counted(report, r)
  ELSE [report EXCEPT !.error = Inconsistency(report, r)]

verify_audit(rows) == FoldLeft(Check, NothingChecked, rows)
ok(rows) == verify_audit(rows).error = None

-------------------------------------------------------------------------------
(* record_audit *)

Init ==
  /\ \E n \in 0..MaxLegacy : \E old \in [1..n -> Contents] :
       table = [i \in 1..n |-> Row(old[i], None, None)]
  /\ lock = None
  /\ pc = [w \in Writers |-> "idle"]
  /\ content = [w \in Writers |-> None]
  /\ row = [w \in Writers |-> None]
  /\ anchor = GENESIS
  /\ damages = 0
  /\ anchored = <<>>
  /\ before = <<>>
  /\ since = <<>>

Call(w, what) ==
  /\ pc[w] = "idle" /\ Len(table) < MaxEvents
  /\ pc' = [pc EXCEPT ![w] = "begin"]
  /\ content' = [content EXCEPT ![w] = what]
  /\ UNCHANGED <<table, lock, row, anchor, history>>

\* Mutant: no transaction is opened before the head is read.
BeginNothing(w) ==
  /\ pc[w] = "begin"
  /\ pc' = [pc EXCEPT ![w] = "head"]
  /\ UNCHANGED <<table, lock, content, row, anchor, history>>

\* BEGIN IMMEDIATE, when the lock is free.
Begin(w) ==
  /\ pc[w] = "begin" /\ lock = None
  /\ lock' = w
  /\ pc' = [pc EXCEPT ![w] = "head"]
  /\ UNCHANGED <<table, content, row, anchor, history>>

Insert(w) ==
  /\ pc[w] = "head"
  /\ row' = [row EXCEPT ![w] = LET prev == audit_head(table)
                               IN  Row(content[w], prev, _hash(prev, content[w]))]
  /\ pc' = [pc EXCEPT ![w] = "commit"]
  /\ UNCHANGED <<table, lock, content, anchor, history>>

\* The writer is out of record_audit: it returned, raised, or is gone.
Leave(w) ==
  /\ pc' = [pc EXCEPT ![w] = "idle"]
  /\ content' = [content EXCEPT ![w] = None]
  /\ row' = [row EXCEPT ![w] = None]
  /\ lock' = IF lock = w THEN None ELSE lock

Commit(w) ==
  /\ pc[w] = "commit"
  /\ table' = Append(table, row[w])
  /\ since' = IF damages = 0 THEN since ELSE Append(since, row[w].content)
  /\ Leave(w)
  /\ UNCHANGED <<anchor, damages, anchored, before>>

\* The lock was not to be had in time; a statement failed and the transaction was
\* rolled back; or the process died, and its caller is another one from now on.
Abandon(w) ==
  /\ pc[w] # "idle"
  /\ Leave(w)
  /\ UNCHANGED <<table, anchor, history>>

-------------------------------------------------------------------------------
(* What happens to the file from outside, and the copy of its head *)

\* What the chain of a table in order covers: the rows after those without a hash.
Chain(rows) ==
  LET length == Cardinality(Hashed(rows))
  IN  [i \in 1..length |-> rows[Len(rows) - length + i].content]

\* audit-verify prints the head of a log in order, and somebody keeps it.
NoteHead ==
  /\ ok(table)
  /\ anchor' = audit_head(table)
  /\ anchored' = Chain(table)
  /\ UNCHANGED <<table, lock, writer, damages, before, since>>

Stripped(r) == [r EXCEPT !.prev_hash = None, !.hash = None]

\* Any number of events removed.
Removals(rows) ==
  LET Kept(n) == {f \in [1..n -> DOMAIN rows] : \A i, j \in 1..n : i < j => f[i] < f[j]}
  IN  UNION {{[i \in 1..n |-> rows[f[i]]] : f \in Kept(n)} : n \in 0..Len(rows)}

\* Any number of hashes stripped.
Strippings(rows) ==
  {[i \in DOMAIN rows |-> IF i \in bare THEN Stripped(rows[i]) ELSE rows[i]] :
     bare \in SUBSET DOMAIN rows}

\* An event rewritten.
Rewritings(rows) ==
  {[rows EXCEPT ![i].content = what] : i \in DOMAIN rows, what \in Contents}

\* Two events exchanged.
Exchanges(rows) ==
  {[rows EXCEPT ![i] = rows[j], ![j] = rows[i]] : i, j \in DOMAIN rows}

Edits(rows) == Removals(rows) \cup Strippings(rows) \cup Rewritings(rows) \cup Exchanges(rows)

Edit ==
  /\ damages < MaxDamage /\ lock = None
  /\ damages' = damages + 1
  /\ before' = table
  /\ since' = <<>>
  /\ table' \in Edits(table)
  /\ UNCHANGED <<lock, writer, anchor, anchored>>

-------------------------------------------------------------------------------

Next ==
  \/ \E w \in Writers :
       \/ \E what \in Contents : Call(w, what)
       \/ Begin(w) \/ Insert(w) \/ Commit(w) \/ Abandon(w)
  \/ NoteHead
  \/ Edit

Spec == Init /\ [][Next]_vars

-------------------------------------------------------------------------------
(* Properties *)

Digests == Seq(Contents) \cup {None}
Rows == [content : Contents, prev_hash : Digests, hash : Digests]

\* What the variables may hold.
TypeOK ==
  /\ table \in Seq(Rows)
  /\ lock \in Writers \cup {None}
  /\ pc \in [Writers -> {"idle", "begin", "head", "commit"}]
  /\ content \in [Writers -> Contents \cup {None}]
  /\ \A w \in Writers : pc[w] # "idle" => content[w] \in Contents
  /\ row \in [Writers -> Rows \cup {None}]
  /\ \A w \in Writers : pc[w] = "commit" => row[w] \in Rows
  /\ anchor \in Seq(Contents)
  /\ damages \in 0..MaxDamage

\* A table in order, said without a loop: first the events from before there were
\* hashes, then a chain that begins at GENESIS and whose every hash is right.
Chained(rows) ==
  \E n \in 0..Len(rows) :
    /\ \A i \in 1..n : rows[i].hash = None
    /\ \A i \in (n+1)..Len(rows) :
         /\ rows[i].hash # None
         /\ rows[i].prev_hash = IF i = n + 1 THEN GENESIS ELSE rows[i-1].hash
         /\ rows[i].hash = _hash(rows[i].prev_hash, rows[i].content)

\* "Two writers cannot chain to the same predecessor": however writers overlap,
\* time out, fail or die, the log they leave is in order (record_audit).
LogChained == damages = 0 => Chained(table)

\* verify_audit reports an error for exactly the tables that are not in order, and
\* of one in order the number of chained and of older events and the head; whatever
\* was done to the table.
VerifiesWhatIsChained ==
  /\ ok(table) <=> Chained(table)
  /\ ok(table) =>
       /\ verify_audit(table).head = audit_head(table)
       /\ verify_audit(table).checked = Cardinality(Hashed(table))
       /\ verify_audit(table).legacy = Legacy(table)

\* What an edit can do without being told.  After one edit a log that verifies holds
\* the chain as it was but for events removed from its end, with the events recorded
\* since on top, and no event of the chain counts as older than the chain
\* (docs/AUDIT.md:33-37); or every event has lost its hash, and the log is one of
\* older events only and of those recorded since.  docs/AUDIT.md:25-29 says that a
\* stripped hash is told: it is, unless no hash is left.  Recording further events
\* mends no other edit.
EditTold ==
  damages = 1 /\ ok(table) =>
    \/ /\ Legacy(table) <= Legacy(before)
       /\ \E k \in 0..Len(Chain(before)) : Chain(table) = SubSeq(Chain(before), 1, k) \o since
    \/ Legacy(table) = Len(before) /\ Chain(table) = since

\* "Record the head hash off the machine and compare later": a log that verifies
\* and holds the noted head has every event up to it, unaltered; an untouched log
\* always holds it.
AnchorTold ==
  LET heads == {GENESIS} \cup {table[i].hash : i \in Hashed(table)}
  IN  /\ ok(table) /\ anchor \in heads => IsPrefix(anchored, Chain(table))
      /\ damages = 0 => anchor \in heads
===============================================================================
