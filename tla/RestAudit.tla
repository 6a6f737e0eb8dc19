------------------------------- MODULE RestAudit ------------------------------
(***************************************************************************)
(* The Rust engine's audit: an event goes to every configured sink, one    *)
(* after another, and counts as recorded when all of them accepted it.     *)
(* The first sink is the private file; the others are the collectors       *)
(* behind Unix sockets.                                                    *)
(***************************************************************************)
EXTENDS RestCommands, Naturals, Sequences

CONSTANT Sinks      \* how many sinks there are

VARIABLES
  event,      \* what a command is recording
  delivered   \* history: the events that a sink has

auditVars == <<event, delivered>>

Kinds == {"intent", "retired", "executed", "failed"}

ASSUME RestAuditAssumption == Sinks \in Nat \ {0} /\ None \notin Kinds

NoEvent == [kind |-> None, next |-> 0, failed |-> FALSE]

AuditInit == event = [c \in Commands |-> NoEvent] /\ delivered = {}

\* record: the event is handed to the sinks.
Tell(c, kind) == event' = [event EXCEPT ![c] = [kind |-> kind, next |-> 1, failed |-> FALSE]]

Telling(c) == event[c].kind # None /\ event[c].next <= Sinks

\* Every sink was tried.
Tried(c) == event[c].kind # None /\ event[c].next > Sinks

Delivery(c) == <<c, event[c].kind, event[c].next>>

\* Mutant: the first sink that fails ends the attempt, and no failure is reported.
GoOnUnreported(c, failed) ==
  event' = [event EXCEPT ![c].next = IF failed THEN Sinks + 1 ELSE @ + 1]

GoOn(c, failed) ==
  event' = [event EXCEPT ![c].next = @ + 1, ![c].failed = @ \/ failed]

\* The sink has the event and says so.
Accept(c) ==
  /\ Telling(c)
  /\ delivered' = delivered \union {Delivery(c)}
  /\ GoOn(c, FALSE)

\* The sink refuses it.
Refuse(c) == Telling(c) /\ GoOn(c, TRUE) /\ UNCHANGED delivered

\* The sink has the event, but the receipt is lost or the file is not synchronized.
AcceptUnheard(c) ==
  /\ Telling(c)
  /\ delivered' = delivered \union {Delivery(c)}
  /\ GoOn(c, TRUE)

\* Every sink has the event.
Told(c, kind) == \A sink \in 1..Sinks : <<c, kind, sink>> \in delivered
===============================================================================
