--------------------------- MODULE RecoveryProtocol ---------------------------
(***************************************************************************)
(* What nordfir promises an operator about recovery, without saying how:   *)
(* the record that is stored is of the configuration in which nordfir      *)
(* found the host, the host leaves that configuration only while the       *)
(* record is there, and the record goes only while the host is back.       *)
(***************************************************************************)

CONSTANT None    \* no record

VARIABLES
  host,      \* the configuration of the host
  record,    \* the one that is recorded, or None
  origin     \* the one in which nordfir found the host

\* As earlier commands may have left it.
Init == \/ host = origin /\ record \in {None, origin}
        \/ record = origin /\ record # None

\* save-original records the host as it is, which is as nordfir found it.
Save ==
  /\ record = None /\ host = origin
  /\ record' = host
  /\ UNCHANGED <<host, origin>>

\* apply, or any step of a rollback or a restore that is under way.
Write ==
  /\ record # None /\ record = origin
  /\ UNCHANGED <<record, origin>>

\* The end of a restore.
Retire ==
  /\ record # None /\ host = record /\ record = origin
  /\ record' = None
  /\ UNCHANGED <<host, origin>>

Next == Save \/ Write \/ Retire

Spec == Init /\ [][Next]_<<host, record, origin>>

\* A power loss: the machine starts anew in its original configuration, and the record is
\* there or not.  It is no step of a specification of commands alone.
Restart ==
  /\ host' = origin
  /\ record' \in {None, origin}
  /\ UNCHANGED origin

-------------------------------------------------------------------------------

\* The promise: there is always a way back.
WayBack == host # origin => record # None /\ record = origin
===============================================================================
