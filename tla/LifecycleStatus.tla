---------------------------- MODULE LifecycleStatus ---------------------------
(***************************************************************************)
(* lifecycle-status-local of the Rust engine: a look at the recovery store *)
(* while other commands save and retire in it (inspect_lifecycle).  It     *)
(* takes no lock either: the state directory, the snapshot file and the    *)
(* archive are looked at one after the other.                              *)
(*                                                                         *)
(* An entry of the archive neither changes nor goes while nothing has      *)
(* clashed, so that the list of the archive and the reading of its entries *)
(* are one step.  The report gives the number of the entries; here it is   *)
(* the set of what they hold.                                              *)
(***************************************************************************)
EXTENDS RecoveryStore

VARIABLES
  inspecting,   \* how far the inspection is
  found,        \* the active snapshot it found, None if there was none
  counted,      \* the archived ones it counted
  before        \* history: the snapshots whose save had succeeded when it began

statusVars == <<inspecting, found, counted, before>>

Inspections == {"idle", "root", "active", "load", "archive", "uninitialized", "reported", "failed"}

StatusInit == inspecting = "idle" /\ found = None /\ counted = {} /\ before = {}

Inspecting(step) == inspecting = step
On(step) == inspecting' = step

BeginStatus ==
  /\ Inspecting("idle")
  /\ On("root")
  /\ before' = saved
  /\ UNCHANGED <<storeVars, found, counted>>

\* The state directory: not there yet, not a private one, or to be looked into.
LookAtRoot ==
  /\ Inspecting("root")
  /\ On(CASE rootDir = "absent" -> "uninitialized"
          [] rootDir = "open"   -> "failed"
          [] OTHER              -> "active")
  /\ UNCHANGED <<storeVars, found, counted, before>>

\* symlink_metadata of the snapshot file.
LookAtActive ==
  /\ Inspecting("active")
  /\ On(IF active = None THEN "archive" ELSE "load")
  /\ UNCHANGED <<storeVars, found, counted, before>>

\* The file must still be there and decode.
LoadActive ==
  /\ Inspecting("load")
  /\ IF Loadable THEN On("archive") /\ found' = active
                 ELSE On("failed") /\ UNCHANGED found
  /\ UNCHANGED <<storeVars, counted, before>>

\* An entry of the archive must decode and have the name of its own capture time.
Consistent(t) == archive[t] \in Snapshots /\ archive[t].at = t

Entries == {t \in Times : archive[t] # None}
Archived == {archive[t] : t \in Entries}

CountArchive ==
  /\ Inspecting("archive")
  /\ IF archiveDir = "open" \/ \E t \in Entries : ~Consistent(t)
       THEN On("failed") /\ UNCHANGED counted
       ELSE On("reported") /\ counted' = Archived
  /\ UNCHANGED <<storeVars, found, before>>

\* Mutant: the archive is counted before the snapshot file is looked at.
ArchiveFirst ==
  \/ /\ Inspecting("active")
     /\ On(IF archiveDir = "open" THEN "failed" ELSE "archive")
     /\ counted' = Archived
     /\ UNCHANGED <<storeVars, found, before>>
  \/ /\ Inspecting("archive")
     /\ IF active = None \/ Loadable
          THEN On("reported") /\ found' = active
          ELSE On("failed") /\ UNCHANGED found
     /\ UNCHANGED <<storeVars, counted, before>>

\* The snapshot file first, then the archive.
StatusStep == LookAtActive \/ LoadActive \/ CountArchive

\* The other commands save and retire meanwhile, each as often as it likes, until one of
\* them removes what another relies on: nothing is said of what follows.  A load would
\* change nothing.
OthersStore ==
  /\ ~clashed
  /\ \E c \in Commands :
       \/ \E s \in Snapshots : BeginSave(c, s)
       \/ BeginRetire(c) \/ Return(c)
       \/ StoreStep(c) \/ StoreFault(c) \/ StoreDies(c)
  /\ UNCHANGED statusVars

StatusNext == BeginStatus \/ LookAtRoot \/ StatusStep \/ OthersStore

-------------------------------------------------------------------------------
(* Properties *)

(***************************************************************************)
(* The archive stays readable: each of its names is that of the snapshot   *)
(* it holds, whichever commands save and retire at the same time.  One     *)
(* that is not would make this and every later status fail, since the      *)
(* store never removes an entry (original_power.rs:274-284, 398-414).  Two *)
(* things are left out: a failed save that removes a file which another    *)
(* command retires, and a power loss before that file was synchronized.    *)
(***************************************************************************)
ArchiveReadable == ~clashed => \A t \in Entries : Consistent(t)

(***************************************************************************)
(* A status misses nothing: every snapshot whose save had succeeded when   *)
(* the command was given is reported as the active one or counted in the   *)
(* archive, however many commands retire and save while it looks; it looks *)
(* in the order in which a snapshot moves (original_power.rs:190-202).  A  *)
(* failed save that removes the file of another command is left out.       *)
(***************************************************************************)
StatusMissesNothing ==
  ~clashed =>
    /\ Inspecting("uninitialized") => before = {}
    /\ Inspecting("reported") => before \subseteq counted \union {found}

-------------------------------------------------------------------------------
(* The inductive invariant behind it *)

\* Nothing is stored, and nobody has come to store, before there is a state directory.
Rooted ==
  rootDir = "absent" =>
    /\ active = None
    /\ \A t \in Times : archive[t] = None
    /\ \A c \in Commands :
         storing[c] \notin (SavingAt \ {"mkdir"}) \union (RetiringAt \ {"reload"})

\* When the archive is about to be listed, it holds every snapshot that was not found.
Ahead ==
  ~clashed /\ Inspecting("archive") =>
    \A s \in before : s = found \/ \E t \in Times : archive[t] = s

StatusInductive ==
  /\ StoreInductive /\ Rooted /\ ArchiveReadable
  /\ inspecting \in Inspections
  /\ found \in Snapshots \union {None} /\ counted \subseteq Snapshots
  /\ before \subseteq saved
  /\ inspecting \in {"idle", "root", "active", "load"} => found = None
  /\ Ahead
  /\ StatusMissesNothing
===============================================================================
