----------------------------- MODULE RecoveryStore ----------------------------
(***************************************************************************)
(* The Rust engine's recovery snapshot of a node: a file that is created   *)
(* without overwriting, and that is retired by a hard link into an archive *)
(* under a name made of its capture time and the removal of the file.      *)
(*                                                                         *)
(* A command is a process that saves, loads or retires; several of them    *)
(* may be at it at once, and none takes a lock.  A system call is a step.  *)
(* A file that a command has created has that command for its writer until *)
(* the command has synchronized it, wherever the file is linked: until     *)
(* then a power loss may cut its text.  A directory entry is on the disk   *)
(* for certain once its directory was synchronized; until then a power     *)
(* loss leaves an earlier state of the entry or the newest one.  The two   *)
(* directories themselves survive.                                         *)
(***************************************************************************)
EXTENDS RestCommands

CONSTANTS
  Snapshots,    \* what a snapshot file may say, each with the time it was captured at
  Cuts,         \* for each, what the file may say when its end is missing and it still decodes
  Torn,         \* the text of a file that does not decode
  MayLosePower  \* whether the machine may lose its power

Times == {s.at : s \in Snapshots}
Texts == Snapshots \union {Torn}

ASSUME RecoveryStoreAssumption ==
  /\ None \notin Snapshots /\ Torn \notin Snapshots /\ None # Torn
  /\ Cuts \in [Snapshots -> SUBSET Snapshots]
  /\ None \notin Commands
  /\ MayLosePower \in BOOLEAN

VARIABLES
  rootDir,       \* the state directory: absent, open to others, or private
  archiveDir,    \* its archive directory
  active,        \* the snapshot file
  archive,       \* what each name in the archive holds
  writer,        \* who has yet to synchronize the snapshot file, or None
  writers,       \* the same of each name in the archive
  older,         \* the earlier states of the snapshot file that a power loss may bring back
  onDisk,        \* the names in the archive that are on the disk for certain
  storing,       \* where a command is inside the store
  held,          \* the snapshot it has at hand
  saved,         \* history: the snapshots whose save succeeded since the machine started
  durable,       \* history: the snapshots that were on the disk for certain
  clashed        \* history: whether a failed save has removed a file that others rely on

files     == <<rootDir, archiveDir, active, archive>>
disk      == <<writer, writers, older, onDisk>>
past      == <<saved, durable, clashed>>
storeVars == <<files, disk, storing, held, past>>

Directory  == {"absent", "open", "private"}
SavingAt   == {"mkdir", "chmod", "create", "write", "sync", "withdraw"}
RetiringAt == {"reload", "mkarchive", "chmodarchive", "link", "syncarchive", "remove", "syncroot"}
StoreSteps == {"idle", "load"} \union SavingAt \union RetiringAt \union {"done", "failed"}

StoreTypeOK ==
  /\ rootDir \in Directory /\ archiveDir \in Directory
  /\ active \in Texts \union {None}
  /\ archive \in [Times -> Texts \union {None}]
  /\ writer \in Commands \union {None}
  /\ writers \in [Times -> Commands \union {None}]
  /\ older \subseteq (Texts \union {None}) \X (Commands \union {None})
  /\ onDisk \subseteq Times
  /\ storing \in [Commands -> StoreSteps]
  /\ held \in [Commands -> Snapshots \union {None}]
  /\ saved \subseteq Snapshots /\ durable \subseteq Snapshots
  /\ clashed \in BOOLEAN

\* The snapshots that a power loss leaves where they are.
Certain ==
  ({text \in {active} : writer = None /\ older = {}}
     \union {archive[t] : t \in {u \in onDisk : writers[u] = None}}) \intersect Snapshots

\* What a power loss may leave of a file's text.
Remains(text, by) ==
  IF by = None \/ text \notin Snapshots THEN {text} ELSE {text, Torn} \union Cuts[text]

\* No state directory yet, or one in which earlier commands have left their snapshots.
StoreInit ==
  /\ rootDir \in {"absent", "private"} /\ archiveDir \in {"absent", "private"}
  /\ active \in Snapshots \union {None}
  /\ archive \in [Times -> Snapshots \union {None}]
  /\ rootDir = "absent" => active = None /\ archiveDir = "absent"
  /\ archiveDir = "absent" <=> \A t \in Times : archive[t] = None
  /\ writer = None /\ writers = [t \in Times |-> None]
  /\ older = {}
  /\ onDisk = {t \in Times : archive[t] # None}
  /\ storing = [c \in Commands |-> "idle"]
  /\ held = [c \in Commands |-> None]
  /\ saved = ({active} \union {archive[t] : t \in Times}) \intersect Snapshots
  /\ durable = saved
  /\ clashed = FALSE

At(c, step) == storing[c] = step
GoTo(c, step) == storing' = [storing EXCEPT ![c] = step]

\* The entry of the snapshot file changes: a power loss may bring back its state of now.
Outdate == older' = IF MayLosePower THEN older \union {<<active, writer>>} ELSE older

-------------------------------------------------------------------------------
(* The calls: what main.rs asks of the store, and the answer it takes *)

\* A process saves once: it has no file yet that it would have to synchronize.
BeginSave(c, snapshot) ==
  /\ At(c, "idle")
  /\ writer # c /\ \A t \in Times : writers[t] # c
  /\ GoTo(c, "mkdir")
  /\ held' = [held EXCEPT ![c] = snapshot]
  /\ UNCHANGED <<files, disk, past>>

BeginLoad(c) == At(c, "idle") /\ GoTo(c, "load") /\ UNCHANGED <<files, disk, held, past>>

BeginRetire(c) == At(c, "idle") /\ GoTo(c, "reload") /\ UNCHANGED <<files, disk, held, past>>

\* The caller takes the answer.
Return(c) ==
  /\ storing[c] \in {"done", "failed"}
  /\ GoTo(c, "idle")
  /\ UNCHANGED <<files, disk, held, past>>

\* A system call is refused or fails: the call into the store is over.
Fail(c) == GoTo(c, "failed") /\ UNCHANGED <<files, disk, held, past>>

-------------------------------------------------------------------------------
(* save *)

\* prepare_root: create_dir_all.  The directory is open to others until the next step.
MakeRoot(c) ==
  /\ At(c, "mkdir")
  /\ IF rootDir = "absent"
       THEN rootDir' = "open" /\ GoTo(c, "chmod")
       ELSE UNCHANGED rootDir /\ GoTo(c, "create")
  /\ UNCHANGED <<archiveDir, active, archive, disk, held, past>>

\* prepare_root: set_permissions, by the command that created the directory.
ChmodRoot(c) ==
  /\ At(c, "chmod")
  /\ rootDir' = "private"
  /\ GoTo(c, "create")
  /\ UNCHANGED <<archiveDir, active, archive, disk, held, past>>

MayCreate == active = None

\* create_new: refused when there is a file of that name, whatever it holds.
Create(c) ==
  /\ At(c, "create")
  /\ MayCreate
  /\ active' = Torn /\ writer' = c
  /\ Outdate
  /\ GoTo(c, "write")
  /\ UNCHANGED <<rootDir, archiveDir, archive, writers, onDisk, held, past>>

CreateRefused(c) == At(c, "create") /\ ~MayCreate /\ Fail(c)

\* The file that c has created, wherever it is now, holds a text.
Fill(c, text) ==
  /\ active' = IF writer = c THEN text ELSE active
  /\ archive' = [t \in Times |-> IF writers[t] = c THEN text ELSE archive[t]]
  /\ UNCHANGED <<rootDir, archiveDir, disk, held, past>>

\* write_all
WriteAll(c) == At(c, "write") /\ Fill(c, held[c]) /\ GoTo(c, "sync")

\* sync_all: the text is on the disk, the name of the file may not be.
Sync(c) ==
  /\ At(c, "sync")
  /\ writer' = IF writer = c THEN None ELSE writer
  /\ writers' = [t \in Times |-> IF writers[t] = c THEN None ELSE writers[t]]
  /\ saved' = saved \union {held[c]}
  /\ GoTo(c, "done")
  /\ UNCHANGED <<files, older, onDisk, held, clashed>>
  /\ durable' = durable \union Certain'

\* The write or the synchronization fails after some of the text was written, or all of it.
WriteShort(c) ==
  /\ At(c, "write")
  /\ \E text \in {Torn} \union Cuts[held[c]] : Fill(c, text)
  /\ GoTo(c, "withdraw")

SyncFails(c) == At(c, "sync") /\ GoTo(c, "withdraw") /\ UNCHANGED <<files, disk, held, past>>

\* The file that a save would remove is not its own, or a command that has loaded it is
\* about to retire it.
OthersRely(c) ==
  \/ writer # c
  \/ \E d \in Commands : storing[d] \in RetiringAt \ {"reload", "syncroot"}

\* remove_file, which goes by the name of the file, after a write that failed.
Withdraw(c) ==
  /\ At(c, "withdraw") /\ active # None
  /\ active' = None /\ writer' = None
  /\ Outdate
  /\ clashed' = (clashed \/ OthersRely(c))
  /\ GoTo(c, "failed")
  /\ UNCHANGED <<rootDir, archiveDir, archive, writers, onDisk, held, saved, durable>>

WithdrawRefused(c) == At(c, "withdraw") /\ active = None /\ Fail(c)

-------------------------------------------------------------------------------
(* load_for_write *)

\* A private directory, and a file that decodes.
Loadable == rootDir = "private" /\ active \in Snapshots

Load(c) ==
  /\ At(c, "load")
  /\ Loadable
  /\ held' = [held EXCEPT ![c] = active]
  /\ GoTo(c, "done")
  /\ UNCHANGED <<files, disk, past>>

LoadRefused(c) == At(c, "load") /\ ~Loadable /\ Fail(c)

-------------------------------------------------------------------------------
(* retire *)

\* retire loads the snapshot once more.
Reload(c) ==
  /\ At(c, "reload")
  /\ Loadable
  /\ held' = [held EXCEPT ![c] = active]
  /\ GoTo(c, "mkarchive")
  /\ UNCHANGED <<files, disk, past>>

ReloadRefused(c) == At(c, "reload") /\ ~Loadable /\ Fail(c)

MakeArchive(c) ==
  /\ At(c, "mkarchive")
  /\ IF archiveDir = "absent"
       THEN archiveDir' = "open" /\ GoTo(c, "chmodarchive")
       ELSE UNCHANGED archiveDir /\ GoTo(c, "link")
  /\ UNCHANGED <<rootDir, active, archive, disk, held, past>>

ChmodArchive(c) ==
  /\ At(c, "chmodarchive")
  /\ archiveDir' = "private"
  /\ GoTo(c, "link")
  /\ UNCHANGED <<rootDir, active, archive, disk, held, past>>

\* Mutant: the archive is moved into, which replaces what has that name.
MayReplace(c) == active # None

\* The archive is private, the snapshot file is there and its name in the archive is free.
MayLink(c) == archiveDir = "private" /\ active # None /\ archive[held[c].at] = None

\* hard_link: the snapshot file as it is now, under the name of the snapshot that was loaded.
Link(c) ==
  /\ At(c, "link")
  /\ MayLink(c)
  /\ archive' = [archive EXCEPT ![held[c].at] = active]
  /\ writers' = [writers EXCEPT ![held[c].at] = writer]
  /\ onDisk' = onDisk \ {held[c].at}
  /\ GoTo(c, "syncarchive")
  /\ UNCHANGED <<rootDir, archiveDir, active, writer, older, held, past>>

LinkRefused(c) == At(c, "link") /\ ~MayLink(c) /\ Fail(c)

\* Mutant: the archive's entries are left to the kernel.
SyncNothing(c) == At(c, "syncarchive") /\ GoTo(c, "remove") /\ UNCHANGED <<files, disk, held, past>>

\* The archive's entries at this moment are on the disk.
SyncArchive(c) ==
  /\ At(c, "syncarchive")
  /\ onDisk' = {t \in Times : archive[t] # None}
  /\ GoTo(c, "remove")
  /\ UNCHANGED <<files, writer, writers, older, held, saved, clashed>>
  /\ durable' = durable \union Certain'

RemoveActive(c) ==
  /\ At(c, "remove")
  /\ active # None
  /\ active' = None /\ writer' = None
  /\ Outdate
  /\ GoTo(c, "syncroot")
  /\ UNCHANGED <<rootDir, archiveDir, archive, writers, onDisk, held, past>>

RemoveRefused(c) == At(c, "remove") /\ active = None /\ Fail(c)

\* The state directory's entries at this moment are on the disk.
SyncRoot(c) ==
  /\ At(c, "syncroot")
  /\ older' = {}
  /\ GoTo(c, "done")
  /\ UNCHANGED <<files, writer, writers, onDisk, held, saved, clashed>>
  /\ durable' = durable \union Certain'

-------------------------------------------------------------------------------
(* Faults *)

\* Any system call may fail; a failed write and a failed synchronization have steps of
\* their own.
CallFails(c) ==
  storing[c] \in StoreSteps \ {"idle", "write", "sync", "done", "failed"} /\ Fail(c)

\* The process is gone, and what it held with it.  One that is gone in the middle of a
\* write leaves what WriteShort leaves of one that is gone after it.
StoreDies(c) ==
  /\ storing' = [storing EXCEPT ![c] = "idle"]
  /\ held' = [held EXCEPT ![c] = None]
  /\ UNCHANGED <<files, disk, past>>

\* What a power loss may leave of the snapshot file and of a name in the archive.
ActiveAfterwards == UNION {Remains(e[1], e[2]) : e \in older \union {<<active, writer>>}}
ArchiveAfterwards(t) ==
  Remains(archive[t], writers[t]) \union (IF t \in onDisk THEN {} ELSE {None})

StorePowerLoss ==
  /\ MayLosePower
  /\ active' \in ActiveAfterwards
  /\ archive' \in {f \in [Times -> UNION {ArchiveAfterwards(t) : t \in Times}] :
                      \A t \in Times : f[t] \in ArchiveAfterwards(t)}
  /\ writer' = None /\ writers' = [t \in Times |-> None]
  /\ older' = {}
  /\ onDisk' = {t \in Times : archive'[t] # None}
  /\ saved' = saved \intersect Certain' /\ durable' = durable \union Certain'
  /\ storing' = [c \in Commands |-> "idle"]
  /\ held' = [c \in Commands |-> None]
  /\ UNCHANGED <<rootDir, archiveDir, clashed>>

-------------------------------------------------------------------------------
(* The store *)

SaveStep(c) ==
  \/ MakeRoot(c) \/ ChmodRoot(c)
  \/ Create(c) \/ CreateRefused(c)
  \/ WriteAll(c) \/ Sync(c)
  \/ Withdraw(c) \/ WithdrawRefused(c)
LoadStep(c) == Load(c) \/ LoadRefused(c)
RetireStep(c) ==
  \/ Reload(c) \/ ReloadRefused(c)
  \/ MakeArchive(c) \/ ChmodArchive(c)
  \/ Link(c) \/ LinkRefused(c)
  \/ SyncArchive(c)
  \/ RemoveActive(c) \/ RemoveRefused(c)
  \/ SyncRoot(c)
StoreStep(c) == SaveStep(c) \/ LoadStep(c) \/ RetireStep(c)
StoreFault(c) == WriteShort(c) \/ SyncFails(c) \/ CallFails(c)

StoreNext ==
  \/ \E c \in Commands :
       \/ \E s \in Snapshots : BeginSave(c, s)
       \/ BeginLoad(c) \/ BeginRetire(c) \/ Return(c)
       \/ StoreStep(c) \/ StoreFault(c) \/ StoreDies(c)
  \/ StorePowerLoss

StoreSpec == StoreInit /\ [][StoreNext]_storeVars

-------------------------------------------------------------------------------
(* What the store promises *)

IsKept(s) ==
  \/ active = s /\ writer = None
  \/ \E t \in Times : archive[t] = s /\ writers[t] = None

(***************************************************************************)
(* A snapshot whose save succeeded is the active one or in the archive,    *)
(* with all of its text on the disk, and one that was on the disk for      *)
(* certain stays so through every power loss: between the link, the two    *)
(* synchronizations and the removal there is no moment, for any number of  *)
(* commands, at which it is in neither place (original_power.rs:255-294).  *)
(* There is one exception, a save whose write or synchronization fails: it *)
(* removes the snapshot file by its name (155-161), which by then may be   *)
(* the one that another command retires or has saved.                      *)
(***************************************************************************)
Kept ==
  ~clashed => /\ \A s \in saved : IsKept(s)
              /\ durable \subseteq Certain

-------------------------------------------------------------------------------
(* The inductive invariant behind it *)

\* A command that saves or retires has its snapshot at hand.
HasSnapshot ==
  \A c \in Commands :
    storing[c] \in SavingAt \union (RetiringAt \ {"reload", "syncroot"}) => held[c] \in Snapshots

\* Only files have writers, and a command is none before it has created its file.
FilesHaveWriters ==
  /\ writer # None => active # None
  /\ \A t \in Times : writers[t] # None \/ t \in onDisk => archive[t] # None
  /\ \A c \in Commands : storing[c] \in {"mkdir", "chmod", "create"} =>
       writer # c /\ \A t \in Times : writers[t] # c

\* A command that writes has created the file that is torn; one that synchronizes has its
\* snapshot in a file.
WritesItsFile ==
  \A c \in Commands :
    /\ At(c, "write") => active = Torn /\ writer = c /\ \A t \in Times : writers[t] # c
    /\ At(c, "sync") => \/ active = held[c] /\ writer = c
                        \/ \E t \in Times : archive[t] = held[c] /\ writers[t] = c

\* As long as the name in the archive is free, the snapshot that a command loaded in
\* order to retire it is still the active one: only one that has archived it removes it.
FreeMeansActive ==
  \A c \in Commands :
    storing[c] \in {"mkarchive", "chmodarchive", "link"} /\ archive[held[c].at] = None =>
      active = held[c]

\* Between the link and the removal the snapshot is in both places, and only one command
\* has come so far.
LinkedTwice ==
  /\ \A c \in Commands : storing[c] \in {"syncarchive", "remove"} =>
       /\ active = held[c] /\ archive[held[c].at] = held[c]
       /\ writers[held[c].at] = writer
  /\ \A c, d \in Commands :
       storing[c] \in {"syncarchive", "remove"} /\ storing[d] \in {"syncarchive", "remove"} => c = d
  /\ \A c \in Commands : At(c, "remove") => held[c].at \in onDisk

StoreInductive ==
  /\ StoreTypeOK
  /\ HasSnapshot /\ FilesHaveWriters
  /\ ~clashed => WritesItsFile /\ FreeMeansActive /\ LinkedTwice
  /\ Kept
===============================================================================
