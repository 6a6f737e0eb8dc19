-------------------------- MODULE RecoveryStoreProofs -------------------------
(***************************************************************************)
(* No snapshot is lost, for any number of commands, snapshots and power    *)
(* losses: StoreInductive is inductive, and Kept is one of its parts.      *)
(*                                                                         *)
(* The argument.  The active file changes from a snapshot to something     *)
(* else by a removal or by a power loss.  A command removes it only at     *)
(* "remove", where LinkedTwice says that the archive has it, on the disk;  *)
(* that holds because the name in the archive, once taken, is taken for    *)
(* every other command, so that only one command is past its link, and     *)
(* because until then the active file is still the one that was loaded     *)
(* (FreeMeansActive).  A save comes in between only when there is no file. *)
(* The removal by a save whose write failed is the other one; while nobody *)
(* relies on the file (~clashed) it removes a file that is not yet synced. *)
(***************************************************************************)
EXTENDS RecoveryStore, TLAPS

\* What is kept is kept by a step that moves no file.
LEMMA KeptStays ==
  ASSUME Kept, UNCHANGED <<active, archive, disk, past>>
  PROVE  Kept'
BY DEF disk, past, Kept, IsKept, Certain

\* The calls into the store and its answers move no file.
LEMMA CallsKeep ==
  ASSUME StoreInductive, NEW c \in Commands,
         (\E s \in Snapshots : BeginSave(c, s)) \/ BeginLoad(c) \/ BeginRetire(c) \/ Return(c)
  PROVE  StoreInductive'
<1> USE RecoveryStoreAssumption
<1> USE DEF StoreInductive, At, GoTo, Fail, files, disk, past, StoreSteps, SavingAt, RetiringAt,
           Directory
<1>1. CASE \E s \in Snapshots : BeginSave(c, s)
  <2>1. StoreTypeOK'
    BY <1>1 DEF BeginSave, StoreTypeOK, HasSnapshot, Texts, Times
  <2>2. HasSnapshot'
    BY <1>1 DEF BeginSave, StoreTypeOK, HasSnapshot
  <2>3. FilesHaveWriters'
    BY <1>1 DEF BeginSave, StoreTypeOK, FilesHaveWriters, Times
  <2>4. ASSUME ~clashed' PROVE WritesItsFile'
    BY <1>1, <2>4 DEF BeginSave, StoreTypeOK, HasSnapshot, FilesHaveWriters,
        WritesItsFile, FreeMeansActive, LinkedTwice, Times
  <2>5. ASSUME ~clashed' PROVE FreeMeansActive'
    BY <1>1, <2>5 DEF BeginSave, StoreTypeOK, HasSnapshot, FilesHaveWriters,
        WritesItsFile, FreeMeansActive, LinkedTwice, Times
  <2>6. ASSUME ~clashed' PROVE LinkedTwice'
    BY <1>1, <2>6 DEF BeginSave, StoreTypeOK, HasSnapshot, FilesHaveWriters,
        WritesItsFile, FreeMeansActive, LinkedTwice, Times
  <2>7. Kept'
    <3>1. UNCHANGED <<active, archive, disk, past>>
      BY <1>1 DEF BeginSave
    <3> QED
      BY <3>1, KeptStays
  <2> QED
    BY <2>1, <2>2, <2>3, <2>4, <2>5, <2>6, <2>7
<1>2. CASE BeginLoad(c)
  <2>1. StoreTypeOK'
    BY <1>2 DEF BeginLoad, StoreTypeOK, HasSnapshot, Texts, Times
  <2>2. HasSnapshot'
    BY <1>2 DEF BeginLoad, StoreTypeOK, HasSnapshot
  <2>3. FilesHaveWriters'
    BY <1>2 DEF BeginLoad, StoreTypeOK, FilesHaveWriters, Times
  <2>4. ASSUME ~clashed' PROVE WritesItsFile'
    BY <1>2, <2>4 DEF BeginLoad, StoreTypeOK, HasSnapshot, FilesHaveWriters,
        WritesItsFile, FreeMeansActive, LinkedTwice, Times
  <2>5. ASSUME ~clashed' PROVE FreeMeansActive'
    BY <1>2, <2>5 DEF BeginLoad, StoreTypeOK, HasSnapshot, FilesHaveWriters,
        WritesItsFile, FreeMeansActive, LinkedTwice, Times
  <2>6. ASSUME ~clashed' PROVE LinkedTwice'
    BY <1>2, <2>6 DEF BeginLoad, StoreTypeOK, HasSnapshot, FilesHaveWriters,
        WritesItsFile, FreeMeansActive, LinkedTwice, Times
  <2>7. Kept'
    <3>1. UNCHANGED <<active, archive, disk, past>>
      BY <1>2 DEF BeginLoad
    <3> QED
      BY <3>1, KeptStays
  <2> QED
    BY <2>1, <2>2, <2>3, <2>4, <2>5, <2>6, <2>7
<1>3. CASE BeginRetire(c)
  <2>1. StoreTypeOK'
    BY <1>3 DEF BeginRetire, StoreTypeOK, HasSnapshot, Texts, Times
  <2>2. HasSnapshot'
    BY <1>3 DEF BeginRetire, StoreTypeOK, HasSnapshot
  <2>3. FilesHaveWriters'
    BY <1>3 DEF BeginRetire, StoreTypeOK, FilesHaveWriters, Times
  <2>4. ASSUME ~clashed' PROVE WritesItsFile'
    BY <1>3, <2>4 DEF BeginRetire, StoreTypeOK, HasSnapshot, FilesHaveWriters,
        WritesItsFile, FreeMeansActive, LinkedTwice, Times
  <2>5. ASSUME ~clashed' PROVE FreeMeansActive'
    BY <1>3, <2>5 DEF BeginRetire, StoreTypeOK, HasSnapshot, FilesHaveWriters,
        WritesItsFile, FreeMeansActive, LinkedTwice, Times
  <2>6. ASSUME ~clashed' PROVE LinkedTwice'
    BY <1>3, <2>6 DEF BeginRetire, StoreTypeOK, HasSnapshot, FilesHaveWriters,
        WritesItsFile, FreeMeansActive, LinkedTwice, Times
  <2>7. Kept'
    <3>1. UNCHANGED <<active, archive, disk, past>>
      BY <1>3 DEF BeginRetire
    <3> QED
      BY <3>1, KeptStays
  <2> QED
    BY <2>1, <2>2, <2>3, <2>4, <2>5, <2>6, <2>7
<1>4. CASE Return(c)
  <2>1. StoreTypeOK'
    BY <1>4 DEF Return, StoreTypeOK, HasSnapshot, Texts, Times
  <2>2. HasSnapshot'
    BY <1>4 DEF Return, StoreTypeOK, HasSnapshot
  <2>3. FilesHaveWriters'
    BY <1>4 DEF Return, StoreTypeOK, FilesHaveWriters, Times
  <2>4. ASSUME ~clashed' PROVE WritesItsFile'
    BY <1>4, <2>4 DEF Return, StoreTypeOK, HasSnapshot, FilesHaveWriters,
        WritesItsFile, FreeMeansActive, LinkedTwice, Times
  <2>5. ASSUME ~clashed' PROVE FreeMeansActive'
    BY <1>4, <2>5 DEF Return, StoreTypeOK, HasSnapshot, FilesHaveWriters,
        WritesItsFile, FreeMeansActive, LinkedTwice, Times
  <2>6. ASSUME ~clashed' PROVE LinkedTwice'
    BY <1>4, <2>6 DEF Return, StoreTypeOK, HasSnapshot, FilesHaveWriters,
        WritesItsFile, FreeMeansActive, LinkedTwice, Times
  <2>7. Kept'
    <3>1. UNCHANGED <<active, archive, disk, past>>
      BY <1>4 DEF Return
    <3> QED
      BY <3>1, KeptStays
  <2> QED
    BY <2>1, <2>2, <2>3, <2>4, <2>5, <2>6, <2>7
<1> QED
  BY <1>1, <1>2, <1>3, <1>4

\* save: a file is filled by the command that has created it.
LEMMA SavingKeeps ==
  ASSUME StoreInductive, NEW c \in Commands,
         SaveStep(c)
  PROVE  StoreInductive'
<1> USE RecoveryStoreAssumption
<1> USE DEF StoreInductive, At, GoTo, Fail, files, disk, past, StoreSteps, SavingAt, RetiringAt,
           Directory
<1>1. CASE MakeRoot(c)
  <2>1. StoreTypeOK'
    BY <1>1 DEF MakeRoot, StoreTypeOK, HasSnapshot, Texts, Times
  <2>2. HasSnapshot'
    BY <1>1 DEF MakeRoot, StoreTypeOK, HasSnapshot
  <2>3. FilesHaveWriters'
    BY <1>1 DEF MakeRoot, StoreTypeOK, FilesHaveWriters, Times
  <2>4. ASSUME ~clashed' PROVE WritesItsFile'
    BY <1>1, <2>4 DEF MakeRoot, StoreTypeOK, HasSnapshot, FilesHaveWriters,
        WritesItsFile, FreeMeansActive, LinkedTwice, Times
  <2>5. ASSUME ~clashed' PROVE FreeMeansActive'
    BY <1>1, <2>5 DEF MakeRoot, StoreTypeOK, HasSnapshot, FilesHaveWriters,
        WritesItsFile, FreeMeansActive, LinkedTwice, Times
  <2>6. ASSUME ~clashed' PROVE LinkedTwice'
    BY <1>1, <2>6 DEF MakeRoot, StoreTypeOK, HasSnapshot, FilesHaveWriters,
        WritesItsFile, FreeMeansActive, LinkedTwice, Times
  <2>7. Kept'
    <3>1. UNCHANGED <<active, archive, disk, past>>
      BY <1>1 DEF MakeRoot
    <3> QED
      BY <3>1, KeptStays
  <2> QED
    BY <2>1, <2>2, <2>3, <2>4, <2>5, <2>6, <2>7
<1>2. CASE ChmodRoot(c)
  <2>1. StoreTypeOK'
    BY <1>2 DEF ChmodRoot, StoreTypeOK, HasSnapshot, Texts, Times
  <2>2. HasSnapshot'
    BY <1>2 DEF ChmodRoot, StoreTypeOK, HasSnapshot
  <2>3. FilesHaveWriters'
    BY <1>2 DEF ChmodRoot, StoreTypeOK, FilesHaveWriters, Times
  <2>4. ASSUME ~clashed' PROVE WritesItsFile'
    BY <1>2, <2>4 DEF ChmodRoot, StoreTypeOK, HasSnapshot, FilesHaveWriters,
        WritesItsFile, FreeMeansActive, LinkedTwice, Times
  <2>5. ASSUME ~clashed' PROVE FreeMeansActive'
    BY <1>2, <2>5 DEF ChmodRoot, StoreTypeOK, HasSnapshot, FilesHaveWriters,
        WritesItsFile, FreeMeansActive, LinkedTwice, Times
  <2>6. ASSUME ~clashed' PROVE LinkedTwice'
    BY <1>2, <2>6 DEF ChmodRoot, StoreTypeOK, HasSnapshot, FilesHaveWriters,
        WritesItsFile, FreeMeansActive, LinkedTwice, Times
  <2>7. Kept'
    <3>1. UNCHANGED <<active, archive, disk, past>>
      BY <1>2 DEF ChmodRoot
    <3> QED
      BY <3>1, KeptStays
  <2> QED
    BY <2>1, <2>2, <2>3, <2>4, <2>5, <2>6, <2>7
<1>3. CASE Create(c)
  <2>1. StoreTypeOK'
    BY <1>3 DEF Create, MayCreate, Outdate, StoreTypeOK, HasSnapshot, Texts, Times
  <2>2. HasSnapshot'
    BY <1>3 DEF Create, MayCreate, Outdate, StoreTypeOK, HasSnapshot
  <2>3. FilesHaveWriters'
    BY <1>3 DEF Create, MayCreate, Outdate, StoreTypeOK, FilesHaveWriters, Times
  <2>4. ASSUME ~clashed' PROVE WritesItsFile'
    BY <1>3, <2>4 DEF Create, MayCreate, Outdate, StoreTypeOK, HasSnapshot,
        FilesHaveWriters, WritesItsFile, FreeMeansActive, LinkedTwice, Times
  <2>5. ASSUME ~clashed' PROVE FreeMeansActive'
    BY <1>3, <2>5 DEF Create, MayCreate, Outdate, StoreTypeOK, HasSnapshot,
        FilesHaveWriters, WritesItsFile, FreeMeansActive, LinkedTwice, Times
  <2>6. ASSUME ~clashed' PROVE LinkedTwice'
    <3>1. \A d \in Commands : storing[d] \notin {"syncarchive", "remove"}
      BY <1>3, <2>6 DEF Create, MayCreate, StoreTypeOK, HasSnapshot, LinkedTwice
    <3> QED
      BY <1>3, <3>1 DEF Create, StoreTypeOK, LinkedTwice
  <2>7. Kept'
    BY <1>3 DEF Create, MayCreate, Outdate, StoreTypeOK, HasSnapshot, FilesHaveWriters,
        WritesItsFile, FreeMeansActive, LinkedTwice, Kept, IsKept, Certain, Times
  <2> QED
    BY <2>1, <2>2, <2>3, <2>4, <2>5, <2>6, <2>7
<1>4. CASE CreateRefused(c)
  <2>1. StoreTypeOK'
    BY <1>4 DEF CreateRefused, StoreTypeOK, HasSnapshot, Texts, Times
  <2>2. HasSnapshot'
    BY <1>4 DEF CreateRefused, StoreTypeOK, HasSnapshot
  <2>3. FilesHaveWriters'
    BY <1>4 DEF CreateRefused, StoreTypeOK, FilesHaveWriters, Times
  <2>4. ASSUME ~clashed' PROVE WritesItsFile'
    BY <1>4, <2>4 DEF CreateRefused, StoreTypeOK, HasSnapshot, FilesHaveWriters,
        WritesItsFile, FreeMeansActive, LinkedTwice, Times
  <2>5. ASSUME ~clashed' PROVE FreeMeansActive'
    BY <1>4, <2>5 DEF CreateRefused, StoreTypeOK, HasSnapshot, FilesHaveWriters,
        WritesItsFile, FreeMeansActive, LinkedTwice, Times
  <2>6. ASSUME ~clashed' PROVE LinkedTwice'
    BY <1>4, <2>6 DEF CreateRefused, StoreTypeOK, HasSnapshot, FilesHaveWriters,
        WritesItsFile, FreeMeansActive, LinkedTwice, Times
  <2>7. Kept'
    <3>1. UNCHANGED <<active, archive, disk, past>>
      BY <1>4 DEF CreateRefused
    <3> QED
      BY <3>1, KeptStays
  <2> QED
    BY <2>1, <2>2, <2>3, <2>4, <2>5, <2>6, <2>7
<1>5. CASE WriteAll(c)
  <2>1. StoreTypeOK'
    BY <1>5 DEF WriteAll, Fill, StoreTypeOK, HasSnapshot, Texts, Times
  <2>2. HasSnapshot'
    BY <1>5 DEF WriteAll, Fill, StoreTypeOK, HasSnapshot
  <2>3. FilesHaveWriters'
    <3>1. held[c] # None
      BY <1>5 DEF WriteAll, HasSnapshot
    <3>2. \A t \in Times : archive'[t] = IF writers[t] = c THEN held[c] ELSE archive[t]
      BY <1>5 DEF WriteAll, Fill
    <3>3. active' = (IF writer = c THEN held[c] ELSE active) /\ UNCHANGED <<writer, writers, onDisk>>
      BY <1>5 DEF WriteAll, Fill
    <3>4. \A t \in Times : archive[t] # None => archive'[t] # None
      BY <3>1, <3>2
    <3>5. \A d \in Commands : storing'[d] \in {"mkdir", "chmod", "create"} =>
                              storing[d] \in {"mkdir", "chmod", "create"}
      BY <1>5 DEF WriteAll, StoreTypeOK
    <3> QED
      BY <3>1, <3>3, <3>4, <3>5 DEF FilesHaveWriters
  <2>4. ASSUME ~clashed' PROVE WritesItsFile'
    BY <1>5, <2>4 DEF WriteAll, Fill, StoreTypeOK, HasSnapshot, FilesHaveWriters,
        WritesItsFile, FreeMeansActive, LinkedTwice, Times
  <2>5. ASSUME ~clashed' PROVE FreeMeansActive'
    BY <1>5, <2>5 DEF WriteAll, Fill, StoreTypeOK, HasSnapshot, FilesHaveWriters,
        WritesItsFile, FreeMeansActive, LinkedTwice, Times
  <2>6. ASSUME ~clashed' PROVE LinkedTwice'
    BY <1>5, <2>6 DEF WriteAll, Fill, StoreTypeOK, HasSnapshot, FilesHaveWriters,
        WritesItsFile, FreeMeansActive, LinkedTwice, Times
  <2>7. Kept'
    BY <1>5 DEF WriteAll, Fill, StoreTypeOK, HasSnapshot, FilesHaveWriters,
        WritesItsFile, FreeMeansActive, LinkedTwice, Kept, IsKept, Certain, Times
  <2> QED
    BY <2>1, <2>2, <2>3, <2>4, <2>5, <2>6, <2>7
<1>6. CASE Sync(c)
  <2>1. StoreTypeOK'
    BY <1>6 DEF Sync, StoreTypeOK, HasSnapshot, Certain, Texts, Times
  <2>2. HasSnapshot'
    BY <1>6 DEF Sync, StoreTypeOK, HasSnapshot
  <2>3. FilesHaveWriters'
    BY <1>6 DEF Sync, StoreTypeOK, FilesHaveWriters, Times
  <2>4. ASSUME ~clashed' PROVE WritesItsFile'
    BY <1>6, <2>4 DEF Sync, StoreTypeOK, HasSnapshot, FilesHaveWriters, WritesItsFile,
        FreeMeansActive, LinkedTwice, Times
  <2>5. ASSUME ~clashed' PROVE FreeMeansActive'
    BY <1>6, <2>5 DEF Sync, StoreTypeOK, HasSnapshot, FilesHaveWriters, WritesItsFile,
        FreeMeansActive, LinkedTwice, Times
  <2>6. ASSUME ~clashed' PROVE LinkedTwice'
    BY <1>6, <2>6 DEF Sync, StoreTypeOK, HasSnapshot, FilesHaveWriters, WritesItsFile,
        FreeMeansActive, LinkedTwice, Times
  <2>7. Kept'
    <3> SUFFICES ASSUME ~clashed'
                 PROVE  (\A s \in saved' : IsKept(s)') /\ durable' \subseteq Certain'
      BY DEF Kept
    <3>1. ~clashed /\ At(c, "sync") /\ c # None
      BY <1>6 DEF Sync
    <3>2. UNCHANGED <<active, archive, older, onDisk, held>>
      BY <1>6 DEF Sync
    <3>3. writer = c \/ writer = None => writer' = None
      BY <1>6 DEF Sync
    <3>4. \A t \in Times : writers[t] = c \/ writers[t] = None => writers'[t] = None
      BY <1>6 DEF Sync
    <3>5. IsKept(held[c])'
      <4>1. (active = held[c] /\ writer = c) \/ \E t \in Times : archive[t] = held[c] /\ writers[t] = c
        BY <3>1 DEF WritesItsFile
      <4> QED
        BY <4>1, <3>2, <3>3, <3>4 DEF IsKept
    <3>6. \A s \in saved : IsKept(s)'
      BY <3>1, <3>2, <3>3, <3>4 DEF Kept, IsKept
    <3>7. onDisk \subseteq Times
      BY DEF StoreTypeOK
    <3>8. Certain \subseteq Certain'
      BY <3>2, <3>3, <3>4, <3>7 DEF Certain
    <3>9. saved' = saved \union {held[c]} /\ durable' = durable \union Certain'
      BY <1>6 DEF Sync
    <3>10. IsKept(held[c])' /\ held' = held => \A s \in {held[c]} : IsKept(s)'
      BY DEF IsKept
    <3> QED
      BY <3>1, <3>2, <3>5, <3>6, <3>8, <3>9, <3>10 DEF Kept
  <2> QED
    BY <2>1, <2>2, <2>3, <2>4, <2>5, <2>6, <2>7
<1>7. CASE Withdraw(c)
  <2>1. StoreTypeOK'
    BY <1>7 DEF Withdraw, OthersRely, Outdate, StoreTypeOK, HasSnapshot, Texts, Times
  <2>2. HasSnapshot'
    BY <1>7 DEF Withdraw, OthersRely, Outdate, StoreTypeOK, HasSnapshot
  <2>3. FilesHaveWriters'
    BY <1>7 DEF Withdraw, OthersRely, Outdate, StoreTypeOK, FilesHaveWriters, Times
  <2>4. ASSUME ~clashed' PROVE WritesItsFile'
    <3>1. writer = c /\ \A d \in Commands : storing[d] \notin RetiringAt \ {"reload", "syncroot"}
      BY <1>7, <2>4 DEF Withdraw, OthersRely
    <3>2. storing'[c] = "failed" /\ storing[c] = "withdraw"
      BY <1>7 DEF Withdraw, StoreTypeOK
    <3>3. \A d \in Commands : d # c => storing'[d] = storing[d]
      BY <1>7 DEF Withdraw, StoreTypeOK
    <3>4. ~clashed
      BY <1>7, <2>4 DEF Withdraw
    <3>5. UNCHANGED <<archive, writers, held>>
      BY <1>7 DEF Withdraw
    <3> QED
      BY <3>1, <3>2, <3>3, <3>4, <3>5 DEF WritesItsFile
  <2>5. ASSUME ~clashed' PROVE FreeMeansActive'
    <3>1. writer = c /\ \A d \in Commands : storing[d] \notin RetiringAt \ {"reload", "syncroot"}
      BY <1>7, <2>5 DEF Withdraw, OthersRely
    <3>2. storing'[c] = "failed" /\ storing[c] = "withdraw"
      BY <1>7 DEF Withdraw, StoreTypeOK
    <3>3. \A d \in Commands : d # c => storing'[d] = storing[d]
      BY <1>7 DEF Withdraw, StoreTypeOK
    <3> QED
      BY <3>1, <3>2, <3>3 DEF FreeMeansActive
  <2>6. ASSUME ~clashed' PROVE LinkedTwice'
    <3>1. writer = c /\ \A d \in Commands : storing[d] \notin RetiringAt \ {"reload", "syncroot"}
      BY <1>7, <2>6 DEF Withdraw, OthersRely
    <3>2. storing'[c] = "failed" /\ storing[c] = "withdraw"
      BY <1>7 DEF Withdraw, StoreTypeOK
    <3>3. \A d \in Commands : d # c => storing'[d] = storing[d]
      BY <1>7 DEF Withdraw, StoreTypeOK
    <3> QED
      BY <3>1, <3>2, <3>3 DEF LinkedTwice
  <2>7. Kept'
    <3> SUFFICES ASSUME ~clashed'
                 PROVE  (\A s \in saved' : IsKept(s)') /\ durable' \subseteq Certain'
      BY DEF Kept
    <3>1. writer = c /\ c # None /\ ~clashed
      BY <1>7 DEF Withdraw, OthersRely
    <3>2. UNCHANGED <<archive, writers, onDisk, saved, durable>>
      BY <1>7 DEF Withdraw
    <3>3. \A s \in saved : IsKept(s)'
      BY <3>1, <3>2 DEF Kept, IsKept
    <3>4. Certain \subseteq Certain'
      BY <3>1, <3>2 DEF Certain
    <3> QED
      BY <3>1, <3>2, <3>3, <3>4 DEF Kept
  <2> QED
    BY <2>1, <2>2, <2>3, <2>4, <2>5, <2>6, <2>7
<1>8. CASE WithdrawRefused(c)
  <2>1. StoreTypeOK'
    BY <1>8 DEF WithdrawRefused, StoreTypeOK, HasSnapshot, Texts, Times
  <2>2. HasSnapshot'
    BY <1>8 DEF WithdrawRefused, StoreTypeOK, HasSnapshot
  <2>3. FilesHaveWriters'
    BY <1>8 DEF WithdrawRefused, StoreTypeOK, FilesHaveWriters, Times
  <2>4. ASSUME ~clashed' PROVE WritesItsFile'
    BY <1>8, <2>4 DEF WithdrawRefused, StoreTypeOK, HasSnapshot, FilesHaveWriters,
        WritesItsFile, FreeMeansActive, LinkedTwice, Times
  <2>5. ASSUME ~clashed' PROVE FreeMeansActive'
    BY <1>8, <2>5 DEF WithdrawRefused, StoreTypeOK, HasSnapshot, FilesHaveWriters,
        WritesItsFile, FreeMeansActive, LinkedTwice, Times
  <2>6. ASSUME ~clashed' PROVE LinkedTwice'
    BY <1>8, <2>6 DEF WithdrawRefused, StoreTypeOK, HasSnapshot, FilesHaveWriters,
        WritesItsFile, FreeMeansActive, LinkedTwice, Times
  <2>7. Kept'
    <3>1. UNCHANGED <<active, archive, disk, past>>
      BY <1>8 DEF WithdrawRefused
    <3> QED
      BY <3>1, KeptStays
  <2> QED
    BY <2>1, <2>2, <2>3, <2>4, <2>5, <2>6, <2>7
<1> QED
  BY <1>1, <1>2, <1>3, <1>4, <1>5, <1>6, <1>7, <1>8 DEF SaveStep

\* load_for_write.
LEMMA LoadingKeeps ==
  ASSUME StoreInductive, NEW c \in Commands,
         LoadStep(c)
  PROVE  StoreInductive'
<1> USE RecoveryStoreAssumption
<1> USE DEF StoreInductive, At, GoTo, Fail, files, disk, past, StoreSteps, SavingAt, RetiringAt,
           Directory
<1>1. CASE Load(c)
  <2>1. StoreTypeOK'
    BY <1>1 DEF Load, Loadable, StoreTypeOK, HasSnapshot, Texts, Times
  <2>2. HasSnapshot'
    BY <1>1 DEF Load, Loadable, StoreTypeOK, HasSnapshot
  <2>3. FilesHaveWriters'
    BY <1>1 DEF Load, Loadable, StoreTypeOK, FilesHaveWriters, Times
  <2>4. ASSUME ~clashed' PROVE WritesItsFile'
    BY <1>1, <2>4 DEF Load, Loadable, StoreTypeOK, HasSnapshot, FilesHaveWriters,
        WritesItsFile, FreeMeansActive, LinkedTwice, Times
  <2>5. ASSUME ~clashed' PROVE FreeMeansActive'
    BY <1>1, <2>5 DEF Load, Loadable, StoreTypeOK, HasSnapshot, FilesHaveWriters,
        WritesItsFile, FreeMeansActive, LinkedTwice, Times
  <2>6. ASSUME ~clashed' PROVE LinkedTwice'
    BY <1>1, <2>6 DEF Load, Loadable, StoreTypeOK, HasSnapshot, FilesHaveWriters,
        WritesItsFile, FreeMeansActive, LinkedTwice, Times
  <2>7. Kept'
    <3>1. UNCHANGED <<active, archive, disk, past>>
      BY <1>1 DEF Load
    <3> QED
      BY <3>1, KeptStays
  <2> QED
    BY <2>1, <2>2, <2>3, <2>4, <2>5, <2>6, <2>7
<1>2. CASE LoadRefused(c)
  <2>1. StoreTypeOK'
    BY <1>2 DEF LoadRefused, StoreTypeOK, HasSnapshot, Texts, Times
  <2>2. HasSnapshot'
    BY <1>2 DEF LoadRefused, StoreTypeOK, HasSnapshot
  <2>3. FilesHaveWriters'
    BY <1>2 DEF LoadRefused, StoreTypeOK, FilesHaveWriters, Times
  <2>4. ASSUME ~clashed' PROVE WritesItsFile'
    BY <1>2, <2>4 DEF LoadRefused, StoreTypeOK, HasSnapshot, FilesHaveWriters,
        WritesItsFile, FreeMeansActive, LinkedTwice, Times
  <2>5. ASSUME ~clashed' PROVE FreeMeansActive'
    BY <1>2, <2>5 DEF LoadRefused, StoreTypeOK, HasSnapshot, FilesHaveWriters,
        WritesItsFile, FreeMeansActive, LinkedTwice, Times
  <2>6. ASSUME ~clashed' PROVE LinkedTwice'
    BY <1>2, <2>6 DEF LoadRefused, StoreTypeOK, HasSnapshot, FilesHaveWriters,
        WritesItsFile, FreeMeansActive, LinkedTwice, Times
  <2>7. Kept'
    <3>1. UNCHANGED <<active, archive, disk, past>>
      BY <1>2 DEF LoadRefused
    <3> QED
      BY <3>1, KeptStays
  <2> QED
    BY <2>1, <2>2, <2>3, <2>4, <2>5, <2>6, <2>7
<1> QED
  BY <1>1, <1>2 DEF LoadStep

\* retire: what is removed is linked, and the link is on the disk.
LEMMA RetiringKeeps ==
  ASSUME StoreInductive, NEW c \in Commands,
         RetireStep(c)
  PROVE  StoreInductive'
<1> USE RecoveryStoreAssumption
<1> USE DEF StoreInductive, At, GoTo, Fail, files, disk, past, StoreSteps, SavingAt, RetiringAt,
           Directory
<1>1. CASE Reload(c)
  <2>1. StoreTypeOK'
    BY <1>1 DEF Reload, Loadable, StoreTypeOK, HasSnapshot, Texts, Times
  <2>2. HasSnapshot'
    BY <1>1 DEF Reload, Loadable, StoreTypeOK, HasSnapshot
  <2>3. FilesHaveWriters'
    BY <1>1 DEF Reload, Loadable, StoreTypeOK, FilesHaveWriters, Times
  <2>4. ASSUME ~clashed' PROVE WritesItsFile'
    BY <1>1, <2>4 DEF Reload, Loadable, StoreTypeOK, HasSnapshot, FilesHaveWriters,
        WritesItsFile, FreeMeansActive, LinkedTwice, Times
  <2>5. ASSUME ~clashed' PROVE FreeMeansActive'
    BY <1>1, <2>5 DEF Reload, Loadable, StoreTypeOK, HasSnapshot, FilesHaveWriters,
        WritesItsFile, FreeMeansActive, LinkedTwice, Times
  <2>6. ASSUME ~clashed' PROVE LinkedTwice'
    BY <1>1, <2>6 DEF Reload, Loadable, StoreTypeOK, HasSnapshot, FilesHaveWriters,
        WritesItsFile, FreeMeansActive, LinkedTwice, Times
  <2>7. Kept'
    <3>1. UNCHANGED <<active, archive, disk, past>>
      BY <1>1 DEF Reload
    <3> QED
      BY <3>1, KeptStays
  <2> QED
    BY <2>1, <2>2, <2>3, <2>4, <2>5, <2>6, <2>7
<1>2. CASE ReloadRefused(c)
  <2>1. StoreTypeOK'
    BY <1>2 DEF ReloadRefused, StoreTypeOK, HasSnapshot, Texts, Times
  <2>2. HasSnapshot'
    BY <1>2 DEF ReloadRefused, StoreTypeOK, HasSnapshot
  <2>3. FilesHaveWriters'
    BY <1>2 DEF ReloadRefused, StoreTypeOK, FilesHaveWriters, Times
  <2>4. ASSUME ~clashed' PROVE WritesItsFile'
    BY <1>2, <2>4 DEF ReloadRefused, StoreTypeOK, HasSnapshot, FilesHaveWriters,
        WritesItsFile, FreeMeansActive, LinkedTwice, Times
  <2>5. ASSUME ~clashed' PROVE FreeMeansActive'
    BY <1>2, <2>5 DEF ReloadRefused, StoreTypeOK, HasSnapshot, FilesHaveWriters,
        WritesItsFile, FreeMeansActive, LinkedTwice, Times
  <2>6. ASSUME ~clashed' PROVE LinkedTwice'
    BY <1>2, <2>6 DEF ReloadRefused, StoreTypeOK, HasSnapshot, FilesHaveWriters,
        WritesItsFile, FreeMeansActive, LinkedTwice, Times
  <2>7. Kept'
    <3>1. UNCHANGED <<active, archive, disk, past>>
      BY <1>2 DEF ReloadRefused
    <3> QED
      BY <3>1, KeptStays
  <2> QED
    BY <2>1, <2>2, <2>3, <2>4, <2>5, <2>6, <2>7
<1>3. CASE MakeArchive(c)
  <2>1. StoreTypeOK'
    BY <1>3 DEF MakeArchive, StoreTypeOK, HasSnapshot, Texts, Times
  <2>2. HasSnapshot'
    BY <1>3 DEF MakeArchive, StoreTypeOK, HasSnapshot
  <2>3. FilesHaveWriters'
    BY <1>3 DEF MakeArchive, StoreTypeOK, FilesHaveWriters, Times
  <2>4. ASSUME ~clashed' PROVE WritesItsFile'
    BY <1>3, <2>4 DEF MakeArchive, StoreTypeOK, HasSnapshot, FilesHaveWriters,
        WritesItsFile, FreeMeansActive, LinkedTwice, Times
  <2>5. ASSUME ~clashed' PROVE FreeMeansActive'
    BY <1>3, <2>5 DEF MakeArchive, StoreTypeOK, HasSnapshot, FilesHaveWriters,
        WritesItsFile, FreeMeansActive, LinkedTwice, Times
  <2>6. ASSUME ~clashed' PROVE LinkedTwice'
    BY <1>3, <2>6 DEF MakeArchive, StoreTypeOK, HasSnapshot, FilesHaveWriters,
        WritesItsFile, FreeMeansActive, LinkedTwice, Times
  <2>7. Kept'
    <3>1. UNCHANGED <<active, archive, disk, past>>
      BY <1>3 DEF MakeArchive
    <3> QED
      BY <3>1, KeptStays
  <2> QED
    BY <2>1, <2>2, <2>3, <2>4, <2>5, <2>6, <2>7
<1>4. CASE ChmodArchive(c)
  <2>1. StoreTypeOK'
    BY <1>4 DEF ChmodArchive, StoreTypeOK, HasSnapshot, Texts, Times
  <2>2. HasSnapshot'
    BY <1>4 DEF ChmodArchive, StoreTypeOK, HasSnapshot
  <2>3. FilesHaveWriters'
    BY <1>4 DEF ChmodArchive, StoreTypeOK, FilesHaveWriters, Times
  <2>4. ASSUME ~clashed' PROVE WritesItsFile'
    BY <1>4, <2>4 DEF ChmodArchive, StoreTypeOK, HasSnapshot, FilesHaveWriters,
        WritesItsFile, FreeMeansActive, LinkedTwice, Times
  <2>5. ASSUME ~clashed' PROVE FreeMeansActive'
    BY <1>4, <2>5 DEF ChmodArchive, StoreTypeOK, HasSnapshot, FilesHaveWriters,
        WritesItsFile, FreeMeansActive, LinkedTwice, Times
  <2>6. ASSUME ~clashed' PROVE LinkedTwice'
    BY <1>4, <2>6 DEF ChmodArchive, StoreTypeOK, HasSnapshot, FilesHaveWriters,
        WritesItsFile, FreeMeansActive, LinkedTwice, Times
  <2>7. Kept'
    <3>1. UNCHANGED <<active, archive, disk, past>>
      BY <1>4 DEF ChmodArchive
    <3> QED
      BY <3>1, KeptStays
  <2> QED
    BY <2>1, <2>2, <2>3, <2>4, <2>5, <2>6, <2>7
<1>5. CASE Link(c)
  <2>1. StoreTypeOK'
    BY <1>5 DEF Link, MayLink, StoreTypeOK, HasSnapshot, Texts, Times
  <2>2. HasSnapshot'
    BY <1>5 DEF Link, MayLink, StoreTypeOK, HasSnapshot
  <2>3. FilesHaveWriters'
    BY <1>5 DEF Link, MayLink, StoreTypeOK, FilesHaveWriters, Times
  <2>4. ASSUME ~clashed' PROVE WritesItsFile'
    BY <1>5, <2>4 DEF Link, MayLink, StoreTypeOK, HasSnapshot, FilesHaveWriters,
        WritesItsFile, FreeMeansActive, LinkedTwice, Times
  <2>5. ASSUME ~clashed' PROVE FreeMeansActive'
    BY <1>5, <2>5 DEF Link, MayLink, StoreTypeOK, HasSnapshot, FilesHaveWriters,
        WritesItsFile, FreeMeansActive, LinkedTwice, Times
  <2>6. ASSUME ~clashed' PROVE LinkedTwice'
    <3>1. ~clashed /\ held[c] \in Snapshots /\ held[c].at \in Times /\ archive[held[c].at] = None
      BY <1>5, <2>6 DEF Link, MayLink, HasSnapshot, Times
    <3>2. active = held[c]
      BY <1>5, <3>1 DEF Link, FreeMeansActive
    <3>3. \A d \in Commands : storing[d] \notin {"syncarchive", "remove"}
      BY <3>1, <3>2 DEF LinkedTwice
    <3>4. \A d \in Commands : storing'[d] \in {"syncarchive", "remove"} =>
                              d = c /\ storing'[d] = "syncarchive"
      BY <1>5, <3>3 DEF Link, StoreTypeOK
    <3>5. archive'[held[c].at] = active /\ writers'[held[c].at] = writer
      BY <1>5, <3>1 DEF Link, StoreTypeOK
    <3> QED
      BY <1>5, <3>2, <3>4, <3>5 DEF Link, LinkedTwice
  <2>7. Kept'
    <3>1. held[c].at \in Times /\ archive[held[c].at] = None /\ held[c].at \notin onDisk
      BY <1>5 DEF Link, MayLink, HasSnapshot, FilesHaveWriters, Times
    <3>2. UNCHANGED <<active, writer, older, saved, durable, clashed>> /\ onDisk' = onDisk
      BY <1>5, <3>1 DEF Link
    <3>3. \A t \in Times : archive[t] # None =>
             archive'[t] = archive[t] /\ writers'[t] = writers[t]
      BY <1>5, <3>1 DEF Link, StoreTypeOK
    <3>4. \A t \in onDisk : t \in Times /\ archive[t] # None
      BY DEF StoreTypeOK, FilesHaveWriters
    <3>5. Certain \subseteq Certain'
      BY <3>2, <3>3, <3>4 DEF Certain
    <3>6. \A s \in saved : IsKept(s) => IsKept(s)'
      BY <3>2, <3>3 DEF StoreTypeOK, IsKept
    <3> QED
      BY <3>2, <3>5, <3>6 DEF Kept
  <2> QED
    BY <2>1, <2>2, <2>3, <2>4, <2>5, <2>6, <2>7
<1>6. CASE LinkRefused(c)
  <2>1. StoreTypeOK'
    BY <1>6 DEF LinkRefused, StoreTypeOK, HasSnapshot, Texts, Times
  <2>2. HasSnapshot'
    BY <1>6 DEF LinkRefused, StoreTypeOK, HasSnapshot
  <2>3. FilesHaveWriters'
    BY <1>6 DEF LinkRefused, StoreTypeOK, FilesHaveWriters, Times
  <2>4. ASSUME ~clashed' PROVE WritesItsFile'
    BY <1>6, <2>4 DEF LinkRefused, StoreTypeOK, HasSnapshot, FilesHaveWriters,
        WritesItsFile, FreeMeansActive, LinkedTwice, Times
  <2>5. ASSUME ~clashed' PROVE FreeMeansActive'
    BY <1>6, <2>5 DEF LinkRefused, StoreTypeOK, HasSnapshot, FilesHaveWriters,
        WritesItsFile, FreeMeansActive, LinkedTwice, Times
  <2>6. ASSUME ~clashed' PROVE LinkedTwice'
    BY <1>6, <2>6 DEF LinkRefused, StoreTypeOK, HasSnapshot, FilesHaveWriters,
        WritesItsFile, FreeMeansActive, LinkedTwice, Times
  <2>7. Kept'
    <3>1. UNCHANGED <<active, archive, disk, past>>
      BY <1>6 DEF LinkRefused
    <3> QED
      BY <3>1, KeptStays
  <2> QED
    BY <2>1, <2>2, <2>3, <2>4, <2>5, <2>6, <2>7
<1>7. CASE SyncArchive(c)
  <2>1. StoreTypeOK'
    BY <1>7 DEF SyncArchive, StoreTypeOK, HasSnapshot, Certain, Texts, Times
  <2>2. HasSnapshot'
    BY <1>7 DEF SyncArchive, StoreTypeOK, HasSnapshot
  <2>3. FilesHaveWriters'
    BY <1>7 DEF SyncArchive, StoreTypeOK, FilesHaveWriters, Times
  <2>4. ASSUME ~clashed' PROVE WritesItsFile'
    BY <1>7, <2>4 DEF SyncArchive, StoreTypeOK, HasSnapshot, FilesHaveWriters,
        WritesItsFile, FreeMeansActive, LinkedTwice, Times
  <2>5. ASSUME ~clashed' PROVE FreeMeansActive'
    BY <1>7, <2>5 DEF SyncArchive, StoreTypeOK, HasSnapshot, FilesHaveWriters,
        WritesItsFile, FreeMeansActive, LinkedTwice, Times
  <2>6. ASSUME ~clashed' PROVE LinkedTwice'
    BY <1>7, <2>6 DEF SyncArchive, StoreTypeOK, HasSnapshot, FilesHaveWriters,
        WritesItsFile, FreeMeansActive, LinkedTwice, Times
  <2>7. Kept'
    BY <1>7 DEF SyncArchive, StoreTypeOK, HasSnapshot, FilesHaveWriters, WritesItsFile,
        FreeMeansActive, LinkedTwice, Kept, IsKept, Certain, Times
  <2> QED
    BY <2>1, <2>2, <2>3, <2>4, <2>5, <2>6, <2>7
<1>8. CASE RemoveActive(c)
  <2>1. StoreTypeOK'
    BY <1>8 DEF RemoveActive, Outdate, StoreTypeOK, HasSnapshot, Texts, Times
  <2>2. HasSnapshot'
    BY <1>8 DEF RemoveActive, Outdate, StoreTypeOK, HasSnapshot
  <2>3. FilesHaveWriters'
    BY <1>8 DEF RemoveActive, Outdate, StoreTypeOK, FilesHaveWriters, Times
  <2>4. ASSUME ~clashed' PROVE WritesItsFile'
    BY <1>8, <2>4 DEF RemoveActive, Outdate, StoreTypeOK, HasSnapshot,
        FilesHaveWriters, WritesItsFile, FreeMeansActive, LinkedTwice, Times
  <2>5. ASSUME ~clashed' PROVE FreeMeansActive'
    BY <1>8, <2>5 DEF RemoveActive, Outdate, StoreTypeOK, HasSnapshot,
        FilesHaveWriters, WritesItsFile, FreeMeansActive, LinkedTwice, Times
  <2>6. ASSUME ~clashed' PROVE LinkedTwice'
    BY <1>8, <2>6 DEF RemoveActive, Outdate, StoreTypeOK, HasSnapshot,
        FilesHaveWriters, WritesItsFile, FreeMeansActive, LinkedTwice, Times
  <2>7. Kept'
    BY <1>8 DEF RemoveActive, Outdate, StoreTypeOK, HasSnapshot, FilesHaveWriters,
        WritesItsFile, FreeMeansActive, LinkedTwice, Kept, IsKept, Certain, Times
  <2> QED
    BY <2>1, <2>2, <2>3, <2>4, <2>5, <2>6, <2>7
<1>9. CASE RemoveRefused(c)
  <2>1. StoreTypeOK'
    BY <1>9 DEF RemoveRefused, StoreTypeOK, HasSnapshot, Texts, Times
  <2>2. HasSnapshot'
    BY <1>9 DEF RemoveRefused, StoreTypeOK, HasSnapshot
  <2>3. FilesHaveWriters'
    BY <1>9 DEF RemoveRefused, StoreTypeOK, FilesHaveWriters, Times
  <2>4. ASSUME ~clashed' PROVE WritesItsFile'
    BY <1>9, <2>4 DEF RemoveRefused, StoreTypeOK, HasSnapshot, FilesHaveWriters,
        WritesItsFile, FreeMeansActive, LinkedTwice, Times
  <2>5. ASSUME ~clashed' PROVE FreeMeansActive'
    BY <1>9, <2>5 DEF RemoveRefused, StoreTypeOK, HasSnapshot, FilesHaveWriters,
        WritesItsFile, FreeMeansActive, LinkedTwice, Times
  <2>6. ASSUME ~clashed' PROVE LinkedTwice'
    BY <1>9, <2>6 DEF RemoveRefused, StoreTypeOK, HasSnapshot, FilesHaveWriters,
        WritesItsFile, FreeMeansActive, LinkedTwice, Times
  <2>7. Kept'
    <3>1. UNCHANGED <<active, archive, disk, past>>
      BY <1>9 DEF RemoveRefused
    <3> QED
      BY <3>1, KeptStays
  <2> QED
    BY <2>1, <2>2, <2>3, <2>4, <2>5, <2>6, <2>7
<1>10. CASE SyncRoot(c)
  <2>1. StoreTypeOK'
    BY <1>10 DEF SyncRoot, StoreTypeOK, HasSnapshot, Certain, Texts, Times
  <2>2. HasSnapshot'
    BY <1>10 DEF SyncRoot, StoreTypeOK, HasSnapshot
  <2>3. FilesHaveWriters'
    BY <1>10 DEF SyncRoot, StoreTypeOK, FilesHaveWriters, Times
  <2>4. ASSUME ~clashed' PROVE WritesItsFile'
    BY <1>10, <2>4 DEF SyncRoot, StoreTypeOK, HasSnapshot, FilesHaveWriters,
        WritesItsFile, FreeMeansActive, LinkedTwice, Times
  <2>5. ASSUME ~clashed' PROVE FreeMeansActive'
    BY <1>10, <2>5 DEF SyncRoot, StoreTypeOK, HasSnapshot, FilesHaveWriters,
        WritesItsFile, FreeMeansActive, LinkedTwice, Times
  <2>6. ASSUME ~clashed' PROVE LinkedTwice'
    BY <1>10, <2>6 DEF SyncRoot, StoreTypeOK, HasSnapshot, FilesHaveWriters,
        WritesItsFile, FreeMeansActive, LinkedTwice, Times
  <2>7. Kept'
    BY <1>10 DEF SyncRoot, StoreTypeOK, HasSnapshot, FilesHaveWriters, WritesItsFile,
        FreeMeansActive, LinkedTwice, Kept, IsKept, Certain, Times
  <2> QED
    BY <2>1, <2>2, <2>3, <2>4, <2>5, <2>6, <2>7
<1> QED
  BY <1>1, <1>2, <1>3, <1>4, <1>5, <1>6, <1>7, <1>8, <1>9, <1>10 DEF RetireStep

\* A failing call and a command that dies leave every snapshot where it is.
LEMMA FaultsKeep ==
  ASSUME StoreInductive, NEW c \in Commands,
         StoreFault(c) \/ StoreDies(c)
  PROVE  StoreInductive'
<1> USE RecoveryStoreAssumption
<1> USE DEF StoreInductive, At, GoTo, Fail, files, disk, past, StoreSteps, SavingAt, RetiringAt,
           Directory
<1>1. CASE WriteShort(c)
  <2>1. StoreTypeOK'
    BY <1>1 DEF WriteShort, Fill, StoreTypeOK, HasSnapshot, Texts, Times
  <2>2. HasSnapshot'
    BY <1>1 DEF WriteShort, Fill, StoreTypeOK, HasSnapshot
  <2>3. FilesHaveWriters'
    <3>1. PICK text \in {Torn} \union Cuts[held[c]] : Fill(c, text)
      BY <1>1 DEF WriteShort
    <3>2. text # None
      BY <1>1 DEF WriteShort, HasSnapshot
    <3>3. \A t \in Times : archive'[t] = IF writers[t] = c THEN text ELSE archive[t]
      BY <3>1 DEF Fill
    <3>4. active' = (IF writer = c THEN text ELSE active) /\ UNCHANGED <<writer, writers, onDisk>>
      BY <3>1 DEF Fill
    <3>5. \A t \in Times : archive[t] # None => archive'[t] # None
      BY <3>2, <3>3
    <3>6. \A d \in Commands : storing'[d] \in {"mkdir", "chmod", "create"} =>
                              storing[d] \in {"mkdir", "chmod", "create"}
      BY <1>1 DEF WriteShort, StoreTypeOK
    <3> QED
      BY <3>2, <3>4, <3>5, <3>6 DEF FilesHaveWriters
  <2>4. ASSUME ~clashed' PROVE WritesItsFile'
    BY <1>1, <2>4 DEF WriteShort, Fill, StoreTypeOK, HasSnapshot, FilesHaveWriters,
        WritesItsFile, FreeMeansActive, LinkedTwice, Times
  <2>5. ASSUME ~clashed' PROVE FreeMeansActive'
    BY <1>1, <2>5 DEF WriteShort, Fill, StoreTypeOK, HasSnapshot, FilesHaveWriters,
        WritesItsFile, FreeMeansActive, LinkedTwice, Times
  <2>6. ASSUME ~clashed' PROVE LinkedTwice'
    BY <1>1, <2>6 DEF WriteShort, Fill, StoreTypeOK, HasSnapshot, FilesHaveWriters,
        WritesItsFile, FreeMeansActive, LinkedTwice, Times
  <2>7. Kept'
    BY <1>1 DEF WriteShort, Fill, StoreTypeOK, HasSnapshot, FilesHaveWriters,
        WritesItsFile, FreeMeansActive, LinkedTwice, Kept, IsKept, Certain, Times
  <2> QED
    BY <2>1, <2>2, <2>3, <2>4, <2>5, <2>6, <2>7
<1>2. CASE SyncFails(c)
  <2>1. StoreTypeOK'
    BY <1>2 DEF SyncFails, StoreTypeOK, HasSnapshot, Texts, Times
  <2>2. HasSnapshot'
    BY <1>2 DEF SyncFails, StoreTypeOK, HasSnapshot
  <2>3. FilesHaveWriters'
    BY <1>2 DEF SyncFails, StoreTypeOK, FilesHaveWriters, Times
  <2>4. ASSUME ~clashed' PROVE WritesItsFile'
    BY <1>2, <2>4 DEF SyncFails, StoreTypeOK, HasSnapshot, FilesHaveWriters,
        WritesItsFile, FreeMeansActive, LinkedTwice, Times
  <2>5. ASSUME ~clashed' PROVE FreeMeansActive'
    BY <1>2, <2>5 DEF SyncFails, StoreTypeOK, HasSnapshot, FilesHaveWriters,
        WritesItsFile, FreeMeansActive, LinkedTwice, Times
  <2>6. ASSUME ~clashed' PROVE LinkedTwice'
    BY <1>2, <2>6 DEF SyncFails, StoreTypeOK, HasSnapshot, FilesHaveWriters,
        WritesItsFile, FreeMeansActive, LinkedTwice, Times
  <2>7. Kept'
    <3>1. UNCHANGED <<active, archive, disk, past>>
      BY <1>2 DEF SyncFails
    <3> QED
      BY <3>1, KeptStays
  <2> QED
    BY <2>1, <2>2, <2>3, <2>4, <2>5, <2>6, <2>7
<1>3. CASE CallFails(c)
  <2>1. StoreTypeOK'
    BY <1>3 DEF CallFails, StoreTypeOK, HasSnapshot, Texts, Times
  <2>2. HasSnapshot'
    BY <1>3 DEF CallFails, StoreTypeOK, HasSnapshot
  <2>3. FilesHaveWriters'
    BY <1>3 DEF CallFails, StoreTypeOK, FilesHaveWriters, Times
  <2>4. ASSUME ~clashed' PROVE WritesItsFile'
    BY <1>3, <2>4 DEF CallFails, StoreTypeOK, HasSnapshot, FilesHaveWriters,
        WritesItsFile, FreeMeansActive, LinkedTwice, Times
  <2>5. ASSUME ~clashed' PROVE FreeMeansActive'
    BY <1>3, <2>5 DEF CallFails, StoreTypeOK, HasSnapshot, FilesHaveWriters,
        WritesItsFile, FreeMeansActive, LinkedTwice, Times
  <2>6. ASSUME ~clashed' PROVE LinkedTwice'
    BY <1>3, <2>6 DEF CallFails, StoreTypeOK, HasSnapshot, FilesHaveWriters,
        WritesItsFile, FreeMeansActive, LinkedTwice, Times
  <2>7. Kept'
    <3>1. UNCHANGED <<active, archive, disk, past>>
      BY <1>3 DEF CallFails
    <3> QED
      BY <3>1, KeptStays
  <2> QED
    BY <2>1, <2>2, <2>3, <2>4, <2>5, <2>6, <2>7
<1>4. CASE StoreDies(c)
  <2>1. StoreTypeOK'
    BY <1>4 DEF StoreDies, StoreTypeOK, HasSnapshot, Texts, Times
  <2>2. HasSnapshot'
    BY <1>4 DEF StoreDies, StoreTypeOK, HasSnapshot
  <2>3. FilesHaveWriters'
    BY <1>4 DEF StoreDies, StoreTypeOK, FilesHaveWriters, Times
  <2>4. ASSUME ~clashed' PROVE WritesItsFile'
    BY <1>4, <2>4 DEF StoreDies, StoreTypeOK, HasSnapshot, FilesHaveWriters,
        WritesItsFile, FreeMeansActive, LinkedTwice, Times
  <2>5. ASSUME ~clashed' PROVE FreeMeansActive'
    BY <1>4, <2>5 DEF StoreDies, StoreTypeOK, HasSnapshot, FilesHaveWriters,
        WritesItsFile, FreeMeansActive, LinkedTwice, Times
  <2>6. ASSUME ~clashed' PROVE LinkedTwice'
    BY <1>4, <2>6 DEF StoreDies, StoreTypeOK, HasSnapshot, FilesHaveWriters,
        WritesItsFile, FreeMeansActive, LinkedTwice, Times
  <2>7. Kept'
    <3>1. UNCHANGED <<active, archive, disk, past>>
      BY <1>4 DEF StoreDies
    <3> QED
      BY <3>1, KeptStays
  <2> QED
    BY <2>1, <2>2, <2>3, <2>4, <2>5, <2>6, <2>7
<1> QED
  BY <1>1, <1>2, <1>3, <1>4 DEF StoreFault

\* A power loss takes only what was not on the disk for certain.
LEMMA PowerLossKeeps ==
  ASSUME StoreInductive, StorePowerLoss
  PROVE  StoreInductive'
<1> USE RecoveryStoreAssumption
<1> USE DEF StoreInductive, At, GoTo, Fail, files, disk, past, StoreSteps, SavingAt, RetiringAt,
           Directory
<1>1. StoreTypeOK'
  <2>1. \A text \in Texts \union {None} : \A by : Remains(text, by) \subseteq Texts \union {None}
    BY DEF Remains, Texts
  <2>2. ActiveAfterwards \subseteq Texts \union {None}
    <3>1. \A e \in older \union {<<active, writer>>} : e[1] \in Texts \union {None}
      BY DEF StoreTypeOK
    <3> QED
      BY <2>1, <3>1 DEF ActiveAfterwards
  <2>3. \A t \in Times : ArchiveAfterwards(t) \subseteq Texts \union {None}
    BY <2>1 DEF ArchiveAfterwards, StoreTypeOK
  <2>4. active' \in Texts \union {None} /\ archive' \in [Times -> Texts \union {None}]
    BY <2>2, <2>3 DEF StorePowerLoss
  <2> QED
    BY <2>4 DEF StorePowerLoss, StoreTypeOK, Certain, Times
<1>2. HasSnapshot'
  BY DEF StorePowerLoss, ActiveAfterwards, ArchiveAfterwards, Remains, StoreTypeOK,
      HasSnapshot
<1>3. FilesHaveWriters'
  BY DEF StorePowerLoss, ActiveAfterwards, ArchiveAfterwards, Remains, StoreTypeOK,
      FilesHaveWriters, Times
<1>4. ASSUME ~clashed' PROVE WritesItsFile'
  BY <1>4 DEF StorePowerLoss, ActiveAfterwards, ArchiveAfterwards, Remains,
      StoreTypeOK, HasSnapshot, FilesHaveWriters, WritesItsFile, FreeMeansActive,
      LinkedTwice, Times
<1>5. ASSUME ~clashed' PROVE FreeMeansActive'
  BY <1>5 DEF StorePowerLoss, ActiveAfterwards, ArchiveAfterwards, Remains,
      StoreTypeOK, HasSnapshot, FilesHaveWriters, WritesItsFile, FreeMeansActive,
      LinkedTwice, Times
<1>6. ASSUME ~clashed' PROVE LinkedTwice'
  BY <1>6 DEF StorePowerLoss, ActiveAfterwards, ArchiveAfterwards, Remains,
      StoreTypeOK, HasSnapshot, FilesHaveWriters, WritesItsFile, FreeMeansActive,
      LinkedTwice, Times
<1>7. Kept'
  <2>1. writer' = None /\ older' = {} /\ onDisk' = {t \in Times : archive'[t] # None}
        /\ \A t \in Times : writers'[t] = None
    BY DEF StorePowerLoss
  <2>2. Certain' = ({active'} \union {archive'[t] : t \in {u \in onDisk' : writers'[u] = None}})
                     \intersect Snapshots
    BY <2>1 DEF Certain
  <2>3. \A s \in Certain' : IsKept(s)'
    BY <2>1, <2>2 DEF IsKept
  <2>4. ASSUME ~clashed', NEW s \in durable PROVE s \in Certain'
    <3>1. s \in Certain /\ s \in Snapshots
      BY <2>4 DEF StorePowerLoss, Kept, StoreTypeOK
    <3>2. CASE s = active /\ writer = None /\ older = {}
      <4>1. ActiveAfterwards = {active}
        BY <3>2 DEF ActiveAfterwards, Remains
      <4> QED
        BY <3>1, <3>2, <4>1, <2>2 DEF StorePowerLoss
    <3>3. CASE \E t \in onDisk : writers[t] = None /\ archive[t] = s
      <4>1. PICK t \in onDisk : writers[t] = None /\ archive[t] = s
        BY <3>3
      <4>2. t \in Times
        BY DEF StoreTypeOK
      <4>3. ArchiveAfterwards(t) = {s}
        BY <4>1 DEF ArchiveAfterwards, Remains
      <4>4. archive'[t] = s
        BY <4>2, <4>3 DEF StorePowerLoss
      <4> QED
        BY <3>1, <4>2, <4>4, <2>1, <2>2
    <3> QED
      BY <3>1, <3>2, <3>3 DEF Certain
  <2>5. saved' \subseteq Certain' /\ durable' = durable \union Certain'
    BY DEF StorePowerLoss
  <2> QED
    BY <2>3, <2>4, <2>5 DEF Kept
<1> QED
  BY <1>1, <1>2, <1>3, <1>4, <1>5, <1>6, <1>7

\* A step that leaves the store alone.
LEMMA StutterKeeps ==
  ASSUME StoreInductive, UNCHANGED storeVars
  PROVE  StoreInductive'
BY DEF storeVars, files, disk, past, StoreInductive, StoreTypeOK, HasSnapshot, FilesHaveWriters,
    WritesItsFile, FreeMeansActive, LinkedTwice, Kept, IsKept, Certain, At

LEMMA StoreInitInductive == StoreInit => StoreInductive
<1> SUFFICES ASSUME StoreInit PROVE StoreInductive
  OBVIOUS
<1> USE RecoveryStoreAssumption
<1> USE DEF StoreInit, At, StoreSteps, SavingAt, RetiringAt, Directory
<1>1. StoreTypeOK
  BY DEF StoreTypeOK, Texts
<1>2. HasSnapshot /\ FilesHaveWriters /\ WritesItsFile /\ FreeMeansActive /\ LinkedTwice
  BY DEF HasSnapshot, FilesHaveWriters, WritesItsFile, FreeMeansActive, LinkedTwice
<1>3. Kept
  BY <1>1 DEF Kept, IsKept, Certain, StoreTypeOK
<1> QED
  BY <1>1, <1>2, <1>3 DEF StoreInductive

\* Every step of the store keeps the invariant, and so does a step of somebody else.
LEMMA StoreStepKeeps ==
  ASSUME StoreInductive, StoreNext \/ UNCHANGED storeVars
  PROVE  StoreInductive'
<1>1. CASE StorePowerLoss
  BY <1>1, PowerLossKeeps
<1>2. CASE UNCHANGED storeVars
  BY <1>2, StutterKeeps
<1>3. ASSUME NEW c \in Commands,
             (\E s \in Snapshots : BeginSave(c, s)) \/ BeginLoad(c) \/ BeginRetire(c) \/ Return(c)
      PROVE  StoreInductive'
  BY <1>3, CallsKeep
<1>4. ASSUME NEW c \in Commands, StoreStep(c)
      PROVE  StoreInductive'
  BY <1>4, SavingKeeps, LoadingKeeps, RetiringKeeps DEF StoreStep
<1>5. ASSUME NEW c \in Commands, StoreFault(c) \/ StoreDies(c)
      PROVE  StoreInductive'
  BY <1>5, FaultsKeep
<1> QED
  BY <1>1, <1>2, <1>3, <1>4, <1>5 DEF StoreNext

-------------------------------------------------------------------------------

(***************************************************************************)
(* The invariant behind the store holds for every number of commands, of   *)
(* snapshots and of faults (original_power.rs:142-163, 225-294).           *)
(***************************************************************************)
THEOREM StoreIsInductive == StoreSpec => []StoreInductive
<1>1. StoreInit => StoreInductive
  BY StoreInitInductive
<1>2. StoreInductive /\ [StoreNext]_storeVars => StoreInductive'
  BY StoreStepKeeps
<1> QED
  BY <1>1, <1>2, PTL DEF StoreSpec

(***************************************************************************)
(* No snapshot that was saved, or that was once on the disk, is ever lost: *)
(* it is active or archived, through overlapping commands, failing calls,  *)
(* kills and power losses (original_power.rs:255-294), until a failed save *)
(* removes the file of another command (155-161).                          *)
(***************************************************************************)
THEOREM StoreKeeps == StoreSpec => []Kept
<1>1. StoreInductive => Kept
  BY DEF StoreInductive
<1> QED
  BY <1>1, StoreIsInductive, PTL

===============================================================================
