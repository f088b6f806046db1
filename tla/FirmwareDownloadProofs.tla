----------------------- MODULE FirmwareDownloadProofs -----------------------
(***************************************************************************)
(* What a core that power may fail at any step finds on its flash, proved  *)
(* for every number of blocks, images and pieces, as long as the super     *)
(* block is saved when FirmwareStorage::update asks for it ("save" is not  *)
(* among the faults).                                                      *)
(*                                                                         *)
(* To StorageOK the invariant adds that the file that is being received is *)
(* in no bank and, once it is as long as what arrived, has all of it       *)
(* (OpenedOK), and where update() may be at work (TaskOK).  Two facts      *)
(* about steps follow: files that the super block names are left alone     *)
(* (SavedStays), and, with what update() is about to save (CommitsOne),    *)
(* every step is one of FirmwareBank (BankStep).                           *)
(***************************************************************************)
EXTENDS FirmwareDownload, FirmwareStorageProofs

\* A file that bytes were lost of is shorter than what arrived.
Received(content) ==
  /\ content \in Seq(Piece)
  /\ Len(content) <= total
  /\ Len(content) = total => \A k \in 1 .. total : content[k] = <<image, k>>

OpenedOK ==
  task = "receiving" /\ opened # NoAddress =>
    opened \in DOMAIN files /\ Unnamed(opened) /\ Received(files[opened])

TaskOK == task \in {"rest", "receiving", "backup", "flash"} => commit.step = "none"

IInv == TypeOK /\ StorageOK(Piece) /\ OpenedOK /\ TaskOK /\ RunsAnImage

-----------------------------------------------------------------------------
\* A published file is a sequence of pieces, and not an empty one.
LEMMA WholeTyped ==
  ASSUME NEW i \in Images
  PROVE  Whole(i) \in Seq(Piece) /\ Whole(i)[1] \in Piece
BY StorageAssumption DEF Whole, Piece

LEMMA InvInit == Init => IInv
<1> SUFFICES ASSUME Init PROVE IInv
  OBVIOUS
<1>1. StorageOK(Piece)
  BY StorageInitOK DEF Init
<1>2. image \in Images /\ program = Whole(image) /\ commit = Idle
  BY DEF Init, StorageInit
<1>3. TypeOK
  BY <1>1, <1>2, WholeTyped, StorageAssumption
  DEF Init, TypeOK, StorageOK, StorageTyped, Address, Tasks, Banks
<1>4. OpenedOK /\ TaskOK /\ RunsAnImage
  BY <1>2 DEF Init, Idle, OpenedOK, TaskOK, RunsAnImage
<1> QED
  BY <1>1, <1>3, <1>4 DEF IInv

-----------------------------------------------------------------------------
(* The steps *)

\* A file is received into a block that is free, or into the one it has.
LEMMA ReceiveKeeps == IInv /\ Receive => IInv'
<1> SUFFICES ASSUME IInv, Receive PROVE IInv'
  OBVIOUS
<1> USE DEF IInv
<1> DEFINE held(a) == IF Exists(a) THEN files[a] ELSE << >>
<1>1. PICK a \in Blocks :
        /\ IF opened = NoAddress THEN Free(a) ELSE a = opened
        /\ opened' = a
        /\ \/ files' = With(a, Append(held(a), <<image, total + 1>>))
           \/ "write" \in Faults /\ files' = With(a, held(a))
  BY DEF Receive
<1>2. task = "receiving" /\ total < Size /\ total' = total + 1 /\ total \in Nat
      /\ UNCHANGED <<banks, saved, commit, task, target, image, program>>
      /\ image \in Images /\ total' \in 0 .. Size
  BY StorageAssumption DEF Receive, TypeOK
<1>3. Unnamed(a)
  BY <1>1, <1>2, FreeUnnamed DEF OpenedOK
<1>4. Received(held(a))
  <2>1. CASE opened = NoAddress
    <3>1. held(a) = << >>
      BY <1>1, <2>1 DEF Free, Exists
    <3>2. << >> \in Seq(Piece) /\ Len(<< >>) = 0
      OBVIOUS
    <3>3. 0 = total => 1 .. total = {}
      OBVIOUS
    <3> HIDE DEF held
    <3> QED
      BY <3>1, <3>2, <3>3, <1>2 DEF Received
  <2>2. CASE opened # NoAddress
    BY <1>1, <1>2, <2>2 DEF OpenedOK, Exists
  <2> QED
    BY <2>1, <2>2
<1> HIDE DEF held
<1>5. PICK content :
        /\ files' = With(a, content)
        /\ content = held(a) \/ content = Append(held(a), <<image, total + 1>>)
  BY <1>1
<1>6. Received(content)'
  <2>1. CASE content = held(a)
    BY <1>2, <1>4, <2>1 DEF Received
  <2>2. CASE content = Append(held(a), <<image, total + 1>>)
    <3>1. <<image, total + 1>> \in Piece
      BY <1>2 DEF Piece
    <3>2. content \in Seq(Piece) /\ Len(content) = Len(held(a)) + 1
          /\ \A k \in 1 .. Len(content) :
               content[k] = IF k = Len(held(a)) + 1 THEN <<image, total + 1>> ELSE held(a)[k]
      BY <1>4, <2>2, <3>1 DEF Received
    <3> QED
      BY <1>2, <1>4, <3>2 DEF Received
  <2> QED
    BY <1>5, <2>1, <2>2
<1>7. StorageOK(Piece)'
  <2>1. content \in Seq(Piece)
    BY <1>6 DEF Received
  <2> QED
    BY <1>2, <1>3, <1>5, <2>1, WriteKeeps
<1>8. TypeOK'
  BY <1>1, <1>2, <1>7 DEF TypeOK, StorageOK, StorageTyped, Address
<1>9. OpenedOK'
  <2>1. a \in DOMAIN files' /\ files'[a] = content
    BY <1>5 DEF With
  <2> QED
    BY <1>1, <1>2, <1>3, <1>6, <2>1 DEF OpenedOK, Unnamed
<1>10. TaskOK' /\ RunsAnImage'
  BY <1>2 DEF TaskOK, RunsAnImage
<1> QED
  BY <1>7, <1>8, <1>9, <1>10

\* A file that is as long as what was received is the whole image.
LEMMA DownloadWhole ==
  ASSUME IInv, DownloadEnds
  PROVE  opened \in DOMAIN files /\ Unnamed(opened) /\ files[opened] = Whole(image)
<1>1. task = "receiving" /\ total = Size /\ opened \in DOMAIN files /\ Len(files[opened]) = total
  BY DEF DownloadEnds, Verify, Exists
<1>2. opened # NoAddress
  BY <1>1, StorageAssumption DEF IInv, TypeOK
<1>3. Unnamed(opened) /\ Received(files[opened]) /\ image \in Images
  BY <1>1, <1>2 DEF IInv, OpenedOK, TypeOK
<1> QED
  BY <1>1, <1>3, SameAsWhole DEF Received

LEMMA DownloadEndsKeeps == IInv /\ DownloadEnds => IInv'
<1> SUFFICES ASSUME IInv, DownloadEnds PROVE IInv'
  OBVIOUS
<1> USE DEF IInv
<1>1. /\ task = "receiving" /\ task' = "updating" /\ Update(target, opened)
      /\ UNCHANGED <<target, image, total, opened, program>>
  BY DEF DownloadEnds, download
<1>2. opened \in DOMAIN files /\ Unnamed(opened) /\ Complete(files[opened])
  BY DownloadWhole DEF Complete, TypeOK
<1>5. StorageOK(Piece)'
  BY <1>1, <1>2, UpdateKeeps DEF TypeOK
<1>6. TypeOK'
  BY <1>1, <1>5 DEF TypeOK, StorageOK, StorageTyped, Tasks
<1>7. OpenedOK' /\ TaskOK' /\ RunsAnImage'
  BY <1>1 DEF OpenedOK, TaskOK, RunsAnImage
<1> QED
  BY <1>5, <1>6, <1>7

LEMMA UpdatingKeeps == IInv /\ Updating /\ "save" \notin Faults => IInv'
<1> SUFFICES ASSUME IInv, Updating, "save" \notin Faults PROVE IInv'
  OBVIOUS
<1> USE DEF IInv
<1>1. task \in {"updating", "updatingBackup"}
      /\ UNCHANGED <<task, target, image, total, opened, program>>
  BY DEF Updating, download
<1>2. StorageOK(Piece)'
  BY SavesKeeps, ErasesKeeps DEF Updating
<1>3. TypeOK'
  BY <1>1, <1>2 DEF TypeOK, StorageOK, StorageTyped
<1>4. OpenedOK' /\ TaskOK' /\ RunsAnImage'
  BY <1>1 DEF OpenedOK, TaskOK, RunsAnImage
<1> QED
  BY <1>2, <1>3, <1>4

LEMMA BackUpKeeps == IInv /\ BackUp => IInv'
<1> SUFFICES ASSUME IInv, BackUp PROVE IInv'
  OBVIOUS
<1> USE DEF IInv
<1>1. PICK a \in Blocks :
        /\ Free(a) /\ opened' = a
        /\ \/ Backup(a, program) /\ task' = "updatingBackup"
           \/ BackupIncomplete(a) /\ task' = "flash"
  BY DEF BackUp
<1>2. task = "backup" /\ commit.step = "none" /\ UNCHANGED <<target, image, total, program>>
  BY DEF BackUp, TaskOK
<1>3. StorageOK(Piece)'
  <2>1. program[1] \in Piece
    BY WholeTyped DEF RunsAnImage
  <2> QED
    BY <1>1, <1>2, <2>1, BackupKeeps
<1>4. TypeOK'
  BY <1>1, <1>2, <1>3 DEF TypeOK, StorageOK, StorageTyped, Address, Tasks
<1>5. OpenedOK' /\ TaskOK' /\ RunsAnImage'
  BY <1>1, <1>2 DEF OpenedOK, TaskOK, RunsAnImage, BackupIncomplete
<1> QED
  BY <1>3, <1>4, <1>5

\* A start, whatever was going on.
LEMMA RestartKeeps == IInv /\ Restart /\ (UNCHANGED program \/ SelfFlash) => IInv'
<1> SUFFICES ASSUME IInv, Restart, UNCHANGED program \/ SelfFlash PROVE IInv'
  OBVIOUS
<1> USE DEF IInv
<1>1. StartStorage /\ task' = "rest" /\ opened' = NoAddress /\ total' = 0
      /\ UNCHANGED <<target, image>>
  BY DEF Restart
<1>2. StorageOK(Piece)' /\ commit' = Idle
  BY <1>1, StartKeeps
<1>3. RunsAnImage'
  BY BootloaderComplete DEF RunsAnImage, Complete, SelfFlash
<1>4. TypeOK'
  <2>1. program' \in Seq(Piece)
    BY <1>3, WholeTyped DEF RunsAnImage
  <2> QED
    BY <1>1, <1>2, <2>1, StorageAssumption
    DEF TypeOK, StorageOK, StorageTyped, Address, Tasks
<1>5. OpenedOK' /\ TaskOK'
  BY <1>1, <1>2 DEF OpenedOK, TaskOK, Idle
<1> QED
  BY <1>2, <1>3, <1>4, <1>5

\* The steps between states that leave the storage alone.
LEMMA TaskKeeps ==
  ASSUME IInv, UNCHANGED <<storage, program>>, task' \in Tasks, target' \in Banks,
         image' \in Images, total' \in 0 .. Size, opened' \in Address,
         task' # "receiving" \/ opened' = NoAddress,
         task' \in {"rest", "receiving", "backup", "flash"} => commit.step = "none"
  PROVE  IInv'
<1>1. StorageOK(Piece)'
  BY StorageUnchanged DEF IInv
<1> QED
  BY <1>1 DEF IInv, TypeOK, OpenedOK, TaskOK, RunsAnImage, storage

LEMMA InvStep == IInv /\ [Next]_vars /\ "save" \notin Faults => IInv'
<1> SUFFICES ASSUME IInv, [Next]_vars, "save" \notin Faults PROVE IInv'
  OBVIOUS
<1> USE DEF IInv
<1>1. ASSUME NEW b \in {"Incoming", "Pending"}, NEW i \in Images, Check(b, i) PROVE IInv'
  BY <1>1, TaskKeeps, StorageAssumption DEF Check, Banks, Address, Tasks, TaskOK
<1>2. CASE Receive
  BY <1>2, ReceiveKeeps
<1>3. CASE DownloadFails
  BY <1>3, TaskKeeps DEF DownloadFails, download, TypeOK, Tasks, TaskOK
<1>4. CASE DownloadEnds
  BY <1>4, DownloadEndsKeeps
<1>5. CASE DownloadRefused
  BY <1>5, TaskKeeps DEF DownloadRefused, download, TypeOK, Tasks, TaskOK
<1>6. CASE Updating
  BY <1>6, UpdatingKeeps
<1>7. CASE Updated
  BY <1>7, TaskKeeps DEF Updated, download, TypeOK, Tasks, Idle
<1>8. CASE BackUp
  BY <1>8, BackUpKeeps
<1>9. CASE BackedUp
  BY <1>9, TaskKeeps DEF BackedUp, download, TypeOK, Tasks, Idle
<1>10. CASE SelfFlash
  BY <1>10, RestartKeeps DEF SelfFlash
<1>11. CASE PowerFails
  BY <1>11, RestartKeeps DEF PowerFails
<1>12. CASE OutOfRoom
  BY <1>12, RestartKeeps DEF OutOfRoom
<1>13. CASE CoreStateSaves
  <2>1. saved' = banks /\ task = "rest"
        /\ UNCHANGED <<files, banks, commit, task, target, image, total, opened, program>>
    BY <1>13 DEF CoreStateSaves, Save, download
  <2> QED
    BY <2>1 DEF TypeOK, StorageOK, StorageTyped, Kept, CommitOK, OpenedOK, TaskOK, RunsAnImage
<1>14. CASE FormatAll
  <2>1. /\ banks' = [b \in Banks |-> NoAddress] /\ saved' = banks' /\ task = "rest"
        /\ UNCHANGED <<files, commit, task, target, image, total, opened, program>>
    BY <1>14 DEF FormatAll, Create, download
  <2>2. Kept(banks, files)' /\ Kept(saved, files)'
    BY <2>1 DEF Kept
  <2>3. TypeOK' /\ StorageTyped(Piece)'
    BY <2>1 DEF TypeOK, StorageOK, StorageTyped, Address
  <2>4. CommitOK' /\ OpenedOK' /\ TaskOK' /\ RunsAnImage'
    BY <2>1 DEF CommitOK, OpenedOK, TaskOK, RunsAnImage
  <2> QED
    BY <2>2, <2>3, <2>4 DEF StorageOK
<1>15. CASE UNCHANGED vars
  <2>1. StorageOK(Piece)'
    BY <1>15, StorageUnchanged DEF vars
  <2> QED
    BY <1>15, <2>1 DEF vars, storage, TypeOK, OpenedOK, TaskOK, RunsAnImage, Unnamed, Received
<1> QED
  BY <1>1, <1>2, <1>3, <1>4, <1>5, <1>6, <1>7, <1>8, <1>9, <1>10, <1>11, <1>12, <1>13,
     <1>14, <1>15
  DEF Next

LEMMA StepStays == IInv /\ [Next]_vars => SavedStays
<1> SUFFICES ASSUME IInv, [Next]_vars PROVE SavedStays
  OBVIOUS
<1> USE DEF IInv
<1>1. CASE Receive
  <2>1. PICK a \in Blocks :
          /\ IF opened = NoAddress THEN Free(a) ELSE a = opened
          /\ \E content : files' = With(a, content)
    BY <1>1 DEF Receive
  <2>2. Unnamed(a)
    BY <1>1, <2>1, FreeUnnamed DEF Receive, OpenedOK
  <2> QED
    BY <2>1, <2>2, UnnamedStays
<1>2. CASE Updating
  BY <1>2, UpdatesStay DEF Updating
<1>3. CASE BackUp
  BY <1>3, BackupStays DEF BackUp
<1>4. CASE SelfFlash \/ PowerFails \/ OutOfRoom
  BY <1>4, NamedStays DEF SelfFlash, PowerFails, OutOfRoom, Restart, StartStorage
<1>5. CASE UNCHANGED files
  BY <1>5, FilesStay
<1> QED
  BY <1>1, <1>2, <1>3, <1>4, <1>5
  DEF Next, vars, storage, Check, DownloadFails, DownloadEnds, DownloadRefused, Update,
      Updated, BackedUp, CoreStateSaves, FormatAll, Create

-----------------------------------------------------------------------------
(* The refinement of FirmwareBank *)

\* What update() is about to save differs from what is saved in one bank, and that
\* bank has the image of the download, or the backup.
CommitsOne ==
  commit.step = "save" =>
    \/ /\ task = "updating" /\ files[banks[target]] = Whole(image) /\ banks[target] # NoAddress
       /\ \A b \in Banks \ {target} : saved[b] = banks[b]
    \/ /\ task = "updatingBackup"
       /\ \A b \in Banks \ {"Backup"} : saved[b] = banks[b]

LEMMA CommitsOneStep == IInv /\ CommitsOne /\ [Next]_vars => CommitsOne'
<1> SUFFICES ASSUME IInv, CommitsOne, [Next]_vars PROVE CommitsOne'
  OBVIOUS
<1> USE DEF IInv
<1>1. CASE DownloadEnds
  <2>1. /\ task' = "updating" /\ UNCHANGED <<target, image, files, saved>>
        /\ banks' = [banks EXCEPT ![target] = opened] /\ target \in Banks
        /\ saved = banks /\ banks \in [Banks -> Address]
    BY <1>1 DEF DownloadEnds, Update, download, TypeOK, TaskOK, StorageOK, CommitOK
  <2>2. banks'[target] = opened /\ \A b \in Banks \ {target} : banks'[b] = banks[b]
    BY <2>1
  <2>3. opened # NoAddress /\ files[opened] = Whole(image)
    BY <1>1, DownloadWhole, StorageAssumption DEF TypeOK
  <2> QED
    BY <2>1, <2>2, <2>3 DEF CommitsOne
<1>2. CASE BackUp
  <2>1. saved = banks /\ commit.step = "none" /\ banks \in [Banks -> Address]
    BY <1>2 DEF BackUp, TaskOK, StorageOK, CommitOK, TypeOK
  <2>2. PICK a : \/ Backup(a, program) /\ task' = "updatingBackup"
                 \/ BackupIncomplete(a)
    BY <1>2 DEF BackUp
  <2>3. CASE Backup(a, program) /\ task' = "updatingBackup"
    <3>1. UNCHANGED saved /\ banks' = [banks EXCEPT !["Backup"] = a]
      BY <2>3 DEF Backup
    <3>2. \A b \in Banks \ {"Backup"} : banks'[b] = banks[b]
      BY <2>1, <3>1
    <3> QED
      BY <2>1, <2>3, <3>1, <3>2 DEF CommitsOne
  <2>4. CASE BackupIncomplete(a)
    BY <2>1, <2>4 DEF BackupIncomplete, CommitsOne
  <2> QED
    BY <2>2, <2>3, <2>4
<1>3. CASE Updating
  <2>1. commit'.step # "save"
    BY <1>3 DEF Updating, UpdateSaves, UpdateErases, Idle, TypeOK
  <2> QED
    BY <2>1 DEF CommitsOne
<1>4. CASE SelfFlash \/ PowerFails \/ OutOfRoom
  BY <1>4 DEF SelfFlash, PowerFails, OutOfRoom, Restart, StartStorage, Idle, CommitsOne
<1>5. ASSUME commit.step = "none", UNCHANGED commit PROVE CommitsOne'
  BY <1>5 DEF CommitsOne
<1>6. CASE Receive \/ DownloadFails \/ DownloadRefused \/ CoreStateSaves \/ FormatAll
       \/ Updated \/ BackedUp \/ \E b \in {"Incoming", "Pending"}, i \in Images : Check(b, i)
  <2>1. commit.step = "none" /\ UNCHANGED commit
    BY <1>6 DEF Receive, DownloadFails, DownloadRefused, CoreStateSaves, FormatAll, Create,
                Check, Updated, BackedUp, storage, TaskOK, Idle
  <2> QED
    BY <1>5, <2>1
<1>7. CASE UNCHANGED vars
  BY <1>7 DEF vars, storage, CommitsOne
<1> QED
  BY <1>1, <1>2, <1>3, <1>4, <1>6, <1>7 DEF Next

LEMMA BankStep ==
  IInv /\ CommitsOne /\ [Next]_vars /\ "save" \notin Faults => [Bank!Next]_(Bank!vars)
<1> SUFFICES ASSUME IInv, CommitsOne, [Next]_vars, "save" \notin Faults
             PROVE  [Bank!Next]_(Bank!vars)
  OBVIOUS
<1> USE DEF IInv
<1>s. SavedStays
  BY StepStays
<1>p. saved'["Pending"] = saved["Pending"] => InPending' = InPending
  BY <1>s, PendingStays
<1>1. ASSUME NEW b \in {"Incoming", "Pending"}, NEW i \in Images, Check(b, i)
      PROVE  Bank!Offer
  <2>1. UNCHANGED <<saved, program>> /\ image' = i
    BY <1>1 DEF Check, storage
  <2>2. {Whole(image')} \subseteq Firmware
    BY <2>1 DEF Firmware
  <2> QED
    BY <1>p, <2>1, <2>2 DEF Bank!Offer
<1>2. CASE UpdateSaves /\ Updating
  <2>1. UNCHANGED <<image, program>>
    BY <1>2 DEF Updating, download
  <2>2. commit.step = "save"
    BY <1>2 DEF UpdateSaves
  <2>3. CASE task = "updating" /\ target = "Pending"
    <3>1. InPending' = Whole(image)
      BY <1>2, <2>2, <2>3, SavesPending DEF CommitsOne
    <3> QED
      BY <2>1, <3>1 DEF Bank!Next, Bank!Install
  <2>4. CASE ~(task = "updating" /\ target = "Pending")
    <3>1. saved["Pending"] = banks["Pending"]
      BY <2>2, <2>4 DEF CommitsOne, Banks
    <3> QED
      BY <1>2, <1>p, <2>1, <3>1, SavesPending DEF Bank!vars
  <2> QED
    BY <2>3, <2>4
<1>3. CASE SelfFlash
  <2>1. UNCHANGED <<saved, image>> /\ program' = Bootloader(program)
    BY <1>3 DEF SelfFlash, Restart, StartStorage
  <2> QED
    BY <1>p, <2>1, BootloaderFlashes DEF Bank!Next, Bank!Flash, Bank!vars
<1>4. CASE FormatAll
  <2>1. InPending' = Nothing /\ UNCHANGED <<image, program>>
    BY <1>4 DEF FormatAll, Create, InPending, download, Banks
  <2> QED
    BY <2>1 DEF Bank!Next, Bank!Clear
<1>5. ASSUME UNCHANGED <<saved, image, program>> PROVE UNCHANGED Bank!vars
  BY <1>5, <1>p DEF Bank!vars
<1>6. CASE Receive \/ DownloadFails \/ DownloadEnds \/ DownloadRefused \/ Updated \/ BackUp
       \/ BackedUp \/ PowerFails \/ OutOfRoom \/ CoreStateSaves \/ UNCHANGED vars
       \/ (UpdateErases /\ Updating)
  <2>1. UNCHANGED <<saved, image, program>>
    BY <1>6
    DEF Receive, DownloadFails, DownloadEnds, DownloadRefused, Update, Updated, BackUp, Backup,
        BackupIncomplete, BackedUp, PowerFails, OutOfRoom, Restart, StartStorage,
        CoreStateSaves, Save, TaskOK, StorageOK, CommitOK, UpdateErases, Updating, vars,
        storage, download
  <2> QED
    BY <1>5, <2>1
<1> QED
  BY <1>1, <1>2, <1>3, <1>4, <1>6 DEF Next, Updating, Bank!Next

-----------------------------------------------------------------------------
(* The theorems *)

LEMMA Invariance == ASSUME "save" \notin Faults PROVE Spec => []IInv
<1>1. Init => IInv
  BY InvInit
<1>2. IInv /\ [Next]_vars => IInv'
  BY InvStep
<1> QED
  BY <1>1, <1>2, PTL DEF Spec

(***************************************************************************)
(* Whenever the power fails while FirmwareStorage::update changes a bank,  *)
(* the saved super block names files that are there, and in the banks that *)
(* are flashed one complete image.                                         *)
(***************************************************************************)
THEOREM BanksHoldImagesSafe ==
  ASSUME "save" \notin Faults
  PROVE  Spec => []BanksHoldImages
<1>1. IInv => BanksHoldImages
  BY DEF IInv, StorageOK, Kept, Complete, BanksHoldImages, Exists
<1> QED
  BY <1>1, Invariance, PTL

(***************************************************************************)
(* update() never erases a file that another bank names, because no two    *)
(* banks ever name one file.                                               *)
(***************************************************************************)
THEOREM BanksApartSafe ==
  ASSUME "save" \notin Faults
  PROVE  Spec => []BanksApart
<1>1. IInv => BanksApart
  BY DEF IInv, StorageOK, Kept, BanksApart
<1> QED
  BY <1>1, Invariance, PTL

(***************************************************************************)
(* The program flash of the core always holds one complete image, however  *)
(* many downloads break off and bytes are lost before firmware_self_flash. *)
(***************************************************************************)
THEOREM RunsAnImageSafe ==
  ASSUME "save" \notin Faults
  PROVE  Spec => []RunsAnImage
<1>1. IInv => RunsAnImage
  BY DEF IInv
<1> QED
  BY <1>1, Invariance, PTL

(***************************************************************************)
(* The files, the banks, the file that is open and the task of the core    *)
(* have their types, whatever breaks off a download.                       *)
(***************************************************************************)
THEOREM TypeCorrect ==
  ASSUME "save" \notin Faults
  PROVE  Spec => []TypeOK
<1>1. IInv => TypeOK
  BY DEF IInv
<1> QED
  BY <1>1, Invariance, PTL

(***************************************************************************)
(* No step ever changes or erases a file that the super block on flash     *)
(* names: a new file is complete, and the super block has its address,     *)
(* before the old one is touched, so that every moment is safe to lose     *)
(* power at.                                                               *)
(***************************************************************************)
THEOREM SavedFilesStay ==
  ASSUME "save" \notin Faults
  PROVE  Spec => [][SavedStays]_vars
<1>1. IInv /\ [Next]_vars => [SavedStays]_vars
  BY StepStays
<1> QED
  BY <1>1, Invariance, PTL DEF Spec

(***************************************************************************)
(* A download implements FirmwareBank, step by step: the bank is replaced  *)
(* at the moment the super block is saved, by the image that was offered   *)
(* last, and the program by what is in the bank, whenever the power fails. *)
(***************************************************************************)
THEOREM BankImplemented ==
  ASSUME "save" \notin Faults
  PROVE  Spec => Installs
<1>1. Init => Bank!Init /\ CommitsOne
  BY DEF Init, StorageInit, Idle, Bank!Init, InPending, Firmware, CommitsOne, Banks
<1>2. Spec => [](IInv /\ CommitsOne)
  BY <1>1, Invariance, CommitsOneStep, PTL DEF Spec
<1>3. IInv /\ CommitsOne /\ [Next]_vars => [Bank!Next]_(Bank!vars)
  BY BankStep
<1> QED
  BY <1>1, <1>2, <1>3, PTL DEF Spec, Installs, Bank!Spec
=============================================================================
