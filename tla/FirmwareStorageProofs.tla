----------------------- MODULE FirmwareStorageProofs -----------------------
(***************************************************************************)
(* What every operation of FirmwareStorage keeps, for any blocks, images   *)
(* and pieces: the lemmas that the proofs about the core's download and    *)
(* the push to a module share.                                             *)
(*                                                                         *)
(* That the saved banks name complete images is not inductive alone: the   *)
(* bank that is about to be saved and the file that update() is about to   *)
(* erase have to be known as well.  StorageOK says it of both tables       *)
(* (Kept), and that the file to be erased is in no bank (CommitOK).        *)
(***************************************************************************)
EXTENDS FirmwareStorage, TLAPS

Complete(content) == \E i \in Images : content = Whole(i)

\* What a table of banks may name, given the files: files that are there,
\* each once, and complete images but for the backup.
Kept(table, there) ==
  /\ \A b \in Banks : table[b] # NoAddress => table[b] \in DOMAIN there
  /\ \A b \in Banks \ {"Backup"} : table[b] # NoAddress => Complete(there[table[b]])
  /\ \A b, c \in Banks : b # c /\ table[b] # NoAddress => table[b] # table[c]

\* A file that neither table names, and that no update has yet to erase.
Unnamed(a) == \A b \in Banks : banks[b] # a /\ saved[b] # a

CommitOK ==
  /\ commit.step # "save" => saved = banks
  /\ commit.step # "none" =>
       commit.previous = NoAddress \/ \A b \in Banks : banks[b] # commit.previous

StorageTyped(piece) ==
  /\ DOMAIN files \subseteq Blocks
  /\ \A a \in DOMAIN files : files[a] \in Seq(piece)
  /\ banks \in [Banks -> Address] /\ saved \in [Banks -> Address]
  /\ commit \in [step : {"none", "save", "erase"}, previous : Address]

StorageOK(piece) ==
  /\ StorageTyped(piece)
  /\ Kept(banks, files) /\ Kept(saved, files)
  /\ CommitOK

-----------------------------------------------------------------------------
(* Tables and files *)

\* A file that no bank of a table names may be written.
LEMMA WithKeeps ==
  ASSUME NEW table, NEW a, NEW content, Kept(table, files), a # NoAddress,
         \A b \in Banks : table[b] # a
  PROVE  Kept(table, With(a, content))
<1>1. \A b \in Banks : table[b] # NoAddress =>
        /\ table[b] \in DOMAIN With(a, content)
        /\ With(a, content)[table[b]] = files[table[b]]
  BY DEF Kept, With
<1> QED
  BY <1>1 DEF Kept

\* A file that no bank of a table names may be erased.
LEMMA WithoutKeeps ==
  ASSUME NEW table, NEW a, Kept(table, files),
         a = NoAddress \/ \A b \in Banks : table[b] # a
  PROVE  Kept(table, Without(a))
BY DEF Kept, Without, Restrict, Banks

\* reclaim() leaves what the table it walks names.
LEMMA NamedKeeps ==
  ASSUME NEW table, Kept(table, files)
  PROVE  Kept(table, Named(table))
BY DEF Kept, Named, Restrict, Banks

\* A new file is in no bank.
LEMMA FreeUnnamed ==
  ASSUME NEW piece, StorageOK(piece), NEW a, Free(a)
  PROVE  a \in Blocks /\ a # NoAddress /\ Unnamed(a)
BY StorageAssumption DEF StorageOK, Kept, Free, Unnamed

\* A bank is set to a file that no bank names: the file that it named before
\* is in no bank from then on.
LEMMA SetKeeps ==
  ASSUME NEW b \in Banks, NEW a, NEW there, a # NoAddress, a \in DOMAIN there,
         banks \in [Banks -> Address], Kept(banks, there),
         \A c \in Banks : banks[c] # a,
         b = "Backup" \/ Complete(there[a])
  PROVE  /\ Kept([banks EXCEPT ![b] = a], there)
         /\ banks[b] = NoAddress
              \/ \A c \in Banks : [banks EXCEPT ![b] = a][c] # banks[b]
<1> DEFINE table == [banks EXCEPT ![b] = a]
<1>1. \A c \in Banks : table[c] = IF c = b THEN a ELSE banks[c]
  OBVIOUS
<1> HIDE DEF table
<1>2. \A c \in Banks : table[c] # NoAddress => table[c] \in DOMAIN there
  BY <1>1 DEF Kept
<1>3. \A c \in Banks \ {"Backup"} : table[c] # NoAddress => Complete(there[table[c]])
  BY <1>1 DEF Kept
<1>4. \A c, d \in Banks : c # d /\ table[c] # NoAddress => table[c] # table[d]
  BY <1>1 DEF Kept
<1>5. banks[b] = NoAddress \/ \A c \in Banks : table[c] # banks[b]
  BY <1>1 DEF Kept
<1> QED
  BY <1>2, <1>3, <1>4, <1>5 DEF Kept, table

\* A sequence of pieces that agrees with an image, piece for piece, is it.
LEMMA SameAsWhole ==
  ASSUME NEW piece, NEW content \in Seq(piece), NEW i \in Images, Len(content) = Size,
         \A k \in 1 .. Size : content[k] = <<i, k>>
  PROVE  content = Whole(i)
<1>1. content \in [1 .. Size -> piece]
  OBVIOUS
<1> QED
  BY <1>1 DEF Whole

-----------------------------------------------------------------------------
(* The operations *)

LEMMA StorageInitOK ==
  ASSUME NEW piece, StorageInit
  PROVE  StorageOK(piece)
<1>1. files = << >> /\ DOMAIN files = {}
  BY DEF StorageInit
<1>2. banks = [b \in Banks |-> NoAddress] /\ saved = banks /\ commit = Idle
  BY DEF StorageInit
<1>3. StorageTyped(piece)
  BY <1>1, <1>2 DEF StorageTyped, Idle, Address
<1>4. Kept(banks, files) /\ Kept(saved, files)
  BY <1>2 DEF Kept
<1>5. CommitOK
  BY <1>2 DEF Idle, CommitOK
<1> QED
  BY <1>3, <1>4, <1>5 DEF StorageOK

LEMMA StorageUnchanged ==
  ASSUME NEW piece, StorageOK(piece), UNCHANGED storage
  PROVE  StorageOK(piece)'
BY DEF StorageOK, StorageTyped, Kept, CommitOK, storage

\* A start loads the saved table, and erases what it does not name.
LEMMA StartKeeps ==
  ASSUME NEW piece, StorageOK(piece), StartStorage
  PROVE  StorageOK(piece)' /\ commit' = Idle
<1>1. banks' = saved /\ saved' = saved /\ commit' = Idle /\ files' = Named(saved)
  BY DEF StartStorage
<1>2. Kept(saved, Named(saved))
  BY NamedKeeps DEF StorageOK
<1>3. StorageTyped(piece)'
  BY <1>1 DEF Named, Restrict, StorageOK, StorageTyped, Idle, Address
<1>4. CommitOK'
  BY <1>1 DEF CommitOK, Idle
<1> QED
  BY <1>1, <1>2, <1>3, <1>4 DEF StorageOK

\* Every file that no bank names is erased while nothing is being updated.
LEMMA ReclaimKeeps ==
  ASSUME NEW piece, StorageOK(piece), commit.step = "none",
         files' = Named(banks), UNCHANGED <<banks, saved, commit>>
  PROVE  StorageOK(piece)'
<1>1. saved = banks
  BY DEF StorageOK, CommitOK
<1>2. Kept(banks, Named(banks))
  BY NamedKeeps DEF StorageOK
<1>3. StorageTyped(piece)'
  BY DEF Named, Restrict, StorageOK, StorageTyped
<1> QED
  BY <1>1, <1>2, <1>3 DEF StorageOK, CommitOK

LEMMA WriteKeeps ==
  ASSUME NEW piece, StorageOK(piece), NEW a \in Blocks, NEW content \in Seq(piece),
         Unnamed(a), files' = With(a, content), UNCHANGED <<banks, saved, commit>>
  PROVE  StorageOK(piece)'
<1>1. a # NoAddress
  BY StorageAssumption
<1>2. Kept(banks, With(a, content)) /\ Kept(saved, With(a, content))
  BY <1>1, WithKeeps DEF StorageOK, Unnamed
<1>3. StorageTyped(piece)'
  BY DEF StorageOK, StorageTyped, With
<1> QED
  BY <1>2, <1>3 DEF StorageOK, CommitOK

LEMMA EraseKeeps ==
  ASSUME NEW piece, StorageOK(piece), NEW a, Unnamed(a),
         files' = Without(a), UNCHANGED <<banks, saved, commit>>
  PROVE  StorageOK(piece)'
<1>1. Kept(banks, Without(a)) /\ Kept(saved, Without(a))
  BY WithoutKeeps DEF StorageOK, Unnamed
<1>2. StorageTyped(piece)'
  BY DEF StorageOK, StorageTyped, Without, Restrict
<1> QED
  BY <1>1, <1>2 DEF StorageOK, CommitOK

LEMMA UpdateKeeps ==
  ASSUME NEW piece, StorageOK(piece), NEW b \in Banks, NEW a \in DOMAIN files,
         Unnamed(a), Complete(files[a]), Update(b, a)
  PROVE  StorageOK(piece)'
<1>1. /\ banks' = [banks EXCEPT ![b] = a]
      /\ commit' = [step |-> "save", previous |-> banks[b]]
      /\ UNCHANGED <<files, saved>>
  BY DEF Update
<1>2. a \in Blocks /\ a # NoAddress
  BY StorageAssumption DEF StorageOK, StorageTyped
<1>3. /\ Kept(banks, files)'
      /\ banks[b] = NoAddress \/ \A c \in Banks : banks'[c] # banks[b]
  BY <1>1, <1>2, SetKeeps DEF StorageOK, StorageTyped, Unnamed
<1>4. Kept(saved, files)' /\ CommitOK'
  BY <1>1, <1>3 DEF StorageOK, CommitOK, Kept
<1>5. StorageTyped(piece)'
  BY <1>1, <1>2 DEF StorageOK, StorageTyped, Address
<1> QED
  BY <1>3, <1>4, <1>5 DEF StorageOK

\* The super block is saved before the file is erased.
LEMMA SavesKeeps ==
  ASSUME NEW piece, StorageOK(piece), UpdateSaves, "save" \notin Faults
  PROVE  StorageOK(piece)'
<1>1. commit.step = "save" /\ saved' = banks /\ commit' = [commit EXCEPT !.step = "erase"]
      /\ UNCHANGED <<files, banks>>
  BY DEF UpdateSaves, Save
<1>2. commit'.step = "erase" /\ commit'.previous = commit.previous
      /\ commit' \in [step : {"none", "save", "erase"}, previous : Address]
  BY <1>1 DEF StorageOK, StorageTyped
<1>3. StorageTyped(piece)'
  BY <1>1, <1>2 DEF StorageOK, StorageTyped
<1>4. Kept(banks, files)' /\ Kept(saved, files)' /\ CommitOK'
  BY <1>1, <1>2 DEF StorageOK, Kept, CommitOK
<1> QED
  BY <1>3, <1>4 DEF StorageOK

LEMMA ErasesKeeps ==
  ASSUME NEW piece, StorageOK(piece), UpdateErases
  PROVE  StorageOK(piece)'
<1>1. commit.step = "erase" /\ files' = Without(commit.previous) /\ commit' = Idle
      /\ saved = banks /\ UNCHANGED <<banks, saved>>
  BY DEF UpdateErases, StorageOK, CommitOK
<1>2. Kept(banks, Without(commit.previous))
  BY <1>1, WithoutKeeps DEF StorageOK, CommitOK
<1>3. StorageTyped(piece)'
  BY <1>1 DEF StorageOK, StorageTyped, Without, Restrict, Idle, Address
<1>4. CommitOK'
  BY <1>1 DEF CommitOK, Idle
<1> QED
  BY <1>1, <1>2, <1>3, <1>4 DEF StorageOK

\* The backup goes into a free block, whole or not at all.
LEMMA BackupKeeps ==
  ASSUME NEW piece, StorageOK(piece), commit.step = "none", NEW program,
         program[1] \in piece, NEW a, Free(a),
         Backup(a, program) \/ BackupIncomplete(a)
  PROVE  StorageOK(piece)'
<1>1. a \in Blocks /\ a # NoAddress /\ Unnamed(a)
  BY FreeUnnamed
<1>2. CASE Backup(a, program)
  <2> DEFINE content == [k \in 1 .. Size |-> program[1]]
  <2>1. /\ files' = With(a, content) /\ banks' = [banks EXCEPT !["Backup"] = a]
        /\ commit' = [step |-> "save", previous |-> banks["Backup"]] /\ UNCHANGED saved
    BY <1>2 DEF Backup
  <2>2. content \in Seq(piece)
    BY StorageAssumption
  <2> HIDE DEF content
  <2>3. Kept(banks, With(a, content)) /\ Kept(saved, With(a, content))
    BY <1>1, WithKeeps DEF StorageOK, Unnamed
  <2>4. a \in DOMAIN With(a, content)
    BY DEF With
  <2>5. /\ Kept(banks, files)'
        /\ banks["Backup"] = NoAddress \/ \A c \in Banks : banks'[c] # banks["Backup"]
    BY <1>1, <2>1, <2>3, <2>4, SetKeeps DEF StorageOK, StorageTyped, Unnamed, Banks
  <2>6. StorageTyped(piece)'
    <3>1. DOMAIN files' \subseteq Blocks /\ \A x \in DOMAIN files' : files'[x] \in Seq(piece)
      BY <1>1, <2>1, <2>2 DEF StorageOK, StorageTyped, With
    <3>2. commit' \in [step : {"none", "save", "erase"}, previous : Address]
      BY <2>1 DEF StorageOK, StorageTyped, Banks
    <3> QED
      BY <1>1, <2>1, <3>1, <3>2 DEF StorageOK, StorageTyped, Address
  <2>7. CommitOK'
    BY <2>1, <2>5 DEF CommitOK
  <2> QED
    BY <2>1, <2>3, <2>5, <2>6, <2>7 DEF StorageOK
<1>3. CASE BackupIncomplete(a)
  <2>1. files' = With(a, << >>) /\ UNCHANGED <<banks, saved, commit>>
    BY <1>3 DEF BackupIncomplete
  <2>2. << >> \in Seq(piece)
    OBVIOUS
  <2> QED
    BY <1>1, <2>1, <2>2, WriteKeeps
<1> QED
  BY <1>2, <1>3

\* What the bootloader finds is a complete image.
LEMMA BootloaderComplete ==
  ASSUME NEW piece, StorageOK(piece), NEW program
  PROVE  Bootloader(program) = program \/ Complete(Bootloader(program))
<1>1. NoAddress \notin DOMAIN files
  BY StorageAssumption DEF StorageOK, StorageTyped
<1> QED
  BY <1>1 DEF Bootloader, Exists, StorageOK, Kept, Banks

-----------------------------------------------------------------------------
(* What a step leaves alone *)

\* The files that the super block on flash names, and what they hold.
SavedStays ==
  \A b \in Banks : saved[b] # NoAddress =>
    saved[b] \in DOMAIN files' /\ files'[saved[b]] = files[saved[b]]

LEMMA FilesStay ==
  ASSUME NEW piece, StorageOK(piece), UNCHANGED files
  PROVE  SavedStays
BY DEF StorageOK, Kept, SavedStays

\* A file in no bank is written, or erased.
LEMMA UnnamedStays ==
  ASSUME NEW piece, StorageOK(piece), NEW a, Unnamed(a),
         files' = Without(a) \/ \E content : files' = With(a, content)
  PROVE  SavedStays
<1>1. \A x \in DOMAIN files \ {a} : x \in DOMAIN files' /\ files'[x] = files[x]
  BY DEF With, Without, Restrict
<1> QED
  BY <1>1 DEF StorageOK, Kept, Unnamed, SavedStays

\* reclaim(), with the table that is saved.
LEMMA NamedStays ==
  ASSUME NEW piece, StorageOK(piece), files' = Named(saved)
  PROVE  SavedStays
BY DEF StorageOK, Kept, Named, Restrict, SavedStays

\* The file that is erased is in no saved bank any more.
LEMMA UpdatesStay ==
  ASSUME NEW piece, StorageOK(piece), UpdateSaves \/ UpdateErases
  PROVE  SavedStays
<1>1. CASE UpdateSaves
  BY <1>1, FilesStay DEF UpdateSaves
<1>2. CASE UpdateErases
  <2>1. /\ commit.step = "erase" /\ files' = Without(commit.previous) /\ saved = banks
        /\ commit.previous = NoAddress \/ \A b \in Banks : banks[b] # commit.previous
    BY <1>2 DEF UpdateErases, StorageOK, CommitOK
  <2> QED
    BY <2>1 DEF Without, Restrict, StorageOK, Kept, SavedStays
<1> QED
  BY <1>1, <1>2

LEMMA BackupStays ==
  ASSUME NEW piece, StorageOK(piece), NEW program, NEW a, Free(a),
         Backup(a, program) \/ BackupIncomplete(a)
  PROVE  SavedStays
BY FreeUnnamed, UnnamedStays DEF Backup, BackupIncomplete

\* What the bootloader finds changes only with the bank in the super block.
LEMMA PendingStays ==
  ASSUME NEW piece, StorageOK(piece), SavedStays, saved'["Pending"] = saved["Pending"]
  PROVE  InPending' = InPending
BY DEF SavedStays, InPending, Exists, StorageOK, Kept, Banks

\* What update() saves is what it was called with.
LEMMA SavesPending ==
  ASSUME NEW piece, StorageOK(piece), UpdateSaves, "save" \notin Faults
  PROVE  /\ saved'["Pending"] = banks["Pending"]
         /\ banks["Pending"] # NoAddress => InPending' = files[banks["Pending"]]
BY DEF UpdateSaves, Save, InPending, Exists, StorageOK, Kept, Banks

\* A self flash, as FirmwareBank has it: what is flashed is in the bank.
LEMMA BootloaderFlashes ==
  ASSUME NEW piece, StorageOK(piece), NEW program
  PROVE  IF InPending = Nothing THEN Bootloader(program) = program
                                ELSE Bootloader(program) = InPending
<1>1. NoAddress \notin DOMAIN files
  BY StorageAssumption DEF StorageOK, StorageTyped
<1>2. ASSUME saved["Pending"] # NoAddress
      PROVE  Exists(saved["Pending"]) /\ files[saved["Pending"]] # Nothing
  <2>1. Exists(saved["Pending"]) /\ Complete(files[saved["Pending"]])
    BY <1>2 DEF StorageOK, Kept, Exists, Banks
  <2>2. \A i \in Images : Len(Whole(i)) = Size
    BY StorageAssumption DEF Whole
  <2> QED
    BY <2>1, <2>2, StorageAssumption DEF Complete, Nothing
<1> QED
  BY <1>1, <1>2 DEF Bootloader, InPending, Exists
=============================================================================
