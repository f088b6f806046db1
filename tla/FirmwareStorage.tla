--------------------------- MODULE FirmwareStorage --------------------------
(***************************************************************************)
(* The serial flash of one processor: files that begin at a block, and the *)
(* super block's table of firmware banks.  FirmwareStorage, FlashState and *)
(* SerialFlashFileSystem of the core and of every module are this code.    *)
(*                                                                         *)
(* FirmwareStorage::update sets the bank, saves the super block and erases *)
(* the file the bank named before; power may fail between any two of the   *)
(* three.  A start loads the super block and erases every file no bank     *)
(* names (reclaim).  The file system itself is phylum, a library: a file   *)
(* is here from the time it is formatted until its blocks are erased, and  *)
(* the super block is replaced as a whole or not at all.                   *)
(***************************************************************************)
EXTENDS Naturals, Sequences, Functions, TLC

CONSTANTS
  Blocks,   \* where a file may begin
  Images,   \* the firmware that is published
  Size,     \* pieces of a firmware file; the header is part of the first
  Faults    \* see FaultKinds

FaultKinds ==
  { "save",    \* the super block is not saved
    "write",   \* bytes are not written to a file
    "room",    \* preallocate() fails
    "noise",   \* a message on the bus is lost or garbled
    "slow",    \* a processor is late, or a transaction times out
    "reset" }  \* a processor restarts

NoAddress == 0    \* BlockAddress{}, which is not valid()

Banks == {"Backup", "Pending", "Incoming"}

\* Blocks and images are interchangeable, for the runs that check safety.
Symmetry == Permutations(Blocks) \union Permutations(Images)

ASSUME StorageAssumption ==
  /\ NoAddress \notin Blocks
  /\ Size \in Nat \ {0}
  /\ Faults \subseteq FaultKinds

VARIABLES
  files,    \* what each file holds, by the block it begins at
  banks,    \* state().firmwares.banks
  saved,    \* the banks in the super block on flash
  commit    \* what FirmwareStorage::update has yet to do

storage == <<files, banks, saved, commit>>

Address == Blocks \union {NoAddress}

Idle == [step |-> "none", previous |-> NoAddress]

\* The file of an image, as it is published.
Whole(i) == [k \in 1 .. Size |-> <<i, k>>]

Exists(a) == a \in DOMAIN files

StorageInit ==
  /\ files = << >>
  /\ banks = [b \in Banks |-> NoAddress]
  /\ saved = banks
  /\ commit = Idle

-----------------------------------------------------------------------------
\* FileOpener::open and format: anywhere no file is.
Free(a) == a \in Blocks \ DOMAIN files

\* fk_assert(false) of FirmwareStorage::write.
NoRoom == Blocks \subseteq DOMAIN files

\* The file that begins at a now holds the content, alone of all files.
With(a, content) == [x \in DOMAIN files \union {a} |-> IF x = a THEN content ELSE files[x]]

Without(a) == Restrict(files, DOMAIN files \ {a})

\* The files that some bank of the table names.
Named(table) == Restrict(files, {a \in DOMAIN files : \E b \in Banks : table[b] = a})

\* FirmwareStorage::verify.
Verify(a, size) == Exists(a) /\ Len(files[a]) = size

\* Mutant: the old file goes before the super block is saved.
UpdateErasesFirst(b, a) ==
  /\ commit = Idle
  /\ banks' = [banks EXCEPT ![b] = a]
  /\ commit' = [step |-> "save", previous |-> NoAddress]
  /\ files' = Without(banks[b])
  /\ UNCHANGED saved

\* FirmwareStorage::update, its first lines.
Update(b, a) ==
  /\ commit = Idle
  /\ banks' = [banks EXCEPT ![b] = a]
  /\ commit' = [step |-> "save", previous |-> banks[b]]
  /\ UNCHANGED <<files, saved>>

\* FlashState::save; that it failed is only logged.
Save == saved' = banks \/ ("save" \in Faults /\ UNCHANGED saved)

UpdateSaves ==
  /\ commit.step = "save"
  /\ Save
  /\ commit' = [commit EXCEPT !.step = "erase"]
  /\ UNCHANGED <<files, banks>>

UpdateErases ==
  /\ commit.step = "erase"
  /\ files' = Without(commit.previous)
  /\ commit' = Idle
  /\ UNCHANGED <<banks, saved>>

\* Mutant: the last bank is not walked.
StartForgetsBank ==
  /\ banks' = saved
  /\ files' = Named([saved EXCEPT !["Incoming"] = NoAddress])
  /\ commit' = Idle
  /\ UNCHANGED saved

\* FlashState::initialize and SerialFlashFileSystem::reclaim, at a start.
StartStorage ==
  /\ banks' = saved
  /\ files' = Named(saved)
  /\ commit' = Idle
  /\ UNCHANGED saved

(***************************************************************************)
(* FirmwareStorage::backup, up to the save.  ptr is never advanced, so the *)
(* first piece of the program is written again and again.                  *)
(***************************************************************************)
Backup(a, program) ==
  /\ files' = With(a, [k \in 1 .. Size |-> program[1]])
  /\ banks' = [banks EXCEPT !["Backup"] = a]
  /\ commit' = [step |-> "save", previous |-> banks["Backup"]]
  /\ UNCHANGED saved

\* A write failed: the bank stays as it is, and backup() is content.
BackupIncomplete(a) ==
  /\ "write" \in Faults
  /\ files' = With(a, << >>)
  /\ UNCHANGED <<banks, saved, commit>>

\* What the bootloader (external) leaves in the program flash.
Bootloader(program) ==
  IF Exists(saved["Pending"]) THEN files[saved["Pending"]] ELSE program

\* FlashState::erase: a new super block.
Create ==
  /\ banks' = [b \in Banks |-> NoAddress]
  /\ saved' = banks'
  /\ UNCHANGED <<files, commit>>

-----------------------------------------------------------------------------
(* The bank that the bootloader flashes from, as FirmwareBank has it *)

Firmware == {Whole(i) : i \in Images}
Nothing == << >>
Lost == <<NoAddress>>    \* a file that should be there

InPending ==
  IF saved["Pending"] = NoAddress THEN Nothing
  ELSE IF Exists(saved["Pending"]) THEN files[saved["Pending"]] ELSE Lost
=============================================================================
