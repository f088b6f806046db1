-------------------------- MODULE FirmwareDownload --------------------------
(***************************************************************************)
(* The core fetches firmware: CheckFirmware downloads into a new file,     *)
(* puts it in the Incoming bank (a module's) or the Pending bank (its      *)
(* own), and in the second case FirmwareSelfFlash backs the program up and *)
(* resets into the bootloader, which flashes from Pending.  Power may fail *)
(* at any step.  The server is external: it may send any image, and stop   *)
(* at any point.                                                           *)
(***************************************************************************)
EXTENDS FirmwareStorage

VARIABLES
  task,      \* what the core is doing
  target,    \* CheckFirmware::bank_
  image,     \* what the server sends
  total,     \* body bytes received, in pieces
  opened,    \* FirmwareStorage::opened_
  program    \* what is in the program flash

vars == <<storage, task, target, image, total, opened, program>>

Tasks == {"rest", "receiving", "updating", "backup", "updatingBackup", "flash"}

Piece == Images \X (1 .. Size)

TypeOK ==
  /\ DOMAIN files \subseteq Blocks
  /\ \A a \in DOMAIN files : files[a] \in Seq(Piece)
  /\ banks \in [Banks -> Address] /\ saved \in [Banks -> Address]
  /\ commit \in [step : {"none", "save", "erase"}, previous : Address]
  /\ task \in Tasks /\ target \in Banks
  /\ image \in Images /\ total \in 0 .. Size
  /\ opened \in Address
  /\ program \in Seq(Piece)

Init ==
  /\ StorageInit
  /\ task = "rest" /\ target = "Incoming" /\ total = 0 /\ opened = NoAddress
  /\ image \in Images
  /\ program = Whole(image)

download == <<target, image, total, opened>>

-----------------------------------------------------------------------------
\* CheckFirmware is entered for a module or for the core, and connects.
Check(b, i) ==
  /\ task = "rest" /\ task' = "receiving"
  /\ target' = b /\ image' = i /\ total' = 0 /\ opened' = NoAddress
  /\ UNCHANGED <<storage, program>>

\* Mutant: <= for <.
ReceivePastEnd ==
  /\ task = "receiving" /\ total <= Size
  /\ total' = total + 1
  /\ \E a \in Blocks :
       /\ IF opened = NoAddress THEN Free(a) ELSE a = opened
       /\ opened' = a
       /\ LET held == IF Exists(a) THEN files[a] ELSE << >>
          IN  files' = With(a, Append(held, <<image, total + 1>>))
  /\ UNCHANGED <<banks, saved, commit, task, target, image, program>>

\* Bytes of the body arrive.  The first open the file; whether they were
\* written is not asked.
Receive ==
  /\ task = "receiving" /\ total < Size
  /\ total' = total + 1
  /\ \E a \in Blocks :
       /\ IF opened = NoAddress THEN Free(a) ELSE a = opened
       /\ opened' = a
       /\ LET held == IF Exists(a) THEN files[a] ELSE << >>
          IN  \/ files' = With(a, Append(held, <<image, total + 1>>))
              \/ "write" \in Faults /\ files' = With(a, held)
  /\ UNCHANGED <<banks, saved, commit, task, target, image, program>>

\* Closed, timed out, or less than content_length: back(), the file stays.
DownloadFails ==
  /\ task = "receiving" /\ total < Size
  /\ task' = "rest"
  /\ UNCHANGED <<storage, download, program>>

\* Mutant: the file is not verified.
DownloadEndsUnverified ==
  /\ task = "receiving" /\ total = Size
  /\ task' = "updating"
  /\ Update(target, opened)
  /\ UNCHANGED <<download, program>>

DownloadEnds ==
  /\ task = "receiving" /\ total = Size
  /\ Verify(opened, total)
  /\ task' = "updating"
  /\ Update(target, opened)
  /\ UNCHANGED <<download, program>>

\* verify() failed: no transition, so the next task() checks again.
DownloadRefused ==
  /\ task = "receiving" /\ total = Size
  /\ ~Verify(opened, total)
  /\ task' = "rest"
  /\ UNCHANGED <<storage, download, program>>

Updating ==
  /\ task \in {"updating", "updatingBackup"}
  /\ UpdateSaves \/ UpdateErases
  /\ UNCHANGED <<task, download, program>>

\* To FirmwareSelfFlash, or to UpgradeModuleFirmware.
Updated ==
  /\ task = "updating" /\ commit = Idle
  /\ task' = IF target = "Pending" THEN "backup" ELSE "rest"
  /\ UNCHANGED <<storage, download, program>>

BackUp ==
  /\ task = "backup"
  /\ \E a \in Blocks :
       /\ Free(a)
       /\ opened' = a
       /\ \/ Backup(a, program) /\ task' = "updatingBackup"
          \/ BackupIncomplete(a) /\ task' = "flash"
  /\ UNCHANGED <<target, image, total, program>>

BackedUp ==
  /\ task = "updatingBackup" /\ commit = Idle
  /\ task' = "flash"
  /\ UNCHANGED <<storage, download, program>>

Restart ==
  /\ StartStorage
  /\ task' = "rest" /\ opened' = NoAddress /\ total' = 0
  /\ UNCHANGED <<target, image>>

\* firmware_self_flash.
SelfFlash ==
  /\ task = "flash"
  /\ program' = Bootloader(program)
  /\ Restart

\* Power, the watchdog, or an assertion.
PowerFails == Restart /\ UNCHANGED program

OutOfRoom ==
  /\ NoRoom
  /\ (task = "receiving" /\ total < Size /\ opened = NoAddress) \/ task = "backup"
  /\ Restart /\ UNCHANGED program

\* CoreState::save, which writes the banks with everything else.
CoreStateSaves ==
  /\ task = "rest"
  /\ Save
  /\ UNCHANGED <<files, banks, commit, task, download, program>>

\* CoreState::formatAll
FormatAll ==
  /\ task = "rest"
  /\ Create
  /\ UNCHANGED <<task, download, program>>

Next ==
  \/ \E b \in {"Incoming", "Pending"}, i \in Images : Check(b, i)
  \/ Receive \/ DownloadFails \/ DownloadEnds \/ DownloadRefused
  \/ Updating \/ Updated \/ BackUp \/ BackedUp \/ SelfFlash
  \/ PowerFails \/ OutOfRoom \/ CoreStateSaves \/ FormatAll

Spec == Init /\ [][Next]_vars

-----------------------------------------------------------------------------
(* Properties *)

(***************************************************************************)
(* Whatever the moment the power fails, a bank of the saved super block    *)
(* names a file that is there, and, unless it is the backup, one complete  *)
(* image: update() saves the new address before it erases the old file,    *)
(* and a file is complete before its address is saved.  This needs the     *)
(* super block to be saved when update() asks for it.                      *)
(***************************************************************************)
BanksHoldImages ==
  \A b \in Banks : saved[b] # NoAddress =>
    /\ Exists(saved[b])
    /\ b # "Backup" => \E i \in Images : files[saved[b]] = Whole(i)

(***************************************************************************)
(* No file is in two banks, on flash or in memory: update() erases the     *)
(* file of one bank without a look at the others.                          *)
(***************************************************************************)
BanksApart ==
  \A b, c \in Banks : b # c =>
    /\ saved[b] # NoAddress => saved[b] # saved[c]
    /\ banks[b] # NoAddress => banks[b] # banks[c]

\* The bootloader only ever finds one complete image to flash, although
\* downloads break off and bytes are lost.
RunsAnImage == \E i \in Images : program = Whole(i)

(***************************************************************************)
(* A download, from the first byte to the bootloader, is one step that     *)
(* puts the image the server sent last into the Pending bank, or none:     *)
(* FirmwareDownload implements FirmwareBank, with power failing anywhere.  *)
(***************************************************************************)
Bank == INSTANCE FirmwareBank WITH offered <- {Whole(image)}, pending <- InPending

Installs == Bank!Spec

\* "Backup of the original firmware.", module_info.h:56: when the core leaves
\* for the bootloader, the Backup bank holds the program that it replaces.
BackupIsProgram ==
  task = "flash" => Exists(saved["Backup"]) /\ files[saved["Backup"]] = program
=============================================================================
