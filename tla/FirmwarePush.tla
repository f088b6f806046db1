---------------------------- MODULE FirmwarePush ----------------------------
(***************************************************************************)
(* The core pushes firmware to a module: PrepareTransmissionData queries   *)
(* QUERY_DATA_PREPARE, streams the core's Incoming bank over the bus, and  *)
(* queries QUERY_DATA_VERIFY with the checksum of what it read.  The       *)
(* module reclaims its flash, receives the pieces from the pipe that its   *)
(* interrupt handler fills, and at the verification puts the file in its   *)
(* Pending bank and flashes itself.  The storage is the module's.          *)
(*                                                                         *)
(* The interrupt handler puts every message, also a query, into the pipe,  *)
(* and every piece of the stream into incoming_.  The link is that of      *)
(* ModuleComms, a query or a poll to a step.  A checksum is the content it *)
(* was computed over.                                                      *)
(***************************************************************************)
EXTENDS FirmwareStorage

CONSTANT PipeSize   \* pieces that fit TwoWireChild::pipe_

ASSUME PushAssumption == PipeSize \in Nat \ {0}

VARIABLES
  step,      \* the query the core is at
  asked,     \* it has been sent
  image,     \* the firmware in the core's Incoming bank
  read,      \* pieces the core has read of it
  fsm,       \* what the module is doing
  incoming,  \* TwoWireChild::incoming_ of the module
  pipe,      \* TwoWireChild::pipe_
  outgoing,  \* TwoWireChild::outgoing_
  received,  \* of ModuleReceiveData::task
  opened,    \* FirmwareStorage::opened_
  status,    \* ModuleServices::dataCopyStatus
  program,   \* the module's program flash
  quiet      \* no fault happens any more

core == <<step, asked, image, read>>
child == <<incoming, pipe, outgoing>>
module == <<fsm, received, opened, status>>
vars == <<storage, core, child, module, program, quiet>>

Steps == {"rest", "prepare", "write", "verify", "other"}
FsmStates ==
  { "ModuleIdle", "ModuleReceiveData", "receiving",
    "updating", "backup", "updatingBackup", "flash" }

Junk == <<"junk", 0>>      \* bytes that are of no firmware
Piece == (Images \X (1 .. Size)) \union {Junk}

\* A message, and the checksum that a verification carries.
Message(type, sum) == [type |-> type, checksum |-> sum]
NoMessage == Message("none", << >>)
MessageTypes == {"none", "prepare", "verify", "other", "malformed"}

NoStatus == [checksum |-> <<Junk>>, pending |-> NoAddress]    \* DataCopyStatus{}

TypeOK ==
  /\ DOMAIN files \subseteq Blocks
  /\ \A a \in DOMAIN files : files[a] \in Seq(Piece)
  /\ banks \in [Banks -> Address] /\ saved \in [Banks -> Address]
  /\ commit \in [step : {"none", "save", "erase"}, previous : Address]
  /\ step \in Steps /\ asked \in BOOLEAN /\ image \in Images /\ read \in 0 .. Size
  /\ fsm \in FsmStates
  /\ incoming.type \in MessageTypes /\ incoming.checksum \in Seq(Piece)
  /\ pipe \in Seq(Piece) /\ Len(pipe) <= PipeSize
  /\ outgoing \in {"none", "ok", "error"}
  /\ received \in 0 .. Size + PipeSize /\ opened \in Address
  /\ status.checksum \in Seq(Piece) /\ status.pending \in Address
  /\ program \in Seq(Piece) /\ quiet \in BOOLEAN

Init ==
  /\ StorageInit
  /\ step = "rest" /\ asked = FALSE /\ read = 0
  /\ image \in Images
  /\ fsm = "ModuleIdle"
  /\ incoming = NoMessage /\ pipe = << >> /\ outgoing = "none"
  /\ received = 0 /\ opened = NoAddress /\ status = NoStatus
  /\ program = Whole(image)
  /\ quiet = FALSE

Fault(kind) == ~quiet /\ kind \in Faults
Slow == Fault("slow")
Noise == Fault("noise")

-----------------------------------------------------------------------------
(* The module's interrupt handler. *)

\* Mutant: the pipe takes everything.
DeliverAll(message, piece) ==
  /\ incoming' = message
  /\ pipe' = Append(pipe, piece)

\* TwoWireChild::receive: what does not fit the pipe is dropped.
Deliver(message, piece) ==
  /\ incoming' = message
  /\ pipe' = IF Len(pipe) < PipeSize THEN Append(pipe, piece) ELSE pipe

-----------------------------------------------------------------------------
(* The core. *)

\* UpgradeModuleFirmware finds a file in its Incoming bank, or any other task
\* queries the module.
Begin(first, i) ==
  /\ step = "rest" /\ step' = first
  /\ asked' = FALSE /\ image' = i /\ read' = 0
  /\ UNCHANGED <<storage, child, module, program>>

\* What the core has read: the checksum it sends.
Sent == SubSeq(Whole(image), 1, read)

CoreQuery == Message(step, IF step = "verify" THEN Sent ELSE << >>)

Garbled(message) == {message} \union (IF Noise THEN {Message("malformed", << >>)} ELSE {})

\* The module has caught up with what it was sent; it may yet have to close
\* the file, and clears incoming_ after that.
Ready ==
  \/ Slow
  \/ fsm = "ModuleIdle" /\ incoming = NoMessage
  \/ fsm = "receiving" /\ pipe = << >>

Querying == step \in {"prepare", "verify", "other"}

Ask ==
  /\ Querying /\ ~asked
  /\ Ready
  /\ \E m \in Garbled(CoreQuery) : Deliver(m, Junk)
  /\ asked' = TRUE
  /\ UNCHANGED <<storage, step, image, read, outgoing, module, program>>

\* Mutant: RETRY ends the query.
PollGivesUp ==
  /\ asked
  /\ asked' = FALSE
  /\ step' = IF outgoing # "none" /\ step = "prepare" THEN "write" ELSE "rest"
  /\ outgoing' = "none"
  /\ UNCHANGED <<storage, image, read, incoming, pipe, module, program>>

\* A reply, also an error, ends the query.  RETRY sends it again; BUSY, which
\* changes nothing, polls on.
Poll ==
  /\ asked
  /\ asked' = FALSE
  /\ \/ /\ outgoing # "none"
        /\ step' = IF step = "prepare" THEN "write" ELSE "rest"
     \/ /\ outgoing = "none" /\ fsm = "ModuleIdle"
        /\ incoming = NoMessage \/ Slow
        /\ UNCHANGED step
  /\ outgoing' = "none"
  /\ UNCHANGED <<storage, image, read, incoming, pipe, module, program>>

\* No reply, a reply that cannot be read, or the transaction timed out: the
\* module may have served the query, and lost its reply.
Fails ==
  /\ Querying
  /\ Noise \/ Slow
  /\ step' = "rest" /\ asked' = FALSE
  /\ outgoing' \in {outgoing, "none"}
  /\ UNCHANGED <<storage, image, read, incoming, pipe, module, program>>

\* WriteModuleData::tick and TwoWireTask::send.  Not slow, the module takes
\* each piece before the next.
SendPiece ==
  /\ step = "write" /\ read < Size
  /\ Slow \/ fsm = "ModuleIdle" \/ (fsm = "receiving" /\ pipe = << >>)
  /\ read' = read + 1
  /\ Deliver(Message("malformed", << >>), <<image, read + 1>>)
  /\ UNCHANGED <<storage, step, asked, image, outgoing, module, program>>

\* The stream is at its end; or a send failed, after pieces were read that
\* were not sent; or the five seconds of transaction_timeout are over.  That
\* a write has no reply is no error: the verification is next.
WriteEnds ==
  /\ step = "write"
  /\ \/ read = Size /\ UNCHANGED read
     \/ Noise /\ read' \in read .. Size
     \/ Slow /\ UNCHANGED read
  /\ step' = "verify" /\ asked' = FALSE
  /\ UNCHANGED <<storage, image, child, module, program>>

CoreRestarts ==
  /\ Fault("reset")
  /\ step' = "rest" /\ asked' = FALSE /\ read' = 0
  /\ UNCHANGED <<storage, image, child, module, program>>

-----------------------------------------------------------------------------
(* The module: ModuleIdle and ModuleServicer. *)

Serving(type) == fsm = "ModuleIdle" /\ incoming.type = type

\* handle(): the pipe is cleared, and an orphaned reply is dropped.
Handled(reply) ==
  /\ incoming' = NoMessage /\ pipe' = << >>
  /\ outgoing' = reply

Malformed ==
  /\ Serving("malformed")
  /\ incoming' = NoMessage
  /\ UNCHANGED <<storage, core, pipe, outgoing, module, program>>

ServeOther ==
  /\ Serving("other")
  /\ Handled("ok")
  /\ UNCHANGED <<storage, core, module, program>>

\* Mutant: nothing is reclaimed.
ServePrepareKeeps ==
  /\ Serving("prepare")
  /\ \/ Handled("ok") /\ fsm' = "ModuleReceiveData"
     \/ Fault("room") /\ Handled("error") /\ UNCHANGED fsm
  /\ UNCHANGED <<storage, core, received, opened, status, program>>

\* QUERY_DATA_PREPARE: every file that no bank names is reclaimed.
ServePrepare ==
  /\ Serving("prepare")
  /\ files' = Named(banks)
  /\ \/ Handled("ok") /\ fsm' = "ModuleReceiveData"
     \/ Fault("room") /\ Handled("error") /\ UNCHANGED fsm
  /\ UNCHANGED <<banks, saved, commit, core, received, opened, status, program>>

\* Mutant: the checksum is not compared.
ServeVerifyUnchecked ==
  /\ Serving("verify")
  /\ IF Verify(status.pending, Size)
     THEN Update("Pending", status.pending) /\ Handled("ok") /\ fsm' = "updating"
     ELSE Handled("error") /\ UNCHANGED <<storage, fsm>>
  /\ UNCHANGED <<core, received, opened, status, program>>

\* QUERY_DATA_VERIFY, and ModuleFirmwareSelfFlash.
ServeVerify ==
  /\ Serving("verify")
  /\ IF status.checksum = incoming.checksum /\ Verify(status.pending, Size)
     THEN Update("Pending", status.pending) /\ Handled("ok") /\ fsm' = "updating"
     ELSE Handled("error") /\ UNCHANGED <<storage, fsm>>
  /\ UNCHANGED <<core, received, opened, status, program>>

-----------------------------------------------------------------------------
(* The module: ModuleReceiveData *)

\* Mutant: what the last transfer left in dataCopyStatus stays.
ReceiveStartsKeeping ==
  /\ fsm = "ModuleReceiveData" /\ fsm' = "receiving"
  /\ \E a \in Blocks : Free(a) /\ files' = With(a, << >>) /\ opened' = a
  /\ pipe' = << >> /\ received' = 0
  /\ UNCHANGED <<banks, saved, commit, core, incoming, outgoing, status, program>>

ReceiveStarts ==
  /\ fsm = "ModuleReceiveData" /\ fsm' = "receiving"
  /\ \E a \in Blocks : Free(a) /\ files' = With(a, << >>) /\ opened' = a
  /\ status' = NoStatus
  /\ pipe' = << >> /\ received' = 0
  /\ UNCHANGED <<banks, saved, commit, core, incoming, outgoing, program>>

\* A read takes what is there, up to its buffer, which holds the whole pipe.
\* What it read counts as received, whether it was written or not.
ReceivePieces ==
  /\ fsm = "receiving" /\ received < Size
  /\ \E n \in 1 .. Len(pipe) :
       /\ received' = received + n
       /\ pipe' = SubSeq(pipe, n + 1, Len(pipe))
       /\ \/ files' = With(opened, files[opened] \o SubSeq(pipe, 1, n))
          \/ Fault("write") /\ UNCHANGED files
  /\ UNCHANGED <<banks, saved, commit, core, incoming, outgoing, fsm, opened, status, program>>

\* Mutant: only the whole file ends the transfer.
DataStopsNever == FALSE

\* Three seconds without a piece.  A core that is not slow takes the reply,
\* and sends the pieces, quicker than that.
DataStops ==
  /\ fsm = "receiving" /\ received < Size /\ pipe = << >>
  /\ Slow \/ (step # "write" /\ outgoing = "none")

\* Exactly the size of the file and all of it on flash, or it is erased.
\* Both buffers are cleared, whatever came into them meanwhile.
ReceiveEnds ==
  /\ fsm = "receiving" /\ (received >= Size \/ DataStops)
  /\ fsm' = "ModuleIdle"
  /\ IF received = Size /\ Verify(opened, Size)
     THEN status' = [checksum |-> files[opened], pending |-> opened] /\ UNCHANGED files
     ELSE files' = Without(opened) /\ UNCHANGED status
  /\ incoming' = NoMessage /\ outgoing' = "none"
  /\ UNCHANGED <<banks, saved, commit, core, pipe, received, opened, program>>

-----------------------------------------------------------------------------
(* The module: FirmwareStorage::update and ModuleFirmwareSelfFlash *)

Updating ==
  /\ fsm \in {"updating", "updatingBackup"}
  /\ UpdateSaves \/ UpdateErases
  /\ UNCHANGED <<core, child, module, program>>

Updated ==
  /\ fsm = "updating" /\ commit = Idle
  /\ fsm' = "backup"
  /\ UNCHANGED <<storage, core, child, received, opened, status, program>>

BackUp ==
  /\ fsm = "backup"
  /\ \E a \in Blocks :
       /\ Free(a)
       /\ opened' = a
       /\ \/ Backup(a, program) /\ fsm' = "updatingBackup"
          \/ BackupIncomplete(a) /\ fsm' = "flash"
  /\ UNCHANGED <<core, child, received, status, program>>

BackedUp ==
  /\ fsm = "updatingBackup" /\ commit = Idle
  /\ fsm' = "flash"
  /\ UNCHANGED <<storage, core, child, received, opened, status, program>>

Restart ==
  /\ StartStorage
  /\ fsm' = "ModuleIdle"
  /\ incoming' = NoMessage /\ pipe' = << >> /\ outgoing' = "none"
  /\ received' = 0 /\ opened' = NoAddress /\ status' = NoStatus
  /\ UNCHANGED core

SelfFlash ==
  /\ fsm = "flash"
  /\ program' = Bootloader(program)
  /\ Restart

\* Power, the watchdog, or ModuleIdle after a long time without a query.
ModuleResets == Fault("reset") /\ Restart /\ UNCHANGED program

-----------------------------------------------------------------------------
Push == Ask \/ Poll \/ Fails \/ SendPiece \/ WriteEnds

Serve == Malformed \/ ServeOther \/ ServePrepare \/ ServeVerify

Receive == ReceiveStarts \/ ReceivePieces \/ ReceiveEnds

Flash == Updating \/ Updated \/ BackUp \/ BackedUp \/ SelfFlash

Step ==
  \/ \E i \in Images : Begin("prepare", i)
  \/ Begin("other", image)
  \/ Push \/ CoreRestarts
  \/ Serve \/ Receive \/ Flash \/ ModuleResets

\* The faults stop while the core rests and the module is idle, with no reply
\* left that the next query would take for its own.
Quiets ==
  /\ ~quiet /\ step = "rest" /\ ~asked
  /\ fsm = "ModuleIdle" /\ incoming = NoMessage /\ outgoing = "none"
  /\ quiet' = TRUE
  /\ UNCHANGED <<storage, core, child, module, program>>

Next == (Step /\ UNCHANGED quiet) \/ Quiets

Spec == Init /\ [][Next]_vars

(***************************************************************************)
(* Each processor has its super-loop, and neither can stop the other's.    *)
(* A poll that is told BUSY changes nothing, and is left out.              *)
(***************************************************************************)
FairSpec ==
  /\ Spec
  /\ WF_vars((Ask \/ Poll \/ SendPiece \/ WriteEnds) /\ UNCHANGED quiet)
  /\ WF_vars((Serve \/ Receive \/ Flash) /\ UNCHANGED quiet)

-----------------------------------------------------------------------------
(* Properties *)

(***************************************************************************)
(* The module's Pending bank, which its bootloader flashes, names a file   *)
(* that is one complete image that the core pushed, whatever is lost,      *)
(* garbled, doubled or late on the bus, and whenever either end restarts.  *)
(***************************************************************************)
PendingIsPushed ==
  saved["Pending"] # NoAddress =>
    Exists(saved["Pending"]) /\ \E i \in Images : files[saved["Pending"]] = Whole(i)

(***************************************************************************)
(* So is a push, whatever is lost, garbled, doubled or late on the bus:    *)
(* FirmwarePush implements FirmwareBank.  The image may be of a push that  *)
(* the core has given up, when its verification is late.                   *)
(***************************************************************************)
Bank == INSTANCE FirmwareBank WITH offered <- Firmware, pending <- InPending

Installs == Bank!Spec

(***************************************************************************)
(* dataCopyStatus never speaks of a file that is there and holds something *)
(* else: a preparation reclaims the file that the last transfer left, and  *)
(* its block is used again, while the checksum of it is still remembered.  *)
(***************************************************************************)
StatusCurrent == Exists(status.pending) => files[status.pending] = status.checksum

(***************************************************************************)
(* Room for three files is enough: neither the assertion of write() nor a  *)
(* stuck self flash is ever reached, however transfers end, because each   *)
(* of them erases, or the next preparation reclaims, what it left.         *)
(***************************************************************************)
AlwaysRoom == fsm \in {"ModuleReceiveData", "backup"} => ~NoRoom

(***************************************************************************)
(* Once the faults stop a push takes, whatever they left on the module's   *)
(* flash and in its banks: the module comes to flash itself, and with what *)
(* the core began to push.  The verification may reach the module while it *)
(* closes the file, which throws the query away; RETRY is what sends it    *)
(* again.                                                                  *)
(***************************************************************************)
PushTakes ==
  \A i \in Images :
    (quiet /\ step = "prepare" /\ image = i) ~> (fsm = "flash" /\ Bootloader(program) = Whole(i))

\* Whatever happens to a transfer, the module is in ModuleIdle again and
\* again, where it serves queries.
ModuleReturns == []<>(fsm = "ModuleIdle")
=============================================================================
