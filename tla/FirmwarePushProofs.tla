------------------------- MODULE FirmwarePushProofs -------------------------
(***************************************************************************)
(* What a module puts in its Pending bank, proved for every number of      *)
(* blocks, images and pieces, every size of the pipe and every fault of    *)
(* the bus and of the two processors, as long as the super block is saved  *)
(* when FirmwareStorage::update asks for it.                               *)
(*                                                                         *)
(* The verification compares two checksums.  That dataCopyStatus is of the *)
(* file that is there (StatusCurrent) needs that its block is not used     *)
(* again while it is remembered, which is what ModuleOK says state by      *)
(* state; that what the core sent is the beginning of an image (SentOK),   *)
(* with the size, makes it the image.  As for the download, the files that *)
(* the super block names are left alone (SavedStays), and every step is    *)
(* one of FirmwareBank (BankStep).                                         *)
(*                                                                         *)
(* That there is always room (RoomInv) rests on none of this, and holds    *)
(* also if the super block is not saved.                                   *)
(***************************************************************************)
EXTENDS FirmwarePush, FirmwareStorageProofs

UpdatingStates == {"updating", "backup", "updatingBackup", "flash"}

ModuleOK ==
  /\ fsm \notin {"updating", "updatingBackup"} => commit.step = "none"
  /\ fsm = "receiving" =>
       status = NoStatus /\ opened \in DOMAIN files /\ Unnamed(opened)
  /\ fsm \in {"ModuleIdle", "ModuleReceiveData"} /\ status.pending \in DOMAIN files =>
       Unnamed(status.pending)
  /\ fsm \in UpdatingStates =>
       status.pending \in DOMAIN files /\ banks["Pending"] = status.pending

SentOK ==
  incoming.type = "verify" =>
    \E i \in Images, n \in 0 .. Size : incoming.checksum = SubSeq(Whole(i), 1, n)

RunsAnImage == \E i \in Images : program = Whole(i)

IInv ==
  /\ TypeOK
  /\ StorageOK(Piece) /\ ModuleOK /\ StatusCurrent
  /\ SentOK /\ RunsAnImage

-----------------------------------------------------------------------------
\* A published file is a sequence of pieces, and not an empty one.
LEMMA WholeTyped ==
  ASSUME NEW i \in Images
  PROVE  Whole(i) \in Seq(Piece) /\ Len(Whole(i)) = Size /\ Whole(i)[1] \in Piece
BY StorageAssumption DEF Whole, Piece

\* The beginning of an image that is as long as an image is that image.
LEMMA SentWhole ==
  ASSUME NEW i \in Images, NEW n \in 0 .. Size, Len(SubSeq(Whole(i), 1, n)) = Size
  PROVE  SubSeq(Whole(i), 1, n) = Whole(i)
<1> DEFINE sent == SubSeq(Whole(i), 1, n)
<1>1. n \in Nat /\ Size \in Nat
  BY StorageAssumption
<1>2. sent \in Seq(Piece) /\ Len(sent) = n /\ \A k \in 1 .. n : sent[k] = Whole(i)[k]
  BY <1>1, WholeTyped
<1>3. \A k \in 1 .. Size : sent[k] = <<i, k>>
  BY <1>2 DEF Whole
<1> HIDE DEF sent
<1>4. sent = Whole(i)
  BY <1>2, <1>3, SameAsWhole DEF sent
<1> QED
  BY <1>4 DEF sent

LEMMA InvInit == Init => IInv
<1> SUFFICES ASSUME Init PROVE IInv
  OBVIOUS
<1>1. StorageOK(Piece)
  BY StorageInitOK DEF Init
<1>2. files = << >> /\ DOMAIN files = {} /\ commit = Idle
  BY DEF Init, StorageInit
<1>3. image \in Images /\ program = Whole(image) /\ fsm = "ModuleIdle"
      /\ incoming = NoMessage /\ status = NoStatus /\ opened = NoAddress
  BY DEF Init
<1>4. NoMessage.type \in MessageTypes /\ NoMessage.checksum \in Seq(Piece)
      /\ NoStatus.checksum \in Seq(Piece) /\ NoStatus.pending \in Address
      /\ << >> \in Seq(Piece) /\ Len(<< >>) = 0
  BY DEF NoMessage, Message, MessageTypes, NoStatus, Piece, Address
<1>5. TypeOK
  <2>1. StorageTyped(Piece)
    BY <1>1 DEF StorageOK
  <2>2. step \in Steps /\ read \in 0 .. Size /\ fsm \in FsmStates
        /\ outgoing \in {"none", "ok", "error"} /\ received \in 0 .. Size + PipeSize
        /\ pipe = << >>
    BY StorageAssumption, PushAssumption DEF Init, Steps, FsmStates
  <2>3. asked \in BOOLEAN /\ quiet \in BOOLEAN
    BY DEF Init
  <2>4. Len(pipe) <= PipeSize
    BY <2>2, <1>4, PushAssumption
  <2> QED
    BY <1>3, <1>4, <2>1, <2>2, <2>3, <2>4, WholeTyped DEF TypeOK, StorageTyped, Address
<1>6. ModuleOK /\ StatusCurrent
  BY <1>2, <1>3 DEF Idle, ModuleOK, UpdatingStates, StatusCurrent, Exists
<1>7. SentOK /\ RunsAnImage
  BY <1>3 DEF SentOK, NoMessage, Message, RunsAnImage
<1> QED
  BY <1>1, <1>5, <1>6, <1>7 DEF IInv

-----------------------------------------------------------------------------
(* The steps of the core, and its messages *)

\* A message that is put into incoming_ and into the pipe keeps their types.
LEMMA DeliverTyped ==
  ASSUME TypeOK, NEW m, m.type \in MessageTypes, m.checksum \in Seq(Piece),
         NEW piece \in Piece, Deliver(m, piece)
  PROVE  /\ incoming'.type \in MessageTypes /\ incoming'.checksum \in Seq(Piece)
         /\ pipe' \in Seq(Piece) /\ Len(pipe') <= PipeSize
<1>1. pipe \in Seq(Piece) /\ Len(pipe) <= PipeSize /\ PipeSize \in Nat
  BY PushAssumption DEF TypeOK
<1>2. Append(pipe, piece) \in Seq(Piece) /\ Len(Append(pipe, piece)) = Len(pipe) + 1
  BY <1>1
<1> QED
  BY <1>1, <1>2 DEF Deliver

\* The core touches neither the module's storage nor its states.
LEMMA CoreKeeps ==
  ASSUME IInv, UNCHANGED <<storage, module, program>>, TypeOK', SentOK'
  PROVE  IInv'
<1>1. StorageOK(Piece)'
  BY StorageUnchanged DEF IInv
<1> QED
  BY <1>1
  DEF IInv, storage, module, ModuleOK, UpdatingStates, StatusCurrent, Exists, RunsAnImage, Unnamed

\* What the core has computed its checksum over is the beginning of an image.
LEMMA QueryOK ==
  ASSUME TypeOK
  PROVE  /\ CoreQuery.checksum \in Seq(Piece)
         /\ CoreQuery.type = "verify" =>
              \E i \in Images, n \in 0 .. Size : CoreQuery.checksum = SubSeq(Whole(i), 1, n)
<1>1. image \in Images /\ read \in 0 .. Size
  BY DEF TypeOK
<1>2. read \in Nat
  BY <1>1, StorageAssumption
<1>3. SubSeq(Whole(image), 1, read) \in Seq(Piece)
  BY <1>1, <1>2, WholeTyped, StorageAssumption
<1> QED
  BY <1>1, <1>3 DEF CoreQuery, Message, Sent

LEMMA AskKeeps == IInv /\ Ask /\ UNCHANGED quiet => IInv'
<1> SUFFICES ASSUME IInv, Ask, UNCHANGED quiet PROVE IInv'
  OBVIOUS
<1> USE DEF IInv
<1>1. PICK m \in Garbled(CoreQuery) : Deliver(m, Junk)
  BY DEF Ask
<1>2. m = CoreQuery \/ m = Message("malformed", << >>)
  BY <1>1 DEF Garbled
<1>3. m.type \in MessageTypes /\ m.checksum \in Seq(Piece)
  <2>1. CASE m = CoreQuery
    <3>1. step \in {"prepare", "verify", "other"} /\ CoreQuery.type = step
      BY DEF Ask, Querying, CoreQuery, Message
    <3> QED
      BY <2>1, <3>1, QueryOK DEF MessageTypes
  <2>2. CASE m = Message("malformed", << >>)
    BY <2>2 DEF Message, MessageTypes
  <2> QED
    BY <1>2, <2>1, <2>2
<1>4. TypeOK' /\ UNCHANGED <<storage, module, program>>
  <2>1. Junk \in Piece
    BY DEF Piece
  <2> QED
    BY <1>1, <1>3, <2>1, DeliverTyped DEF Ask, TypeOK, storage, module
<1>5. SentOK'
  BY <1>1, <1>2, QueryOK DEF Deliver, SentOK, Message
<1> QED
  BY <1>4, <1>5, CoreKeeps

LEMMA SendPieceKeeps == IInv /\ SendPiece /\ UNCHANGED quiet => IInv'
<1> SUFFICES ASSUME IInv, SendPiece, UNCHANGED quiet PROVE IInv'
  OBVIOUS
<1> USE DEF IInv
<1> DEFINE m == Message("malformed", << >>)
<1>1. read < Size /\ read' = read + 1 /\ read \in 0 .. Size /\ Size \in Nat /\ image \in Images
      /\ Deliver(m, <<image, read + 1>>)
      /\ UNCHANGED <<storage, step, asked, image, outgoing, module, program>>
  BY StorageAssumption DEF SendPiece, TypeOK
<1>2. <<image, read + 1>> \in Piece
  BY <1>1 DEF Piece
<1>3. m.type = "malformed" /\ m.type \in MessageTypes /\ m.checksum \in Seq(Piece)
  BY DEF Message, MessageTypes
<1>4. SentOK'
  BY <1>1, <1>3 DEF Deliver, SentOK
<1> HIDE DEF m
<1>5. TypeOK' /\ UNCHANGED <<storage, module, program>>
  BY <1>1, <1>2, <1>3, DeliverTyped DEF SendPiece, TypeOK, storage, module
<1> QED
  BY <1>4, <1>5, CoreKeeps

LEMMA OtherCoreKeeps ==
  ASSUME IInv, UNCHANGED quiet,
         \/ \E first \in {"prepare", "other"}, i \in Images : Begin(first, i)
         \/ Poll \/ Fails \/ WriteEnds \/ CoreRestarts
  PROVE  IInv' /\ UNCHANGED <<storage, incoming, pipe, module, program>>
<1>1. UNCHANGED <<storage, incoming, pipe, module, program>>
  BY DEF Begin, Poll, Fails, WriteEnds, CoreRestarts, child
<1>2. step' \in Steps /\ image' \in Images /\ read' \in 0 .. Size
      /\ outgoing' \in {"none", "ok", "error"}
  <2> USE StorageAssumption DEF IInv, TypeOK, Steps
  <2>1. ASSUME NEW first \in {"prepare", "other"}, NEW i \in Images, Begin(first, i)
        PROVE  step' \in Steps /\ image' \in Images /\ read' \in 0 .. Size
               /\ outgoing' \in {"none", "ok", "error"}
    BY <2>1 DEF Begin, child
  <2>2. CASE Poll
    BY <2>2 DEF Poll
  <2>3. CASE Fails
    BY <2>3 DEF Fails
  <2>4. CASE WriteEnds
    BY <2>4 DEF WriteEnds, child
  <2>5. CASE CoreRestarts
    BY <2>5 DEF CoreRestarts, child
  <2> QED
    BY <2>1, <2>2, <2>3, <2>4, <2>5
<1>3. asked' \in BOOLEAN
  BY DEF Begin, Poll, Fails, WriteEnds, CoreRestarts
<1>4. SentOK'
  BY <1>1 DEF IInv, SentOK
<1> QED
  <2>1. TypeOK'
    BY <1>1, <1>2, <1>3 DEF IInv, TypeOK, storage, module
  <2> QED
    BY <1>1, <1>4, <2>1, CoreKeeps

-----------------------------------------------------------------------------
(* The steps of the module *)

LEMMA NothingTyped ==
  /\ NoMessage.type \in MessageTypes /\ NoMessage.type # "verify"
  /\ NoMessage.checksum \in Seq(Piece)
  /\ << >> \in Seq(Piece) /\ Len(<< >>) = 0
  /\ NoStatus.checksum \in Seq(Piece) /\ NoStatus.pending = NoAddress
BY DEF NoMessage, Message, MessageTypes, NoStatus, Piece

\* What a step of the module has to show of the variables that it changes.
LEMMA ModuleKeeps ==
  ASSUME IInv, UNCHANGED <<core, quiet>>, StorageOK(Piece)', ModuleOK', StatusCurrent',
         RunsAnImage',
         UNCHANGED incoming \/ incoming' = NoMessage,
         UNCHANGED pipe \/ pipe' = << >>,
         outgoing' \in {"none", "ok", "error"}, fsm' \in FsmStates,
         received' \in 0 .. Size + PipeSize, opened' \in Address,
         status'.checksum \in Seq(Piece), status'.pending \in Address
  PROVE  IInv'
<1> USE NothingTyped DEF IInv
<1>1. SentOK'
  BY DEF SentOK
<1>2. StorageTyped(Piece)'
  BY DEF StorageOK
<1>3. program' \in Seq(Piece)
  BY WholeTyped DEF RunsAnImage
<1>4. step' \in Steps /\ image' \in Images /\ read' \in 0 .. Size
      /\ incoming'.type \in MessageTypes /\ incoming'.checksum \in Seq(Piece)
      /\ pipe' \in Seq(Piece) /\ Len(pipe') <= PipeSize
  <2>1. step' \in Steps /\ image' \in Images /\ read' \in 0 .. Size
    BY DEF core, TypeOK
  <2>2. incoming'.type \in MessageTypes /\ incoming'.checksum \in Seq(Piece)
    BY DEF TypeOK
  <2>3. pipe' \in Seq(Piece) /\ Len(pipe') <= PipeSize
    <3>1. CASE UNCHANGED pipe
      BY <3>1 DEF TypeOK
    <3>2. CASE pipe' = << >>
      <4>1. Len(pipe') = 0 /\ 0 <= PipeSize
        BY <3>2, PushAssumption
      <4> QED
        BY <3>2, <4>1
    <3> QED
      BY <3>1, <3>2
  <2> QED
    BY <2>1, <2>2, <2>3
<1>5. asked' \in BOOLEAN /\ quiet' \in BOOLEAN
  BY DEF core, TypeOK
<1>6. TypeOK'
  BY <1>2, <1>3, <1>4, <1>5 DEF TypeOK, StorageTyped
<1> QED
  BY <1>1, <1>6

LEMMA StatusTyped ==
  ASSUME TypeOK
  PROVE  /\ outgoing \in {"none", "ok", "error"} /\ fsm \in FsmStates
         /\ received \in 0 .. Size + PipeSize /\ opened \in Address
         /\ status.checksum \in Seq(Piece) /\ status.pending \in Address
BY DEF TypeOK

\* Queries that change no state of the module, and steps between its states.
LEMMA QuietStepKeeps ==
  ASSUME IInv, UNCHANGED <<storage, core, received, opened, status, program, quiet>>,
         UNCHANGED incoming \/ incoming' = NoMessage,
         UNCHANGED pipe \/ pipe' = << >>,
         outgoing' \in {"none", "ok", "error"},
         \/ UNCHANGED fsm
         \/ fsm \in UpdatingStates /\ fsm' \in {"backup", "flash"} /\ commit.step = "none"
  PROVE  IInv'
<1>1. StorageOK(Piece)'
  BY StorageUnchanged DEF IInv
<1>2. ModuleOK' /\ StatusCurrent' /\ RunsAnImage'
  BY DEF IInv, storage, ModuleOK, UpdatingStates, Unnamed, StatusCurrent, Exists, RunsAnImage
<1>3. fsm' \in FsmStates
  BY StatusTyped DEF IInv, FsmStates
<1> QED
  BY <1>1, <1>2, <1>3, StatusTyped, ModuleKeeps DEF IInv

LEMMA PrepareKeeps == IInv /\ ServePrepare /\ UNCHANGED quiet => IInv'
<1> SUFFICES ASSUME IInv, ServePrepare, UNCHANGED quiet PROVE IInv'
  OBVIOUS
<1> USE DEF IInv
<1>1. /\ fsm = "ModuleIdle" /\ fsm' \in {"ModuleIdle", "ModuleReceiveData"}
      /\ files' = Named(banks)
      /\ UNCHANGED <<banks, saved, commit, core, received, opened, status, program>>
      /\ incoming' = NoMessage /\ pipe' = << >> /\ outgoing' \in {"ok", "error"}
  BY DEF ServePrepare, Serving, Handled
<1>2. commit.step = "none"
  BY <1>1 DEF ModuleOK
<1>3. StorageOK(Piece)'
  BY <1>1, <1>2, ReclaimKeeps
<1>4. DOMAIN files' \subseteq DOMAIN files /\ \A a \in DOMAIN files' : files'[a] = files[a]
  BY <1>1 DEF Named, Restrict
<1>5. ModuleOK' /\ StatusCurrent' /\ RunsAnImage'
  BY <1>1, <1>2, <1>4
  DEF ModuleOK, UpdatingStates, Unnamed, StatusCurrent, Exists, RunsAnImage
<1>6. fsm' \in FsmStates
  BY <1>1 DEF FsmStates
<1> QED
  BY <1>1, <1>3, <1>5, <1>6, StatusTyped, ModuleKeeps

\* Equal checksums and the right size make the file an image of the core's.
LEMMA VerifyKeeps == IInv /\ ServeVerify /\ UNCHANGED quiet => IInv'
<1> SUFFICES ASSUME IInv, ServeVerify, UNCHANGED quiet PROVE IInv'
  OBVIOUS
<1> USE DEF IInv
<1>1. /\ fsm = "ModuleIdle" /\ incoming.type = "verify"
      /\ UNCHANGED <<core, received, opened, status, program>>
  BY DEF ServeVerify, Serving
<1>2. CASE ~(status.checksum = incoming.checksum /\ Verify(status.pending, Size))
  BY <1>1, <1>2, QuietStepKeeps DEF ServeVerify, Handled
<1>3. CASE status.checksum = incoming.checksum /\ Verify(status.pending, Size)
  <2>1. /\ Update("Pending", status.pending) /\ fsm' = "updating"
        /\ incoming' = NoMessage /\ pipe' = << >> /\ outgoing' = "ok"
    BY <1>3 DEF ServeVerify, Handled
  <2>2. status.pending \in DOMAIN files /\ Len(files[status.pending]) = Size
        /\ files[status.pending] = incoming.checksum
    BY <1>3 DEF Verify, StatusCurrent, Exists
  <2>3. Complete(files[status.pending])
    <3>1. PICK i \in Images, n \in 0 .. Size : incoming.checksum = SubSeq(Whole(i), 1, n)
      BY <1>1 DEF SentOK
    <3> QED
      BY <2>2, <3>1, SentWhole DEF Complete
  <2>4. Unnamed(status.pending)
    BY <1>1, <2>2 DEF ModuleOK
  <2>5. StorageOK(Piece)'
    BY <2>1, <2>2, <2>3, <2>4, UpdateKeeps DEF Banks
  <2>6. banks'["Pending"] = status.pending /\ UNCHANGED files
    BY <2>1 DEF Update, TypeOK, Banks
  <2>7. ModuleOK' /\ StatusCurrent' /\ RunsAnImage'
    BY <1>1, <2>1, <2>2, <2>6
    DEF ModuleOK, UpdatingStates, StatusCurrent, Exists, RunsAnImage
  <2>8. fsm' \in FsmStates
    BY <2>1 DEF FsmStates
  <2> QED
    BY <1>1, <2>1, <2>5, <2>7, <2>8, StatusTyped, ModuleKeeps
<1> QED
  BY <1>2, <1>3

LEMMA ReceiveStartsKeeps == IInv /\ ReceiveStarts /\ UNCHANGED quiet => IInv'
<1> SUFFICES ASSUME IInv, ReceiveStarts, UNCHANGED quiet PROVE IInv'
  OBVIOUS
<1> USE DEF IInv
<1>1. PICK a \in Blocks : Free(a) /\ files' = With(a, << >>) /\ opened' = a
  BY DEF ReceiveStarts
<1>2. /\ fsm = "ModuleReceiveData" /\ fsm' = "receiving"
      /\ status' = NoStatus /\ pipe' = << >> /\ received' = 0
      /\ UNCHANGED <<banks, saved, commit, core, incoming, outgoing, program>>
  BY DEF ReceiveStarts
<1>3. Unnamed(a)
  BY <1>1, FreeUnnamed
<1>4. StorageOK(Piece)'
  BY <1>1, <1>2, <1>3, NothingTyped, WriteKeeps
<1>5. a \in DOMAIN files'
  BY <1>1 DEF With
<1>6. NoAddress \notin DOMAIN files'
  BY <1>4, StorageAssumption DEF StorageOK, StorageTyped
<1>7. ModuleOK' /\ StatusCurrent' /\ RunsAnImage'
  <2>1. commit.step = "none"
    BY <1>2 DEF ModuleOK
  <2> QED
    BY <1>1, <1>2, <1>3, <1>5, <1>6, <2>1, NothingTyped
    DEF ModuleOK, UpdatingStates, Unnamed, StatusCurrent, Exists, RunsAnImage
<1>8. fsm' \in FsmStates /\ received' \in 0 .. Size + PipeSize /\ opened' \in Address
      /\ status'.checksum \in Seq(Piece) /\ status'.pending \in Address
  BY <1>1, <1>2, NothingTyped, StorageAssumption, PushAssumption DEF FsmStates, Address
<1> QED
  BY <1>2, <1>4, <1>7, <1>8, StatusTyped, ModuleKeeps

LEMMA ReceiveEndsKeeps == IInv /\ ReceiveEnds /\ UNCHANGED quiet => IInv'
<1> SUFFICES ASSUME IInv, ReceiveEnds, UNCHANGED quiet PROVE IInv'
  OBVIOUS
<1> USE DEF IInv
<1>1. /\ fsm = "receiving" /\ fsm' = "ModuleIdle"
      /\ incoming' = NoMessage /\ outgoing' = "none"
      /\ UNCHANGED <<banks, saved, commit, core, pipe, received, opened, program, quiet>>
  BY DEF ReceiveEnds
<1>2. status = NoStatus /\ opened \in DOMAIN files /\ Unnamed(opened) /\ commit.step = "none"
  BY <1>1 DEF ModuleOK
<1>3. opened \in Address /\ files[opened] \in Seq(Piece)
  BY <1>2 DEF TypeOK
<1>4. CASE status' = [checksum |-> files[opened], pending |-> opened] /\ UNCHANGED files
  <2>1. StorageOK(Piece)'
    BY <1>1, <1>4, StorageUnchanged DEF storage
  <2>2. ModuleOK' /\ StatusCurrent' /\ RunsAnImage'
    BY <1>1, <1>2, <1>4
    DEF ModuleOK, UpdatingStates, Unnamed, StatusCurrent, Exists, RunsAnImage
  <2>3. fsm' \in FsmStates /\ status'.checksum \in Seq(Piece) /\ status'.pending \in Address
    BY <1>1, <1>3, <1>4 DEF FsmStates
  <2> QED
    BY <1>1, <2>1, <2>2, <2>3, StatusTyped, ModuleKeeps
<1>5. CASE files' = Without(opened) /\ UNCHANGED status
  <2>1. StorageOK(Piece)'
    BY <1>1, <1>2, <1>5, EraseKeeps
  <2>2. NoAddress \notin DOMAIN files'
    BY <2>1, StorageAssumption DEF StorageOK, StorageTyped
  <2>3. ModuleOK' /\ StatusCurrent' /\ RunsAnImage'
    BY <1>1, <1>2, <1>5, <2>2, NothingTyped
    DEF ModuleOK, UpdatingStates, StatusCurrent, Exists, RunsAnImage
  <2>4. fsm' \in FsmStates
    BY <1>1 DEF FsmStates
  <2> QED
    BY <1>1, <1>5, <2>1, <2>3, <2>4, StatusTyped, ModuleKeeps
<1> QED
  BY <1>4, <1>5 DEF ReceiveEnds

\* Pieces are appended to the file that is open, which is in no bank.
LEMMA ReceivePiecesKeeps == IInv /\ ReceivePieces /\ UNCHANGED quiet => IInv'
<1> SUFFICES ASSUME IInv, ReceivePieces, UNCHANGED quiet PROVE IInv'
  OBVIOUS
<1> USE DEF IInv
<1>1. PICK n \in 1 .. Len(pipe) :
        /\ received' = received + n
        /\ pipe' = SubSeq(pipe, n + 1, Len(pipe))
        /\ \/ files' = With(opened, files[opened] \o SubSeq(pipe, 1, n))
           \/ UNCHANGED files
  BY DEF ReceivePieces
<1>2. /\ fsm = "receiving" /\ received < Size
      /\ UNCHANGED <<banks, saved, commit, core, incoming, outgoing, fsm, opened, status,
                     program, quiet>>
  BY DEF ReceivePieces
<1>3. /\ status = NoStatus /\ opened \in DOMAIN files /\ Unnamed(opened)
      /\ commit.step = "none" /\ opened \in Blocks
  BY <1>2 DEF ModuleOK, StorageOK, StorageTyped
<1>4. pipe \in Seq(Piece) /\ Len(pipe) <= PipeSize /\ Len(pipe) \in Nat /\ n \in Nat
      /\ Size \in Nat /\ PipeSize \in Nat /\ received \in Nat /\ files[opened] \in Seq(Piece)
  BY <1>3, StorageAssumption, PushAssumption DEF TypeOK
<1>5. pipe' \in Seq(Piece) /\ Len(pipe') <= PipeSize
  <2>1. SubSeq(pipe, n + 1, Len(pipe)) \in Seq(Piece)
        /\ Len(SubSeq(pipe, n + 1, Len(pipe))) = Len(pipe) - n
    BY <1>1, <1>4
  <2> QED
    BY <1>1, <1>4, <2>1
<1>6. received' \in 0 .. Size + PipeSize
  BY <1>1, <1>2, <1>4
<1>7. StorageOK(Piece)' /\ opened \in DOMAIN files'
  <2>1. CASE UNCHANGED files
    BY <1>2, <1>3, <2>1, StorageUnchanged DEF storage
  <2>2. CASE files' = With(opened, files[opened] \o SubSeq(pipe, 1, n))
    <3>1. SubSeq(pipe, 1, n) \in Seq(Piece)
      BY <1>1, <1>4
    <3>2. files[opened] \o SubSeq(pipe, 1, n) \in Seq(Piece)
      BY <1>4, <3>1
    <3> QED
      BY <1>2, <1>3, <2>2, <3>2, WriteKeeps DEF With
  <2> QED
    BY <1>1, <2>1, <2>2
<1>8. NoAddress \notin DOMAIN files'
  BY <1>7, StorageAssumption DEF StorageOK, StorageTyped
<1>9. ModuleOK' /\ StatusCurrent' /\ SentOK' /\ RunsAnImage'
  BY <1>2, <1>3, <1>7, <1>8, NothingTyped
  DEF ModuleOK, UpdatingStates, Unnamed, StatusCurrent, Exists, SentOK, RunsAnImage
<1>10. TypeOK'
  <2>1. StorageTyped(Piece)'
    BY <1>7 DEF StorageOK
  <2>2. asked' \in BOOLEAN /\ quiet' \in BOOLEAN
    BY <1>2 DEF core, TypeOK
  <2> QED
    BY <1>2, <1>5, <1>6, <2>1, <2>2 DEF TypeOK, StorageTyped, core
<1> QED
  BY <1>7, <1>9, <1>10

\* The file in the Pending bank is never the one that update() erases.
LEMMA UpdatingKeeps ==
  IInv /\ Updating /\ UNCHANGED quiet /\ "save" \notin Faults => IInv'
<1> SUFFICES ASSUME IInv, Updating, UNCHANGED quiet, "save" \notin Faults PROVE IInv'
  OBVIOUS
<1> USE DEF IInv
<1>1. /\ fsm \in {"updating", "updatingBackup"}
      /\ UNCHANGED <<core, incoming, pipe, outgoing, fsm, received, opened, status, program>>
  BY DEF Updating, child, module
<1>2. StorageOK(Piece)'
  BY SavesKeeps, ErasesKeeps DEF Updating
<1>3. status.pending \in DOMAIN files /\ banks["Pending"] = status.pending
      /\ status.pending # NoAddress
  BY <1>1, StorageAssumption DEF ModuleOK, UpdatingStates, StorageOK, StorageTyped
<1>4. /\ status.pending \in DOMAIN files' /\ files'[status.pending] = files[status.pending]
      /\ UNCHANGED banks
  <2>1. CASE UpdateSaves
    BY <1>3, <2>1 DEF UpdateSaves
  <2>2. CASE UpdateErases
    <3>1. commit.previous # status.pending /\ files' = Without(commit.previous)
          /\ UNCHANGED banks
      BY <1>3, <2>2 DEF UpdateErases, StorageOK, CommitOK, Banks
    <3> QED
      BY <1>3, <3>1 DEF Without, Restrict
  <2> QED
    BY <2>1, <2>2 DEF Updating
<1>5. ModuleOK' /\ StatusCurrent' /\ RunsAnImage'
  BY <1>1, <1>3, <1>4 DEF ModuleOK, UpdatingStates, StatusCurrent, Exists, RunsAnImage
<1> QED
  BY <1>1, <1>2, <1>5, StatusTyped, ModuleKeeps

LEMMA BackUpKeeps == IInv /\ BackUp /\ UNCHANGED quiet => IInv'
<1> SUFFICES ASSUME IInv, BackUp, UNCHANGED quiet PROVE IInv'
  OBVIOUS
<1> USE DEF IInv
<1>1. PICK a \in Blocks :
        /\ Free(a) /\ opened' = a
        /\ \/ Backup(a, program) /\ fsm' = "updatingBackup"
           \/ BackupIncomplete(a) /\ fsm' = "flash"
  BY DEF BackUp
<1>2. fsm = "backup" /\ commit.step = "none"
      /\ UNCHANGED <<core, incoming, pipe, outgoing, received, status, program>>
  BY DEF BackUp, ModuleOK, child
<1>3. StorageOK(Piece)'
  <2>1. program[1] \in Piece
    BY WholeTyped DEF RunsAnImage
  <2> QED
    BY <1>1, <1>2, <2>1, BackupKeeps
<1>4. status.pending \in DOMAIN files /\ banks["Pending"] = status.pending
      /\ a # status.pending
  BY <1>1, <1>2 DEF ModuleOK, UpdatingStates, Free
<1>5. status.pending \in DOMAIN files' /\ files'[status.pending] = files[status.pending]
  BY <1>1, <1>4 DEF Backup, BackupIncomplete, With
<1>6. banks'["Pending"] = banks["Pending"]
  BY <1>1 DEF Backup, BackupIncomplete, StorageOK, StorageTyped, Banks
<1>7. ModuleOK' /\ StatusCurrent' /\ RunsAnImage'
  BY <1>1, <1>2, <1>4, <1>5, <1>6
  DEF ModuleOK, UpdatingStates, StatusCurrent, Exists, RunsAnImage, BackupIncomplete
<1>8. fsm' \in FsmStates /\ opened' \in Address
  BY <1>1 DEF FsmStates, Address
<1> QED
  BY <1>2, <1>3, <1>7, <1>8, StatusTyped, ModuleKeeps

\* A start forgets dataCopyStatus with everything else in memory.
LEMMA RestartKeeps ==
  ASSUME IInv, Restart, UNCHANGED quiet, UNCHANGED program \/ program' = Bootloader(program)
  PROVE  IInv'
<1> USE DEF IInv
<1>1. /\ StartStorage /\ fsm' = "ModuleIdle"
      /\ incoming' = NoMessage /\ pipe' = << >> /\ outgoing' = "none"
      /\ received' = 0 /\ opened' = NoAddress /\ status' = NoStatus /\ UNCHANGED core
  BY DEF Restart
<1>2. StorageOK(Piece)' /\ commit' = Idle
  BY <1>1, StartKeeps
<1>3. NoAddress \notin DOMAIN files'
  BY <1>2, StorageAssumption DEF StorageOK, StorageTyped
<1>4. ModuleOK' /\ StatusCurrent'
  BY <1>1, <1>2, <1>3, NothingTyped
  DEF ModuleOK, UpdatingStates, StatusCurrent, Exists, Idle
<1>5. RunsAnImage'
  BY BootloaderComplete DEF RunsAnImage, Complete
<1>6. fsm' \in FsmStates /\ received' \in 0 .. Size + PipeSize /\ opened' \in Address
      /\ status'.checksum \in Seq(Piece) /\ status'.pending \in Address
  BY <1>1, NothingTyped, StorageAssumption, PushAssumption DEF FsmStates, Address
<1> QED
  BY <1>1, <1>2, <1>4, <1>5, <1>6, ModuleKeeps

LEMMA StepKeeps == IInv /\ Step /\ UNCHANGED quiet /\ "save" \notin Faults => IInv'
<1> SUFFICES ASSUME IInv, Step, UNCHANGED quiet, "save" \notin Faults PROVE IInv'
  OBVIOUS
<1>1. CASE \E first \in {"prepare", "other"}, i \in Images : Begin(first, i)
  BY <1>1, OtherCoreKeeps
<1>2. CASE Ask
  BY <1>2, AskKeeps
<1>3. CASE SendPiece
  BY <1>3, SendPieceKeeps
<1>4. CASE Poll \/ Fails \/ WriteEnds \/ CoreRestarts
  BY <1>4, OtherCoreKeeps
<1>5. CASE Serve
  <2>1. CASE Malformed
    BY <2>1, QuietStepKeeps, StatusTyped DEF Malformed, module, IInv
  <2>2. CASE ServeOther
    BY <2>2, QuietStepKeeps DEF ServeOther, Handled, module
  <2> QED
    BY <1>5, <2>1, <2>2, PrepareKeeps, VerifyKeeps DEF Serve
<1>6. CASE Receive
  BY <1>6, ReceiveStartsKeeps, ReceivePiecesKeeps, ReceiveEndsKeeps DEF Receive
<1>7. CASE Updated \/ BackedUp
  BY <1>7, QuietStepKeeps, StatusTyped
  DEF Updated, BackedUp, child, Idle, UpdatingStates, IInv
<1>8. CASE Updating \/ BackUp
  BY <1>8, UpdatingKeeps, BackUpKeeps
<1>9. CASE SelfFlash
  BY <1>9, RestartKeeps DEF SelfFlash
<1>10. CASE ModuleResets
  BY <1>10, RestartKeeps DEF ModuleResets
<1>11. image \in Images
  BY DEF IInv, TypeOK
<1> QED
  BY <1>1, <1>2, <1>3, <1>4, <1>5, <1>6, <1>7, <1>8, <1>9, <1>10, <1>11
  DEF Step, Push, Flash

LEMMA InvStep == IInv /\ [Next]_vars /\ "save" \notin Faults => IInv'
<1> SUFFICES ASSUME IInv, [Next]_vars, "save" \notin Faults PROVE IInv'
  OBVIOUS
<1>1. CASE Step /\ UNCHANGED quiet
  BY <1>1, StepKeeps
<1>2. CASE Quiets
  <2>1. UNCHANGED <<storage, core, incoming, pipe, outgoing, module, program>> /\ quiet' = TRUE
    BY <1>2 DEF Quiets, child
  <2>2. TypeOK' /\ SentOK'
    BY <2>1 DEF IInv, TypeOK, SentOK, storage, core, module
  <2> QED
    BY <2>1, <2>2, CoreKeeps
<1>3. CASE UNCHANGED vars
  <2>1. UNCHANGED <<storage, core, incoming, pipe, outgoing, module, program, quiet>>
    BY <1>3 DEF vars, child
  <2>2. TypeOK' /\ SentOK'
    BY <2>1 DEF IInv, TypeOK, SentOK, storage, core, module
  <2> QED
    BY <2>1, <2>2, CoreKeeps
<1> QED
  BY <1>1, <1>2, <1>3 DEF Next

-----------------------------------------------------------------------------
(* Room.  Nothing here needs IInv, or that the super block can be saved:   *)
(* it is the count of the files in no bank that matters.                   *)

\* The only file besides the backup and the pending one, if there are any.
NoneBut(other) ==
  \A a \in DOMAIN files : a \in {NoAddress, banks["Backup"], banks["Pending"], other}

RoomTyped ==
  /\ banks \in [Banks -> Address] /\ saved \in [Banks -> Address]
  /\ commit \in [step : {"none", "save", "erase"}, previous : Address]
  /\ opened \in Address /\ status.pending \in Address

\* A module has nothing in its Incoming bank.
NoIncoming == banks["Incoming"] = NoAddress /\ saved["Incoming"] = NoAddress

\* What each state of the module adds to the files in its banks: the transfer
\* that is received, or was, or the file that update() has yet to erase.
Spare ==
  /\ fsm = "ModuleIdle" => NoneBut(status.pending)
  /\ fsm = "ModuleReceiveData" => NoneBut(NoAddress)
  /\ fsm = "receiving" => NoneBut(opened)
  /\ fsm = "updating" =>
       NoneBut(IF commit.step = "none" THEN NoAddress ELSE commit.previous)
  /\ fsm = "backup" => NoneBut(NoAddress)

RoomInv == RoomTyped /\ NoIncoming /\ Spare

LEMMA RoomInit == Init => RoomInv
<1> SUFFICES ASSUME Init PROVE RoomInv
  OBVIOUS
<1>1. DOMAIN files = {} /\ banks = [b \in Banks |-> NoAddress] /\ saved = banks
      /\ commit = Idle /\ opened = NoAddress /\ status.pending = NoAddress
  BY DEF Init, StorageInit, NoStatus
<1> QED
  BY <1>1 DEF RoomInv, RoomTyped, NoIncoming, Spare, NoneBut, Idle, Address, Banks

\* Steps that write no file and set no bank, and keep the module's state.
LEMMA RoomUnchanged ==
  ASSUME RoomInv, UNCHANGED <<storage, module>>
  PROVE  RoomInv'
BY DEF RoomInv, RoomTyped, NoIncoming, Spare, NoneBut, storage, module

\* What a table names is the backup and the pending file.
LEMMA NamedRoom ==
  ASSUME NEW table, table["Incoming"] = NoAddress, NEW a \in DOMAIN Named(table)
  PROVE  a \in {NoAddress, table["Backup"], table["Pending"]}
BY DEF Named, Restrict, Banks

LEMMA ServeRoom == RoomInv /\ Serve => RoomInv'
<1> SUFFICES ASSUME RoomInv, Serve PROVE RoomInv'
  OBVIOUS
<1> USE DEF RoomInv, RoomTyped, NoIncoming, Spare
<1>1. CASE Malformed \/ ServeOther
  BY <1>1, RoomUnchanged DEF Malformed, ServeOther
<1>2. CASE ServePrepare
  <2>1. fsm' \in {"ModuleIdle", "ModuleReceiveData"} /\ files' = Named(banks)
        /\ UNCHANGED <<banks, saved, commit, opened, status>>
    BY <1>2 DEF ServePrepare, Serving
  <2>2. NoneBut(NoAddress)' /\ NoneBut(status.pending)'
    BY <2>1, NamedRoom DEF NoneBut
  <2> QED
    BY <2>1, <2>2
<1>3. CASE ServeVerify
  <2>1. fsm = "ModuleIdle" /\ UNCHANGED <<received, opened, status>>
    BY <1>3 DEF ServeVerify, Serving
  <2>2. CASE UNCHANGED <<storage, fsm>>
    BY <2>1, <2>2, RoomUnchanged DEF module
  <2>3. CASE Update("Pending", status.pending) /\ fsm' = "updating"
    <3>1. /\ banks' = [banks EXCEPT !["Pending"] = status.pending]
          /\ commit' = [step |-> "save", previous |-> banks["Pending"]]
          /\ UNCHANGED <<files, saved>>
      BY <2>3 DEF Update
    <3>2. /\ banks'["Pending"] = status.pending /\ banks'["Backup"] = banks["Backup"]
          /\ banks'["Incoming"] = NoAddress
          /\ banks' \in [Banks -> Address]
      BY <3>1 DEF Banks
    <3>3. commit' \in [step : {"none", "save", "erase"}, previous : Address]
          /\ commit'.step = "save" /\ commit'.previous = banks["Pending"]
      BY <3>1 DEF Banks
    <3>4. NoneBut(commit.previous)'
      BY <2>1, <3>1, <3>2, <3>3 DEF NoneBut
    <3> QED
      BY <2>1, <2>3, <3>1, <3>2, <3>3, <3>4
  <2> QED
    BY <1>3, <2>2, <2>3 DEF ServeVerify
<1> QED
  BY <1>1, <1>2, <1>3 DEF Serve

LEMMA ReceiveRoom == RoomInv /\ Receive => RoomInv'
<1> SUFFICES ASSUME RoomInv, Receive PROVE RoomInv'
  OBVIOUS
<1> USE DEF RoomInv, RoomTyped, NoIncoming, Spare
<1>1. CASE ReceiveStarts
  <2>1. PICK a \in Blocks : files' = With(a, << >>) /\ opened' = a
    BY <1>1 DEF ReceiveStarts
  <2>2. fsm = "ModuleReceiveData" /\ fsm' = "receiving" /\ status' = NoStatus
        /\ UNCHANGED <<banks, saved, commit>>
    BY <1>1 DEF ReceiveStarts
  <2>3. NoneBut(opened)'
    BY <2>1, <2>2 DEF NoneBut, With
  <2> QED
    BY <2>1, <2>2, <2>3 DEF NoStatus, Address
<1>2. CASE ReceivePieces
  <2>1. fsm = "receiving" /\ UNCHANGED <<banks, saved, commit, fsm, opened, status>>
    BY <1>2 DEF ReceivePieces
  <2>2. DOMAIN files' \subseteq DOMAIN files \union {opened}
    BY <1>2 DEF ReceivePieces, With
  <2>3. NoneBut(opened)'
    BY <2>1, <2>2 DEF NoneBut
  <2> QED
    BY <2>1, <2>3
<1>3. CASE ReceiveEnds
  <2>1. fsm = "receiving" /\ fsm' = "ModuleIdle"
        /\ UNCHANGED <<banks, saved, commit, opened>>
    BY <1>3 DEF ReceiveEnds
  <2>2. CASE status' = [checksum |-> files[opened], pending |-> opened] /\ UNCHANGED files
    <3>1. status'.pending = opened
      BY <2>2
    <3>2. NoneBut(status.pending)'
      BY <2>1, <2>2, <3>1 DEF NoneBut
    <3> QED
      BY <2>1, <3>1, <3>2
  <2>3. CASE files' = Without(opened) /\ UNCHANGED status
    <3>1. NoneBut(status.pending)'
      BY <2>1, <2>3 DEF NoneBut, Without, Restrict
    <3> QED
      BY <2>1, <2>3, <3>1
  <2> QED
    BY <1>3, <2>2, <2>3 DEF ReceiveEnds
<1> QED
  BY <1>1, <1>2, <1>3 DEF Receive

\* update() erases the file that the new one takes the place of, so that there
\* is room for the backup.
LEMMA UpdatingRoom == RoomInv /\ Updating => RoomInv'
<1> SUFFICES ASSUME RoomInv, Updating PROVE RoomInv'
  OBVIOUS
<1> USE DEF RoomInv, RoomTyped, NoIncoming, Spare
<1>1. fsm \in {"updating", "updatingBackup"} /\ UNCHANGED <<fsm, opened, status>>
  BY DEF Updating, module
<1>2. CASE UpdateSaves
  <2>1. /\ commit.step = "save" /\ saved' \in {saved, banks} /\ UNCHANGED <<files, banks>>
        /\ commit' = [commit EXCEPT !.step = "erase"]
    BY <1>2 DEF UpdateSaves, Save
  <2>2. commit'.step = "erase" /\ commit'.previous = commit.previous
        /\ commit' \in [step : {"none", "save", "erase"}, previous : Address]
    BY <2>1
  <2> QED
    BY <1>1, <2>1, <2>2 DEF NoneBut
<1>3. CASE UpdateErases
  <2>1. /\ commit.step = "erase" /\ files' = Without(commit.previous)
        /\ commit' = Idle /\ UNCHANGED <<banks, saved>>
    BY <1>3 DEF UpdateErases
  <2>2. commit'.step = "none"
        /\ commit' \in [step : {"none", "save", "erase"}, previous : Address]
    BY <2>1 DEF Idle, Address
  <2>3. fsm = "updating" => NoneBut(NoAddress)'
    BY <2>1 DEF NoneBut, Without, Restrict
  <2> QED
    BY <1>1, <2>1, <2>2, <2>3
<1> QED
  BY <1>2, <1>3 DEF Updating

LEMMA FlashRoom ==
  ASSUME RoomInv, Flash \/ ModuleResets
  PROVE  RoomInv'
<1> USE DEF RoomInv, RoomTyped, NoIncoming, Spare
<1>1. CASE Updating
  BY <1>1, UpdatingRoom
<1>2. CASE Updated \/ BackedUp
  BY <1>2 DEF Updated, BackedUp, Idle, NoneBut, storage
<1>3. CASE BackUp
  <2>1. PICK a \in Blocks :
          \/ Backup(a, program) /\ fsm' = "updatingBackup" /\ opened' = a
          \/ BackupIncomplete(a) /\ fsm' = "flash" /\ opened' = a
    BY <1>3 DEF BackUp
  <2>2. UNCHANGED <<saved, status>>
    BY <1>3, <2>1 DEF BackUp, Backup, BackupIncomplete
  <2>3. banks' \in [Banks -> Address] /\ banks'["Incoming"] = NoAddress
    BY <2>1 DEF Backup, BackupIncomplete, Address, Banks
  <2>4. commit' \in [step : {"none", "save", "erase"}, previous : Address]
    BY <2>1 DEF Backup, BackupIncomplete, Banks
  <2> QED
    BY <2>1, <2>2, <2>3, <2>4 DEF Address
<1>4. CASE SelfFlash \/ ModuleResets
  <2>1. /\ banks' = saved /\ files' = Named(saved) /\ commit' = Idle /\ UNCHANGED saved
        /\ fsm' = "ModuleIdle" /\ opened' = NoAddress /\ status' = NoStatus
    BY <1>4 DEF SelfFlash, ModuleResets, Restart, StartStorage
  <2>2. NoneBut(status.pending)'
    BY <2>1, NamedRoom DEF NoneBut
  <2> QED
    BY <2>1, <2>2 DEF NoStatus, Idle, Address
<1> QED
  BY <1>1, <1>2, <1>3, <1>4 DEF Flash

LEMMA RoomStep == RoomInv /\ [Next]_vars => RoomInv'
<1> SUFFICES ASSUME RoomInv, [Next]_vars PROVE RoomInv'
  OBVIOUS
<1>1. ASSUME NEW first \in {"prepare", "other"}, NEW i, Begin(first, i) PROVE RoomInv'
  BY <1>1, RoomUnchanged DEF Begin
<1>2. CASE Push \/ CoreRestarts
  BY <1>2, RoomUnchanged
  DEF Push, Ask, Poll, Fails, SendPiece, WriteEnds, CoreRestarts
<1>3. CASE Quiets
  BY <1>3, RoomUnchanged DEF Quiets
<1>4. CASE UNCHANGED vars
  BY <1>4, RoomUnchanged DEF vars
<1> QED
  BY <1>1, <1>2, <1>3, <1>4, ServeRoom, ReceiveRoom, FlashRoom DEF Next, Step

LEMMA StepStays == IInv /\ [Next]_vars => SavedStays
<1> SUFFICES ASSUME IInv, [Next]_vars PROVE SavedStays
  OBVIOUS
<1> USE DEF IInv
<1>1. CASE ServePrepare
  <2>1. files' = Named(banks) /\ saved = banks
    BY <1>1 DEF ServePrepare, Serving, ModuleOK, StorageOK, CommitOK
  <2> QED
    BY <2>1, NamedStays
<1>2. CASE ReceiveStarts
  BY <1>2, FreeUnnamed, UnnamedStays DEF ReceiveStarts
<1>3. CASE ReceivePieces
  <2>1. Unnamed(opened) /\ (UNCHANGED files \/ \E content : files' = With(opened, content))
    BY <1>3 DEF ReceivePieces, ModuleOK
  <2> QED
    BY <2>1, FilesStay, UnnamedStays
<1>4. CASE ReceiveEnds
  <2>1. Unnamed(opened) /\ (UNCHANGED files \/ files' = Without(opened))
    BY <1>4 DEF ReceiveEnds, ModuleOK
  <2> QED
    BY <2>1, FilesStay, UnnamedStays
<1>5. CASE Updating
  BY <1>5, UpdatesStay DEF Updating
<1>6. CASE BackUp
  BY <1>6, BackupStays DEF BackUp
<1>7. CASE SelfFlash \/ ModuleResets
  BY <1>7, NamedStays DEF SelfFlash, ModuleResets, Restart, StartStorage
<1>8. CASE Malformed \/ ServeOther \/ ServeVerify \/ Updated \/ BackedUp
  <2>1. UNCHANGED files
    BY <1>8 DEF Malformed, ServeOther, ServeVerify, Update, Updated, BackedUp, storage
  <2> QED
    BY <2>1, FilesStay
<1>9. ASSUME UNCHANGED storage PROVE SavedStays
  BY <1>9, FilesStay DEF storage
<1>10. CASE Push \/ CoreRestarts \/ Quiets \/ UNCHANGED vars
       \/ \E first \in {"prepare", "other"} : \E i : Begin(first, i)
  <2>1. UNCHANGED storage
    BY <1>10
    DEF Push, Ask, Poll, Fails, SendPiece, WriteEnds, CoreRestarts, Quiets, Begin, vars
  <2> QED
    BY <1>9, <2>1
<1> QED
  BY <1>1, <1>2, <1>3, <1>4, <1>5, <1>6, <1>7, <1>8, <1>10
  DEF Next, Step, Serve, Receive, Flash

-----------------------------------------------------------------------------
(* The refinement of FirmwareBank *)

\* What update() is about to save differs from what is saved in one bank.
CommitsOne ==
  commit.step = "save" =>
    \/ fsm = "updating"
    \/ fsm = "updatingBackup" /\ saved["Pending"] = banks["Pending"]

LEMMA CommitsOneStep == IInv /\ CommitsOne /\ [Next]_vars => CommitsOne'
<1> SUFFICES ASSUME IInv, CommitsOne, [Next]_vars PROVE CommitsOne'
  OBVIOUS
<1> USE DEF IInv
<1>1. CASE ServeVerify
  <2>1. fsm = "ModuleIdle" /\ (fsm' = "updating" \/ UNCHANGED <<storage, fsm>>)
    BY <1>1 DEF ServeVerify, Serving
  <2> QED
    BY <2>1 DEF ModuleOK, CommitsOne, storage
<1>2. CASE BackUp
  <2>1. saved = banks /\ commit.step = "none" /\ banks \in [Banks -> Address]
    BY <1>2 DEF BackUp, ModuleOK, StorageOK, CommitOK, TypeOK
  <2>2. PICK a : \/ Backup(a, program) /\ fsm' = "updatingBackup"
                 \/ BackupIncomplete(a)
    BY <1>2 DEF BackUp
  <2>3. CASE Backup(a, program) /\ fsm' = "updatingBackup"
    <3>1. UNCHANGED saved /\ banks' = [banks EXCEPT !["Backup"] = a]
      BY <2>3 DEF Backup
    <3>2. banks'["Pending"] = banks["Pending"]
      BY <2>1, <3>1 DEF Banks
    <3> QED
      BY <2>1, <2>3, <3>1, <3>2 DEF CommitsOne
  <2>4. CASE BackupIncomplete(a)
    BY <2>1, <2>4 DEF BackupIncomplete, CommitsOne
  <2> QED
    BY <2>2, <2>3, <2>4
<1>3. CASE Updating
  <2>1. commit'.step # "save"
    BY <1>3 DEF Updating, UpdateSaves, UpdateErases, Idle, TypeOK
  <2> QED
    BY <2>1 DEF CommitsOne
<1>4. CASE SelfFlash \/ ModuleResets
  BY <1>4 DEF SelfFlash, ModuleResets, Restart, StartStorage, Idle, CommitsOne
<1>5. CASE Malformed \/ ServeOther \/ ServePrepare \/ Receive \/ Updated \/ BackedUp
  <2>1. commit.step = "none" /\ UNCHANGED commit
    BY <1>5
    DEF Malformed, ServeOther, ServePrepare, Serving, Receive, ReceiveStarts, ReceivePieces,
        ReceiveEnds, Updated, BackedUp, storage, ModuleOK, Idle
  <2> QED
    BY <2>1 DEF CommitsOne
<1>6. CASE Push \/ CoreRestarts \/ Quiets \/ UNCHANGED vars
       \/ \E first \in {"prepare", "other"} : \E i : Begin(first, i)
  <2>1. UNCHANGED <<storage, fsm>>
    BY <1>6
    DEF Push, Ask, Poll, Fails, SendPiece, WriteEnds, CoreRestarts, Quiets, Begin, vars, module
  <2> QED
    BY <2>1 DEF storage, CommitsOne
<1> QED
  BY <1>1, <1>2, <1>3, <1>4, <1>5, <1>6 DEF Next, Step, Serve, Flash

LEMMA BankStep ==
  IInv /\ CommitsOne /\ [Next]_vars /\ "save" \notin Faults => [Bank!Next]_(Bank!vars)
<1> SUFFICES ASSUME IInv, CommitsOne, [Next]_vars, "save" \notin Faults
             PROVE  [Bank!Next]_(Bank!vars)
  OBVIOUS
<1> USE DEF IInv
<1>p. saved'["Pending"] = saved["Pending"] => InPending' = InPending
  BY StepStays, PendingStays
<1>f. UNCHANGED Firmware
  BY DEF Firmware, Whole
<1>1. CASE UpdateSaves /\ Updating
  <2>1. UNCHANGED program /\ commit.step = "save"
    BY <1>1 DEF Updating, UpdateSaves
  <2>2. CASE fsm = "updating"
    <3>1. banks["Pending"] # NoAddress
      BY <2>2, StorageAssumption
      DEF ModuleOK, UpdatingStates, StorageOK, StorageTyped
    <3>2. InPending' \in Firmware
      BY <1>1, <3>1, SavesPending DEF StorageOK, Kept, Complete, Firmware, Banks
    <3> QED
      BY <1>f, <2>1, <3>2 DEF Bank!Next, Bank!Install
  <2>3. CASE fsm # "updating"
    <3>1. saved'["Pending"] = saved["Pending"]
      BY <1>1, <2>1, <2>3, SavesPending DEF CommitsOne
    <3> QED
      BY <1>f, <1>p, <2>1, <3>1 DEF Bank!vars
  <2> QED
    BY <2>2, <2>3
<1>2. CASE SelfFlash
  <2>1. UNCHANGED saved /\ program' = Bootloader(program)
    BY <1>2 DEF SelfFlash, Restart, StartStorage
  <2> QED
    BY <1>f, <1>p, <2>1, BootloaderFlashes DEF Bank!Next, Bank!Flash, Bank!vars
<1>3. CASE Serve \/ Receive \/ Updated \/ BackUp \/ BackedUp \/ ModuleResets
           \/ (UpdateErases /\ Updating)
  <2>1. UNCHANGED <<saved, program>>
    BY <1>3
    DEF Serve, Malformed, ServeOther, ServePrepare, ServeVerify, Update, Receive,
        ReceiveStarts, ReceivePieces, ReceiveEnds, Updated, BackUp, Backup, BackupIncomplete,
        BackedUp, ModuleResets, Restart, StartStorage, UpdateErases, Updating, storage
  <2> QED
    BY <1>f, <1>p, <2>1 DEF Bank!vars
<1>4. CASE Push \/ CoreRestarts \/ Quiets \/ UNCHANGED vars
       \/ \E first \in {"prepare", "other"} : \E i : Begin(first, i)
  <2>1. UNCHANGED <<saved, program>>
    BY <1>4
    DEF Push, Ask, Poll, Fails, SendPiece, WriteEnds, CoreRestarts, Quiets, Begin, vars, storage
  <2> QED
    BY <1>f, <1>p, <2>1 DEF Bank!vars
<1> QED
  BY <1>1, <1>2, <1>3, <1>4 DEF Next, Step, Flash, Updating

-----------------------------------------------------------------------------
(* The theorems *)

LEMMA Invariance == ASSUME "save" \notin Faults PROVE Spec => []IInv
<1>1. Init => IInv
  BY InvInit
<1>2. IInv /\ [Next]_vars => IInv'
  BY InvStep
<1> QED
  BY <1>1, <1>2, PTL DEF Spec

(***************************************************************************)
(* What the bootloader of a module flashes is one complete image that the  *)
(* core pushed: no garbled, dropped, doubled or foreign piece, and no file *)
(* of an earlier transfer, ever gets through QUERY_DATA_VERIFY.            *)
(***************************************************************************)
THEOREM PendingIsPushedSafe ==
  ASSUME "save" \notin Faults
  PROVE  Spec => []PendingIsPushed
<1>1. IInv => PendingIsPushed
  BY DEF IInv, StorageOK, Kept, Complete, PendingIsPushed, Exists, Banks
<1> QED
  BY <1>1, Invariance, PTL

(***************************************************************************)
(* dataCopyStatus is of the file that its block holds, or of none: it is   *)
(* forgotten by ModuleReceiveData before a block can be used again.        *)
(***************************************************************************)
THEOREM StatusCurrentSafe ==
  ASSUME "save" \notin Faults
  PROVE  Spec => []StatusCurrent
<1>1. IInv => StatusCurrent
  BY DEF IInv
<1> QED
  BY <1>1, Invariance, PTL

(***************************************************************************)
(* The files, the banks and what the two processors and the bus hold have  *)
(* their types; no more pieces are on their way than the pipe has room for. *)
(***************************************************************************)
THEOREM TypeCorrect ==
  ASSUME "save" \notin Faults
  PROVE  Spec => []TypeOK
<1>1. IInv => TypeOK
  BY DEF IInv
<1> QED
  BY <1>1, Invariance, PTL

(***************************************************************************)
(* Three blocks where a file may begin are enough, whatever fails and      *)
(* however transfers end, also if the super block is never saved: neither  *)
(* the assertion of FirmwareStorage::write nor a self flash without room   *)
(* for its backup is reached.                                              *)
(***************************************************************************)
THEOREM AlwaysRoomSafe ==
  ASSUME \E a, b, c \in Blocks : a # b /\ b # c /\ a # c
  PROVE  Spec => []AlwaysRoom
<1>1. RoomInv => AlwaysRoom
  <2> SUFFICES ASSUME RoomInv, fsm \in {"ModuleReceiveData", "backup"}, NoRoom PROVE FALSE
    BY DEF AlwaysRoom
  <2>1. \A a \in Blocks : a \in {banks["Backup"], banks["Pending"]}
    BY StorageAssumption DEF RoomInv, Spare, NoneBut, NoRoom
  <2> QED
    BY <2>1
<1>2. Init => RoomInv
  BY RoomInit
<1>3. RoomInv /\ [Next]_vars => RoomInv'
  BY RoomStep
<1> QED
  BY <1>1, <1>2, <1>3, PTL DEF Spec

(***************************************************************************)
(* No step ever changes or erases a file that the super block on flash     *)
(* names: a new file is complete, and the super block has its address,     *)
(* before the old one is touched, so that every moment is safe to lose     *)
(* power at.                                                               *)
(***************************************************************************)
THEOREM SavedFilesStay ==
  ASSUME "save" \notin Faults
  PROVE  Spec => [][SavedStays]_vars
<1>1. IInv /\ [Next]_vars => [SavedStays]_vars
  BY StepStays
<1> QED
  BY <1>1, Invariance, PTL DEF Spec

(***************************************************************************)
(* A module runs a complete image, one that the core pushed or the one it  *)
(* was made with, however pushes break off, and whenever it restarts.      *)
(***************************************************************************)
THEOREM RunsAnImageSafe ==
  ASSUME "save" \notin Faults
  PROVE  Spec => []RunsAnImage
<1>1. IInv => RunsAnImage
  BY DEF IInv
<1> QED
  BY <1>1, Invariance, PTL

(***************************************************************************)
(* A push implements FirmwareBank, step by step: whatever happens on the   *)
(* bus and whenever either end restarts, the module's bank is replaced by  *)
(* one whole image at the moment the super block is saved, and its program *)
(* by what is in the bank.                                                 *)
(***************************************************************************)
THEOREM BankImplemented ==
  ASSUME "save" \notin Faults
  PROVE  Spec => Installs
<1>1. Init => Bank!Init /\ CommitsOne
  BY DEF Init, StorageInit, Idle, Bank!Init, InPending, Firmware, CommitsOne, Banks
<1>2. Spec => [](IInv /\ CommitsOne)
  BY <1>1, Invariance, CommitsOneStep, PTL DEF Spec
<1>3. IInv /\ CommitsOne /\ [Next]_vars => [Bank!Next]_(Bank!vars)
  BY BankStep
<1> QED
  BY <1>1, <1>2, <1>3, PTL DEF Spec, Installs, Bank!Spec
=============================================================================
