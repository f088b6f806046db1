------------------------- MODULE WifiServicesProofs -------------------------
(***************************************************************************)
(* Every file of the core is uploaded as DataDelivery promises, for every  *)
(* capacity of the logs and of the card, every number of tries, every      *)
(* download the app may ask for and every combination of faults.           *)
(*                                                                         *)
(* The invariant says what an upload knows of its file (UploadOK): as long *)
(* as the file still has the content that was opened, all before the copy  *)
(* began had been accepted by a server, and once the server has accepted   *)
(* the request, all up to where the copy stands.  A cursor in doubt is     *)
(* never 0 (DoubtOK), which is what makes it fall out of doubt.  The open  *)
(* handle of the data file stands where the file ends (HandleOK).          *)
(*                                                                         *)
(* Every action does one of four things to the card, or none (CardStep),   *)
(* each of which is a step of the delivery of every file; the proof that   *)
(* an action does no more than that is one lemma per action.               *)
(***************************************************************************)
EXTENDS WifiServices, TLAPS

\* A cursor at 0 claims nothing.
DoubtOK == \A f \in doubtful : cursors[f] > 0

\* What an upload that is connected knows of the file it sends.
UploadOK ==
  upload.connected =>
    /\ current = "WifiTransmitFile"
    /\ copy.file = upload.file
    /\ copy.whole =>
         /\ upload.start < copy.end /\ copy.end <= size[upload.file]
         /\ upload.start <= copy.tell /\ copy.tell <= copy.end
         /\ upload.file \in doubtful \/ 1 .. upload.start \subseteq received[upload.file]
         /\ upload.accepted =>
              /\ copy.tell = copy.end
              /\ (upload.start + 1) .. copy.tell \subseteq received[upload.file]

\* The handle that is asked whether metadata is needed is of the file as it is.
HandleOK == opened => data.tell = size["Data"]

\* The inductive invariant.
IInv == TypeOK /\ CursorSound /\ DoubtOK /\ UploadOK /\ HandleOK

-----------------------------------------------------------------------------
\* The types of what is on the card.
CardTyped ==
  /\ size \in [Files -> Nat] /\ cursors \in [Files -> Nat]
  /\ received \in [Files -> SUBSET Nat] /\ doubtful \subseteq Files

\* The files that are not in W keep the records they have.
Grown(W, s) == \A f \in Files \ W : s[f] >= size[f]

\* Files are erased or grow; the cursors stay or are all lost.
ContentStep ==
  \E W \in SUBSET Files, s \in [Files -> Nat], c \in [Files -> Nat] :
    /\ Contents(W, s, c) /\ Grown(W, s)
    /\ \/ c = cursors
       \/ c = [f \in Files |-> 0] /\ (W = Files \/ s = size)

\* A cursor is saved; a sound one points no further than a server has accepted.
CursorStep ==
  \E f \in Files, position \in Nat, sound \in BOOLEAN :
    /\ SaveCursor(f, position, sound)
    /\ sound /\ f \notin doubtful => 1 .. position \subseteq received[f]

\* A server accepts records of a file.
AcceptStep ==
  /\ UNCHANGED <<size, cursors, doubtful>>
  /\ \E f \in Files : \E start \in 1 .. size[f], last \in 1 .. size[f] :
       received' = [received EXCEPT ![f] = @ \union (start .. last)]

\* What an action may do to the card.
CardStep == UNCHANGED cardVars \/ ContentStep \/ CursorStep \/ AcceptStep

\* The part of the invariant that is about the card.
Invs == CardTyped /\ CursorSound /\ DoubtOK

\* Every file takes a step of its delivery, or none.
DeliveryStep == \A f \in Files : [Delivery(f)!Next]_(Delivery(f)!vars)

\* Contents: an erase, a write, or both and the loss of the cursors, as the erasing
\* queries, the swap of the logs, the start and the recording of data do them.
LEMMA ContentDelivers ==
  ASSUME Invs, ContentStep
  PROVE  Invs' /\ DeliveryStep
<1>1. PICK W \in SUBSET Files, s \in [Files -> Nat], c \in [Files -> Nat] :
        /\ Contents(W, s, c) /\ Grown(W, s)
        /\ \/ c = cursors
           \/ c = [f \in Files |-> 0] /\ (W = Files \/ s = size)
  BY DEF ContentStep
<1>2. /\ size' = s /\ cursors' = c
      /\ received' = [f \in Files |-> IF f \in W THEN {} ELSE received[f]]
      /\ doubtful' = {f \in doubtful \union W : c[f] > 0}
  BY <1>1 DEF Contents
<1>3. CardTyped'
  BY <1>1, <1>2 DEF Invs, CardTyped
<1>4. CursorSound' /\ DoubtOK'
  <2>1. ASSUME NEW f \in Files, f \notin doubtful'
        PROVE  1 .. cursors'[f] \subseteq received'[f]
    <3>1. CASE c[f] = 0
      BY <1>2, <3>1
    <3>2. CASE c[f] # 0
      <4>1. c[f] > 0 /\ c = cursors
        BY <1>1, <3>2
      <4>2. f \notin W /\ f \notin doubtful
        BY <1>2, <2>1, <4>1
      <4> QED
        BY <1>2, <4>1, <4>2 DEF Invs, CursorSound
    <3> QED
      BY <3>1, <3>2
  <2> QED
    BY <1>2, <2>1 DEF CursorSound, DoubtOK
<1>5. ASSUME NEW f \in Files
      PROVE  [Delivery(f)!Next]_(Delivery(f)!vars)
  <2>1. size'[f] \in Nat /\ size[f] \in Nat /\ cursors[f] \in Nat
    BY <1>3 DEF CardTyped, Invs
  <2>2. CASE f \in W
    <3>1. received'[f] = {}
      BY <1>2, <2>2
    <3>2. (f \in doubtful') <=> (c[f] > 0)
      BY <1>2, <2>2
    <3>3. CASE c = cursors
      <4>1. cursors'[f] = cursors[f] /\ (f \in doubtful') = (cursors[f] > 0)
        BY <1>2, <3>2, <3>3
      <4> QED
        BY <2>1, <3>1, <4>1 DEF Delivery!Next, Delivery!Erase
    <3>4. CASE c = [g \in Files |-> 0]
      <4>1. cursors'[f] = 0 /\ (f \in doubtful') = FALSE
        BY <1>2, <3>2, <3>4
      <4> QED
        BY <2>1, <3>1, <4>1 DEF Delivery!Next, Delivery!Erase
    <3> QED
      BY <1>1, <3>3, <3>4
  <2>3. CASE f \notin W
    <3>1. received'[f] = received[f] /\ size'[f] >= size[f]
      BY <1>1, <1>2, <2>3 DEF Grown
    <3>2. CASE c = cursors
      <4>1. cursors'[f] = cursors[f] /\ (f \in doubtful') = (f \in doubtful)
        BY <1>2, <2>3, <3>2 DEF Invs, DoubtOK
      <4> QED
        BY <2>1, <3>1, <4>1 DEF Delivery!Next, Delivery!Write, Delivery!vars
    <3>3. CASE c = [g \in Files |-> 0] /\ (W = Files \/ s = size)
      <4>1. cursors'[f] = 0 /\ (f \in doubtful') = FALSE
        BY <1>2, <3>3
      <4>2. size'[f] = size[f]
        <5>2. CASE s = size
          BY <1>2, <5>2
        <5> QED
          BY <2>3, <3>3, <5>2
      <4> QED
        BY <3>1, <4>1, <4>2 DEF Delivery!Next, Delivery!Rewind
    <3> QED
      BY <1>1, <3>2, <3>3
  <2> QED
    BY <2>2, <2>3
<1> QED
  BY <1>3, <1>4, <1>5 DEF Invs, DeliveryStep

\* SaveCursor, whether the file of cursors could be read and written or not.
LEMMA CursorDelivers ==
  ASSUME Invs, CursorStep
  PROVE  Invs' /\ DeliveryStep
<1>1. PICK f \in Files, position \in Nat, sound \in BOOLEAN :
        /\ SaveCursor(f, position, sound)
        /\ sound /\ f \notin doubtful => 1 .. position \subseteq received[f]
  BY DEF CursorStep
<1>2. PICK c \in SavedCursors(f, position) :
        /\ cursors' = c
        /\ doubtful' = {g \in doubtful \union (IF sound THEN {} ELSE {f}) : c[g] > 0}
        /\ UNCHANGED <<size, received>>
  BY <1>1 DEF SaveCursor
<1>3. /\ c \in [Files -> Nat]
      /\ c[f] = position \/ c[f] = cursors[f]
      /\ \A g \in Files \ {f} : c[g] = cursors[g] \/ c[g] = 0
  BY <1>2 DEF SavedCursors, Invs, CardTyped
<1>4. CardTyped'
  BY <1>1, <1>2, <1>3 DEF Invs, CardTyped
<1>5. ASSUME NEW g \in Files
      PROVE  /\ g \notin doubtful' => 1 .. cursors'[g] \subseteq received'[g]
             /\ g \in doubtful' => cursors'[g] > 0
             /\ [Delivery(g)!Next]_(Delivery(g)!vars)
  <2>1. c[g] \in Nat /\ cursors[g] \in Nat /\ cursors'[g] = c[g]
    BY <1>2, <1>3 DEF Invs, CardTyped
  <2>2. UNCHANGED <<size[g], received[g]>>
    BY <1>2
  <2>3. (g \in doubtful) => cursors[g] > 0
    BY DEF Invs, DoubtOK
  <2>4. g \notin doubtful => 1 .. cursors[g] \subseteq received[g]
    BY DEF Invs, CursorSound
  <2>5. CASE c[g] = 0
    <3>1. cursors'[g] = 0 /\ (g \in doubtful') = FALSE
      BY <1>2, <2>1, <2>5
    <3> QED
      BY <2>1, <2>2, <2>5, <3>1 DEF Delivery!Next, Delivery!Rewind
  <2>6. CASE c[g] # 0 /\ g # f
    <3>1. c[g] = cursors[g] /\ (g \in doubtful') = (g \in doubtful)
      BY <1>2, <1>3, <2>1, <2>3, <2>6
    <3> QED
      BY <2>1, <2>2, <2>3, <2>4, <3>1 DEF Delivery!vars
  <2>7. CASE c[g] # 0 /\ g = f /\ ~sound
    <3>1. (g \in doubtful') = TRUE /\ cursors'[g] > 0
      BY <1>2, <2>1, <2>7
    <3> QED
      BY <2>1, <2>2, <3>1 DEF Delivery!Next, Delivery!Misled
  <2>8. CASE c[g] # 0 /\ g = f /\ sound
    <3>1. (g \in doubtful') = (g \in doubtful) /\ cursors'[g] > 0
      BY <1>2, <2>1, <2>8
    <3>2. g \in doubtful \/ 1 .. cursors'[g] \subseteq received[g]
      BY <1>1, <1>3, <2>1, <2>4, <2>8
    <3> QED
      BY <2>1, <2>2, <3>1, <3>2 DEF Delivery!Next, Delivery!Advance
  <2> QED
    BY <2>5, <2>6, <2>7, <2>8
<1>6. CursorSound' /\ DoubtOK'
  BY <1>4, <1>5 DEF CursorSound, DoubtOK, CardTyped
<1> QED
  BY <1>4, <1>5, <1>6 DEF Invs, DeliveryStep

\* The server keeps what it was sent.
LEMMA AcceptDelivers ==
  ASSUME Invs, AcceptStep
  PROVE  Invs' /\ DeliveryStep
<1>1. PICK f \in Files : \E start \in 1 .. size[f], last \in 1 .. size[f] :
        received' = [received EXCEPT ![f] = @ \union (start .. last)]
  BY DEF AcceptStep
<1>2. PICK start \in 1 .. size[f], last \in 1 .. size[f] :
        received' = [received EXCEPT ![f] = @ \union (start .. last)]
  BY <1>1
<1>3. UNCHANGED <<size, cursors, doubtful>>
  BY DEF AcceptStep
<1>4. size[f] \in Nat /\ start .. last \subseteq Nat
  BY DEF Invs, CardTyped
<1>5. CardTyped' /\ DoubtOK'
  BY <1>2, <1>3, <1>4 DEF Invs, CardTyped, DoubtOK
<1>6. \A g \in Files : received[g] \subseteq received'[g]
  BY <1>2 DEF Invs, CardTyped
<1>7. CursorSound'
  BY <1>3, <1>6 DEF Invs, CursorSound
<1>8. ASSUME NEW g \in Files
      PROVE  [Delivery(g)!Next]_(Delivery(g)!vars)
  <2>1. UNCHANGED <<size[g], cursors[g], g \in doubtful>>
    BY <1>3
  <2>2. CASE g = f
    <3>1. received'[g] = received[g] \union (start .. last)
      BY <1>2, <2>2 DEF Invs, CardTyped
    <3> QED
      BY <2>1, <2>2, <3>1 DEF Delivery!Next, Delivery!Deliver
  <2>3. CASE g # f
    <3>1. received'[g] = received[g]
      BY <1>2, <2>3 DEF Invs, CardTyped
    <3> QED
      BY <2>1, <3>1 DEF Delivery!vars
  <2> QED
    BY <2>2, <2>3
<1> QED
  BY <1>5, <1>7, <1>8 DEF Invs, DeliveryStep

\* All that may be done to the card keeps its invariant and delivers every file.
LEMMA CardDelivers ==
  ASSUME Invs, CardStep
  PROVE  Invs' /\ DeliveryStep
<1>1. CASE UNCHANGED cardVars
  BY <1>1 DEF cardVars, Invs, CardTyped, CursorSound, DoubtOK, DeliveryStep, Delivery!vars
<1> QED
  BY <1>1, ContentDelivers, CursorDelivers, AcceptDelivers DEF CardStep

-----------------------------------------------------------------------------
\* The types of everything that is not on the card.
RestTyped ==
  /\ faults \in SUBSET Faults /\ current \in CoreStates
  /\ log \in Logs /\ opened \in BOOLEAN /\ errors \in BOOLEAN
  /\ data \in [tell : Nat, first : {"none", "metadata", "reading"}]
  /\ TransmitTypeOK /\ ServiceTypeOK

\* The handle stays with its file, and a data file that begins with a reading did so
\* before, or an append may fail.
FirstKept ==
  /\ data' \in [tell : Nat, first : {"none", "metadata", "reading"}]
  /\ HandleOK'
  /\ data'.first = "reading" => data.first = "reading" \/ May("write")

\* What every action is shown to do.
StepOK == CardStep /\ FirstKept /\ RestTyped' /\ UploadOK' /\ UNCHANGED faults

\* The type invariant is the two halves the proofs use.
LEMMA Typing == TypeOK <=> CardTyped /\ RestTyped
BY DEF TypeOK, FilesTypeOK, CardTyped, RestTyped

\* An erase leaves sizes, and the other files as they are.
LEMMA KeptTyped ==
  ASSUME CardTyped, NEW W \in SUBSET Files
  PROVE  Kept(W) \in [Files -> Nat] /\ Grown(W, Kept(W)) /\ "Data" \in Files
BY DEF CardTyped, Kept, Grown, Files

\* A handle stays with its file where the file is left alone.
LEMMA HandleStays ==
  ASSUME RestTyped, HandleOK, UNCHANGED data, opened' => opened, size'["Data"] = size["Data"]
  PROVE  FirstKept
BY DEF RestTyped, HandleOK, FirstKept

\* A handle that is closed is at 0.
LEMMA HandleCloses ==
  ASSUME RestTyped, data' = [data EXCEPT !.tell = 0], opened' = FALSE
  PROVE  FirstKept
BY DEF RestTyped, HandleOK, FirstKept

\* Contents with the cursors of before is a step of the contents.
LEMMA ContentsAre ==
  ASSUME CardTyped, NEW W \in SUBSET Files, NEW s \in [Files -> Nat], Grown(W, s),
         Contents(W, s, cursors)
  PROVE  ContentStep
BY DEF CardTyped, ContentStep

\* Contents with all cursors at 0 is a step of the contents when all files go, or none.
LEMMA ContentsCleared ==
  ASSUME CardTyped, NEW W \in SUBSET Files, NEW s \in [Files -> Nat], Grown(W, s),
         W = Files \/ s = size, Contents(W, s, [f \in Files |-> 0])
  PROVE  ContentStep
<1>1. [f \in Files |-> 0] \in [Files -> Nat]
  OBVIOUS
<1> QED
  BY <1>1 DEF ContentStep

\* What a data file may be.
DataRecords == [size : Nat, first : {"none", "metadata", "reading"}, tell : Nat]

\* appendMetadataIfNecessary and append: the data file only grows, its handle with it, and
\* only a failed append of the metadata leaves a reading at its head.
LEMMA AppendGrows ==
  ASSUME NEW d \in DataRecords, NEW isOpen \in BOOLEAN, isOpen => d.tell = d.size,
         NEW e \in AppendRecord(d, isOpen)
  PROVE  /\ e \in DataRecords /\ e.size >= d.size
         /\ isOpen => e.tell = e.size
         /\ e.first = "reading" => d.first = "reading" \/ May("write")
<1> DEFINE Written(kind) == [size |-> d.size + 1,
                            first |-> IF d.size = 0 THEN kind ELSE d.first,
                            tell |-> d.tell + 1]
<1>1. CASE e = d
  BY <1>1 DEF DataRecords
<1>2. ASSUME NEW kind \in {"metadata", "reading"}, e = Written(kind), isOpen
      PROVE  /\ e \in DataRecords /\ e.size >= d.size
             /\ isOpen => e.tell = e.size
             /\ e.first = "reading" => d.first = "reading" \/ (d.size = 0 /\ kind = "reading")
  <2>1. /\ d.size \in Nat /\ d.tell \in Nat /\ d.tell = d.size
        /\ d.first \in {"none", "metadata", "reading"}
    BY <1>2 DEF DataRecords
  <2>2. (IF d.size = 0 THEN kind ELSE d.first) \in {"none", "metadata", "reading"}
    BY <2>1
  <2> QED
    BY <1>2, <2>1, <2>2 DEF DataRecords
<1>3. \/ e = d
      \/ isOpen /\ e = Written(IF d.tell = 0 THEN "metadata" ELSE "reading")
      \/ May("write") /\ isOpen /\ e = Written("reading")
  BY DEF AppendRecord
<1> HIDE DEF Written
<1>4. CASE isOpen /\ e = Written(IF d.tell = 0 THEN "metadata" ELSE "reading")
  <2>1. CASE d.tell = 0
    BY <1>2, <1>4, <2>1
  <2>2. CASE d.tell # 0
    BY <1>2, <1>4, <2>2
  <2> QED
    BY <2>1, <2>2
<1>5. CASE May("write") /\ isOpen /\ e = Written("reading")
  BY <1>2, <1>5
<1> QED
  BY <1>1, <1>3, <1>4, <1>5

\* The data file after an erase; its handle is where the file ends, or closed.
LEMMA DataAfterTyped ==
  ASSUME CardTyped, RestTyped, NEW W \in SUBSET Files, NEW isOpen \in BOOLEAN
  PROVE  /\ DataAfter(W, isOpen) \in DataRecords
         /\ DataAfter(W, isOpen).size = Kept(W)["Data"]
         /\ Kept(W)["Data"] = (IF "Data" \in W THEN 0 ELSE size["Data"])
         /\ isOpen => DataAfter(W, isOpen).tell = Kept(W)["Data"]
         /\ DataAfter(W, isOpen).first = "reading" => data.first = "reading"
<1>1. /\ Kept(W)["Data"] = (IF "Data" \in W THEN 0 ELSE size["Data"])
      /\ Kept(W)["Data"] \in Nat
  BY DEF CardTyped, Kept, Files
<1>2. data.first \in {"none", "metadata", "reading"}
  BY DEF RestTyped
<1> QED
  BY <1>1, <1>2 DEF DataAfter, DataRecords

\* The handle after an erase, the files open again or not.
LEMMA HeldAfter ==
  ASSUME CardTyped, RestTyped, NEW W \in SUBSET Files, NEW isOpen \in BOOLEAN,
         opened' = isOpen, size' = Kept(W), Holds(DataAfter(W, isOpen))
  PROVE  FirstKept
BY DataAfterTyped DEF Holds, FirstKept, HandleOK, DataRecords

\* CoreState::started writes to the data file and to nothing else.
LEMMA StartedIs ==
  ASSUME CardTyped, RestTyped, NEW W \in SUBSET Files, NEW c,
         StartedData(W, Kept(W), c, DataAfter(W, TRUE), TRUE),
         c = cursors \/ (c = [f \in Files |-> 0] /\ W = Files)
  PROVE  ContentStep /\ FirstKept
<1>1. PICK e \in AppendRecord(DataAfter(W, TRUE), TRUE) :
        Holds(e) /\ Contents(W, [Kept(W) EXCEPT !["Data"] = e.size], c)
  BY DEF StartedData
<1>2. /\ e \in DataRecords /\ e.size >= Kept(W)["Data"] /\ e.tell = e.size
      /\ e.first = "reading" => data.first = "reading" \/ May("write")
  BY <1>1, AppendGrows, DataAfterTyped
<1>3. FirstKept
  <2>1. size'["Data"] = e.size
    BY <1>1, KeptTyped DEF Contents
  <2> QED
    BY <1>1, <1>2, <2>1 DEF Holds, FirstKept, HandleOK, DataRecords
<1> DEFINE s == [Kept(W) EXCEPT !["Data"] = e.size]
<1>4. s \in [Files -> Nat]
  BY <1>2, KeptTyped DEF DataRecords
<1>5. Grown(W, s)
  <2>1. ASSUME NEW f \in Files \ W PROVE s[f] >= size[f]
    <3>1. CASE f = "Data"
      BY <1>2, <2>1, <3>1, KeptTyped, DataAfterTyped
    <3>2. CASE f # "Data"
      BY <2>1, <3>2, KeptTyped DEF Grown
    <3> QED
      BY <3>1, <3>2
  <2> QED
    BY <2>1 DEF Grown
<1> HIDE DEF s
<1>6. ContentStep
  BY <1>1, <1>4, <1>5, ContentsAre, ContentsCleared DEF s
<1> QED
  BY <1>3, <1>6

-----------------------------------------------------------------------------
\* What is done in another state than WifiTransmitFile leaves no upload behind.
LEMMA NotUploading ==
  ASSUME UploadOK, current # "WifiTransmitFile", UNCHANGED upload
  PROVE  UploadOK'
BY DEF UploadOK

\* swapLogsIfNecessary after an append, or as much of it as the power lasts: what is erased
\* is empty, and the data file is left alone.
LEMMA LogContents ==
  ASSUME CardTyped, RestTyped,
         LET grown == [size EXCEPT ![log] = @ + 1]
             other == Other(log)
         IN \/ Contents({}, grown, cursors)
            \/ Contents({other}, [grown EXCEPT ![other] = 0], cursors)
  PROVE  \E W \in SUBSET Files, s \in [Files -> Nat] :
           /\ Contents(W, s, cursors) /\ Grown(W, s)
           /\ \A f \in W : s[f] = 0
           /\ s["Data"] = size["Data"]
<1> DEFINE grown == [size EXCEPT ![log] = @ + 1]
           other == Other(log)
<1>1. /\ grown \in [Files -> Nat] /\ Grown({}, grown)
      /\ [grown EXCEPT ![other] = 0] \in [Files -> Nat]
      /\ Grown({other}, [grown EXCEPT ![other] = 0]) /\ other \in Files
      /\ [grown EXCEPT ![other] = 0][other] = 0
      /\ grown["Data"] = size["Data"] /\ [grown EXCEPT ![other] = 0]["Data"] = size["Data"]
  BY DEF CardTyped, RestTyped, Grown, Other, Logs, Files
<1>2. \/ Contents({}, grown, cursors)
      \/ Contents({other}, [grown EXCEPT ![other] = 0], cursors)
  OBVIOUS
<1> HIDE DEF grown, other
<1>3. CASE Contents({}, grown, cursors)
  BY <1>1, <1>3
<1>4. CASE Contents({other}, [grown EXCEPT ![other] = 0], cursors)
  <2>1. {other} \in SUBSET Files /\ \A f \in {other} : [grown EXCEPT ![other] = 0][f] = 0
    BY <1>1
  <2> QED
    BY <1>1, <1>4, <2>1
<1> QED
  BY <1>2, <1>3, <1>4

\* A reset ends the upload; it touches no file, or cuts a log message short.
LEMMA ResetsKeep ==
  ASSUME IInv, Resets
  PROVE  StepOK
<1>1. CardTyped /\ RestTyped /\ HandleOK
  BY Typing DEF IInv
<1>2. /\ UNCHANGED <<faults, log>> /\ data' = [data EXCEPT !.tell = 0]
      /\ current' = "StartSystem" /\ opened' = FALSE /\ errors' = FALSE
  BY DEF Resets, Restart, RebootOnErrors, LogCutShort, Reset, Lost
<1>3. CardStep
  <2>1. CASE Restart \/ RebootOnErrors
    BY <2>1 DEF Restart, RebootOnErrors, Reset, CardStep
  <2>2. CASE LogCutShort
    <3>1. PICK W \in SUBSET Files, s \in [Files -> Nat] : Contents(W, s, cursors) /\ Grown(W, s)
      BY <1>1, <2>2, LogContents DEF LogCutShort
    <3> QED
      BY <1>1, <3>1, ContentsAre DEF CardStep
  <2> QED
    BY <2>1, <2>2 DEF Resets
<1>4. UploadOK'
  BY DEF Resets, Ended, NoUpload, UploadOK
<1>5. TransmitTypeOK'
  <2>1. index' = 0 /\ upload' = NoUpload /\ copy' = NoCopy /\ link' = FALSE /\ status' = 0
    BY DEF Resets, Ended
  <2>2. 0 \in 0 .. MaximumTries - 1 /\ 0 \in 0 .. Transmissions /\ "Data" \in Files
    BY TriesAssumption DEF Transmissions, Files
  <2> QED
    BY <2>1, <2>2 DEF NoUpload, NoCopy, TransmitTypeOK
<1>6. ServiceTypeOK'
  BY DEF Resets, Ended, NoApp, NoDownload, IInv, TypeOK, ServiceTypeOK
<1>7. FirstKept
  BY <1>1, <1>2, HandleCloses
<1> QED
  BY <1>1, <1>2, <1>3, <1>4, <1>5, <1>6, <1>7 DEF RestTyped, StepOK, FirstKept, CoreStates

\* debug_write_log during an upload: a log that is swapped under a copy ends what the
\* upload knows of it.
LEMMA LoggingKeeps ==
  ASSUME IInv, Logging
  PROVE  StepOK
<1>1. /\ UNCHANGED <<faults, current, opened, data, index, upload, link, status, serviceVars>>
      /\ copy' = [copy EXCEPT !.whole = @ /\ size'[copy.file] >= size[copy.file]]
      /\ LogFails \/ LogGrows
  BY DEF Logging, WriteLog, CopyOutlives
<1>2. CardTyped /\ RestTyped
  BY Typing DEF IInv
<1>3. errors' \in BOOLEAN /\ log' \in Logs
  BY <1>1, <1>2 DEF LogFails, LogGrows, Other, Logs, RestTyped
<1>4. /\ copy' \in [file : Files, tell : Nat, end : Nat, done : BOOLEAN, busy : BOOLEAN,
                     whole : BOOLEAN]
      /\ copy'.file = copy.file /\ copy'.tell = copy.tell /\ copy'.end = copy.end
      /\ copy'.whole => copy.whole /\ size'[copy.file] >= size[copy.file]
  BY <1>1, <1>2 DEF RestTyped, TransmitTypeOK
<1>5. RestTyped'
  BY <1>1, <1>2, <1>3, <1>4 DEF RestTyped, TransmitTypeOK, ServiceTypeOK, serviceVars, connVars, queryVars
<1>6. UNCHANGED cardVars \/ \E W \in SUBSET Files, s \in [Files -> Nat] :
        /\ Contents(W, s, cursors) /\ Grown(W, s)
        /\ \A f \in W : s[f] = 0
        /\ s["Data"] = size["Data"]
  <2>1. CASE LogFails
    BY <2>1 DEF LogFails
  <2>2. CASE LogGrows
    BY <1>2, <2>2, LogContents DEF LogGrows
  <2> QED
    BY <1>1, <2>1, <2>2
<1>7. CardStep
  BY <1>2, <1>6, ContentsAre DEF CardStep
<1>8. UploadOK'
  <2>1. CASE UNCHANGED cardVars
    BY <1>1, <1>4, <2>1 DEF IInv, UploadOK, cardVars
  <2>2. CASE ~UNCHANGED cardVars
    <3>1. PICK W \in SUBSET Files, s \in [Files -> Nat] :
            Contents(W, s, cursors) /\ Grown(W, s) /\ \A f \in W : s[f] = 0
      BY <1>6, <2>2
    <3> SUFFICES ASSUME upload.connected, copy'.whole PROVE UploadOK'
      BY <1>1, <1>4 DEF IInv, UploadOK
    <3>2. /\ upload.file \in Files /\ size[upload.file] \in Nat /\ size'[upload.file] = s[upload.file]
          /\ upload.start \in Nat /\ copy.end \in Nat /\ copy.file = upload.file
          /\ copy.end <= size[upload.file] /\ upload.start < copy.end
      BY <1>2, <1>4, <3>1 DEF IInv, UploadOK, Contents, RestTyped, TransmitTypeOK, CardTyped
    <3>3. upload.file \notin W
      BY <1>4, <3>1, <3>2
    <3>4. received'[upload.file] = received[upload.file]
      BY <3>1, <3>2, <3>3 DEF Contents
    <3>5. upload.file \in doubtful => upload.file \in doubtful'
      BY <3>1, <3>2 DEF Contents, IInv, DoubtOK
    <3>6. size'[upload.file] >= copy.end
      BY <1>4, <3>1, <3>2
    <3> QED
      BY <1>1, <1>4, <3>2, <3>4, <3>5, <3>6 DEF IInv, UploadOK
  <2> QED
    BY <2>1, <2>2
<1>9. FirstKept
  <2>1. size'["Data"] = size["Data"]
    BY <1>6 DEF Contents, cardVars
  <2> QED
    BY <1>1, <1>2, <2>1, HandleStays DEF IInv
<1> QED
  BY <1>1, <1>5, <1>7, <1>8, <1>9 DEF StepOK

\* FileSystem::setup, also when it formats the card.
LEMMA StartingKeeps ==
  ASSUME IInv, Starting
  PROVE  StepOK
<1>1. CardTyped /\ RestTyped
  BY Typing DEF IInv
<1>2. /\ current = "StartSystem" /\ current' = "Resting"
      /\ UNCHANGED <<faults, errors, transmitVars, serviceVars>>
  BY DEF Starting, StartSystem
<1>3. ContentStep /\ FirstKept /\ opened' \in BOOLEAN /\ log' \in Logs
  <2>1. CASE \E W \in Truncated : /\ OpenSystemFiles(Kept(W), TRUE)
                                 /\ StartedData(W, Kept(W), cursors, DataAfter(W, TRUE), TRUE)
    <3>1. PICK W \in Truncated : /\ OpenSystemFiles(Kept(W), TRUE)
                                 /\ StartedData(W, Kept(W), cursors, DataAfter(W, TRUE), TRUE)
      BY <2>1
    <3>2. W \in SUBSET Files
      BY DEF Truncated
    <3> QED
      BY <1>1, <3>1, <3>2, StartedIs DEF OpenSystemFiles, Logs
  <2>2. CASE /\ OpenSystemFiles(Kept(Files), TRUE)
             /\ StartedData(Files, Kept(Files), [f \in Files |-> 0], DataAfter(Files, TRUE), TRUE)
    <3>1. Files \in SUBSET Files
      OBVIOUS
    <3> QED
      BY <1>1, <2>2, <3>1, StartedIs DEF OpenSystemFiles, Logs
  <2> QED
    BY <2>1, <2>2 DEF Starting, StartSystem
<1>4. UploadOK'
  BY <1>2, NotUploading DEF IInv, transmitVars
<1>5. RestTyped'
  BY <1>1, <1>2, <1>3 DEF RestTyped, FirstKept, CoreStates, TransmitTypeOK, ServiceTypeOK,
     transmitVars, serviceVars, connVars, queryVars
<1> QED
  BY <1>2, <1>3, <1>4, <1>5 DEF StepOK, CardStep

\* FactoryReset.
LEMMA ErasingKeeps ==
  ASSUME IInv, Erasing
  PROVE  StepOK
<1>1. CardTyped /\ RestTyped
  BY Typing DEF IInv
<1>2. /\ current = "StartSystem" /\ Holds(DataAfter(Files, FALSE))
      /\ Contents(Files, Kept(Files), [f \in Files |-> 0])
      /\ UNCHANGED <<faults, current, log, opened, errors, transmitVars, serviceVars>>
  BY DEF Erasing, FactoryReset
<1>3. ContentStep
  <2>1. Files \in SUBSET Files
    OBVIOUS
  <2> QED
    BY <1>1, <2>1, KeptTyped, ContentsCleared DEF Erasing, FactoryReset
<1>4. UploadOK'
  BY <1>2, NotUploading DEF IInv, transmitVars
<1>5. FirstKept
  <2>1. data' = [tell |-> 0, first |-> "none"] /\ size'["Data"] = 0
    BY <1>2 DEF Holds, DataAfter, Contents, Kept, Files
  <2> QED
    BY <2>1 DEF FirstKept, HandleOK
<1>6. RestTyped'
  BY <1>1, <1>2, <1>5 DEF FirstKept, RestTyped, TransmitTypeOK, ServiceTypeOK, transmitVars, serviceVars,
     connVars, queryVars
<1> QED
  BY <1>2, <1>3, <1>4, <1>5, <1>6 DEF StepOK, CardStep

\* A reading, a location or the end of a scan is recorded; the files are flushed.
LEMMA RecordingKeeps ==
  ASSUME IInv, Recording
  PROVE  StepOK
<1>1. CardTyped /\ RestTyped
  BY Typing DEF IInv
<1>2. /\ current = "Resting"
      /\ UNCHANGED <<faults, current, log, opened, transmitVars, serviceVars>>
  BY DEF Recording, RecordData, Flush
<1>3. CardStep /\ FirstKept /\ errors' \in BOOLEAN
  <2>1. CASE RecordData
    <3>1. PICK d \in AppendRecord(Data, opened) :
            Holds(d) /\ Contents({}, [size EXCEPT !["Data"] = d.size], cursors)
      BY <2>1 DEF RecordData
    <3>2. /\ Data \in DataRecords /\ Data.size = size["Data"] /\ Data.first = data.first
          /\ opened \in BOOLEAN
          /\ opened => Data.tell = Data.size
      BY <1>1 DEF CardTyped, RestTyped, Data, DataRecords, Files, IInv, HandleOK
    <3>3. /\ d \in DataRecords /\ d.size >= size["Data"]
          /\ opened => d.tell = d.size
          /\ d.first = "reading" => data.first = "reading" \/ May("write")
      BY <3>1, <3>2, AppendGrows
    <3>4. /\ [size EXCEPT !["Data"] = d.size] \in [Files -> Nat]
          /\ Grown({}, [size EXCEPT !["Data"] = d.size])
      BY <1>1, <3>3 DEF CardTyped, DataRecords, Grown, Files
    <3>5. ContentStep
      BY <1>1, <3>1, <3>4, ContentsAre
    <3>6. errors' \in BOOLEAN
      BY <1>1, <2>1 DEF RecordData, RestTyped
    <3>7. size'["Data"] = d.size
      BY <1>1, <3>1 DEF Contents, CardTyped, Files
    <3> QED
      BY <1>2, <3>1, <3>3, <3>5, <3>6, <3>7 DEF CardStep, Holds, FirstKept, HandleOK, DataRecords
  <2>2. CASE Flush
    BY <1>1, <2>2, HandleStays DEF Flush, CardStep, RestTyped, IInv, cardVars
  <2> QED
    BY <2>1, <2>2 DEF Recording
<1>4. UploadOK'
  BY <1>2, NotUploading DEF IInv, transmitVars
<1>5. RestTyped'
  BY <1>1, <1>2, <1>3 DEF RestTyped, FirstKept, TransmitTypeOK, ServiceTypeOK, transmitVars,
     serviceVars, connVars, queryVars
<1> QED
  BY <1>2, <1>3, <1>4, <1>5 DEF StepOK

-----------------------------------------------------------------------------
\* The type of the copy.
CopyTyped ==
  copy \in [file : Files, tell : Nat, end : Nat, done : BOOLEAN, busy : BOOLEAN, whole : BOOLEAN]

\* An upload that is left is not connected.
LEMMA LeaveKeeps ==
  ASSUME TransmitTypeOK, Leave, index' \in 0 .. Transmissions
  PROVE  TransmitTypeOK' /\ UploadOK' /\ current' \in CoreStates
<1>1. /\ current' = "WifiTransmitFiles"
      /\ upload' = NoUpload /\ copy' = NoCopy /\ link' = FALSE /\ status' = 0
  BY DEF Leave
<1>2. 0 \in 0 .. MaximumTries - 1 /\ "Data" \in Files
  BY TriesAssumption DEF Files
<1> QED
  BY <1>1, <1>2 DEF NoUpload, NoCopy, TransmitTypeOK, UploadOK, CoreStates

\* FileCopyOperation::copy moves at most one record on, and never beyond the end.
LEMMA CopyStepTyped ==
  ASSUME TransmitTypeOK, NEW up \in BOOLEAN, CopyRecord(up) \/ CopyEnds(up) \/ CopyBreaks(up)
  PROVE  /\ CopyTyped'
         /\ copy'.file = copy.file /\ copy'.end = copy.end /\ copy'.whole = copy.whole
         /\ copy'.tell = copy.tell \/ (copy'.tell = copy.tell + 1 /\ copy.tell # copy.end)
         /\ copy.tell <= copy.end => copy'.tell <= copy.end
<1> DEFINE Copy == [file : Files, tell : Nat, end : Nat, done : BOOLEAN, busy : BOOLEAN,
                    whole : BOOLEAN]
<1>4. copy \in Copy /\ copy.tell \in Nat /\ copy.end \in Nat
  BY DEF TransmitTypeOK
<1>5. ASSUME NEW t \in {copy.tell, copy.tell + 1}, NEW d \in BOOLEAN, NEW b \in BOOLEAN,
             t = copy.tell \/ copy.tell # copy.end,
             copy' = [file |-> copy.file, tell |-> t, end |-> copy.end, done |-> d, busy |-> b,
                      whole |-> copy.whole]
      PROVE  /\ CopyTyped'
             /\ copy'.file = copy.file /\ copy'.end = copy.end /\ copy'.whole = copy.whole
             /\ copy'.tell = copy.tell \/ (copy'.tell = copy.tell + 1 /\ copy.tell # copy.end)
             /\ copy.tell <= copy.end => copy'.tell <= copy.end
  BY <1>4, <1>5 DEF CopyTyped
<1>6. copy.done \in BOOLEAN /\ copy.busy \in BOOLEAN
  BY <1>4
<1>1. CASE CopyRecord(up)
  <2>1. CASE copy' = [copy EXCEPT !.tell = @ + 1]
    <3>1. copy' = [file |-> copy.file, tell |-> copy.tell + 1, end |-> copy.end,
                   done |-> copy.done, busy |-> copy.busy, whole |-> copy.whole]
      BY <1>4, <2>1
    <3>2. copy.tell # copy.end
      BY <1>1, <1>4 DEF CopyRecord
    <3> QED
      BY <1>5, <1>6, <3>1, <3>2
  <2>2. CASE copy' = [copy EXCEPT !.done = TRUE]
    <3>1. copy' = [file |-> copy.file, tell |-> copy.tell, end |-> copy.end,
                   done |-> TRUE, busy |-> copy.busy, whole |-> copy.whole]
      BY <1>4, <2>2
    <3> QED
      BY <1>5, <1>6, <3>1
  <2> QED
    BY <1>1, <2>1, <2>2 DEF CopyRecord
<1>2. CASE CopyEnds(up)
  <2>1. copy' = [file |-> copy.file, tell |-> copy.tell, end |-> copy.end,
                 done |-> copy.done, busy |-> FALSE, whole |-> copy.whole]
    BY <1>2, <1>4 DEF CopyEnds
  <2> QED
    BY <1>5, <1>6, <2>1
<1>3. CASE CopyBreaks(up)
  <2>1. PICK read \in (IF copy.done \/ copy.tell = copy.end THEN {0} ELSE {0, 1}) :
          copy' = [copy EXCEPT !.tell = @ + read, !.busy = FALSE]
    BY <1>3 DEF CopyBreaks
  <2>2. read = 0 \/ (read = 1 /\ copy.tell # copy.end)
    OBVIOUS
  <2>3. copy' = [file |-> copy.file, tell |-> copy.tell + read, end |-> copy.end,
                 done |-> copy.done, busy |-> FALSE, whole |-> copy.whole]
    BY <1>4, <2>1
  <2>4. copy.tell + read \in {copy.tell, copy.tell + 1}
        /\ (copy.tell + read = copy.tell \/ copy.tell # copy.end)
    BY <1>4, <2>2
  <2> QED
    BY <1>5, <1>6, <2>3, <2>4
<1> QED
  BY <1>1, <1>2, <1>3

\* beginFileCopy: the copy begins in the file and ends in it.
LEMMA BeganTyped ==
  ASSUME CardTyped, NEW f \in Files, NEW offset \in Nat, NEW length \in Nat,
         Began(f, offset, length)
  PROVE  /\ CopyTyped'
         /\ copy' = [file |-> f, tell |-> offset, end |-> End(f, offset, length),
                     done |-> FALSE, busy |-> TRUE, whole |-> TRUE]
         /\ offset <= End(f, offset, length) /\ End(f, offset, length) <= size[f]
         /\ length = 0 => End(f, offset, length) = size[f]
<1>1. offset <= size[f] /\ size[f] \in Nat
  BY DEF Began, CardTyped
<1>2. /\ End(f, offset, length) \in Nat
      /\ offset <= End(f, offset, length) /\ End(f, offset, length) <= size[f]
      /\ length = 0 => End(f, offset, length) = size[f]
  BY <1>1 DEF End
<1> QED
  BY <1>2 DEF Began, CopyTyped

\* TransmitFileTask::openFile: the upload begins where the cursor is, which is sound.
LEMMA OpenFileKeeps ==
  ASSUME IInv, OpenFile, UNCHANGED serviceVars
  PROVE  StepOK
<1>1. CardTyped /\ RestTyped
  BY Typing DEF IInv
<1>2. /\ UNCHANGED <<faults, log, opened, errors, data, index, cardVars>>
      /\ current = "WifiTransmitFile"
  BY DEF OpenFile, unchangedFiles, Uploading
<1>3. PICK position \in Lookup(upload.file) :
        \/ Leave
        \/ position < size[upload.file] /\ Began(upload.file, position, 0) /\ Connect(position)
  BY DEF OpenFile
<1>4. TransmitTypeOK' /\ UploadOK' /\ current' \in CoreStates
  <2>1. CASE Leave
    BY <1>1, <1>2, <2>1, LeaveKeeps DEF RestTyped, TransmitTypeOK
  <2>2. CASE position < size[upload.file] /\ Began(upload.file, position, 0) /\ Connect(position)
    <3>1. /\ upload.file \in Files
          /\ position = cursors[upload.file] \/ position = 0
          /\ position \in Nat
      BY <1>1, <1>3 DEF RestTyped, TransmitTypeOK, CardTyped, Lookup
    <3>2. /\ CopyTyped'
          /\ copy'.file = upload.file /\ copy'.tell = position
          /\ copy'.end = size[upload.file]
      BY <1>1, <2>2, <3>1, BeganTyped
    <3>3. /\ link' = TRUE /\ status' = 0 /\ current' = current
          /\ upload' = [upload EXCEPT !.connected = TRUE, !.start = position, !.accepted = FALSE]
      BY <2>2 DEF Connect
    <3>4. upload.file \in doubtful \/ 1 .. position \subseteq received[upload.file]
      BY <3>1 DEF IInv, CursorSound
    <3>5. /\ upload'.file = upload.file /\ upload'.start = position /\ ~upload'.accepted
          /\ TransmitTypeOK'
      <4>1. upload' \in [file : Files, tries : 0 .. MaximumTries - 1, connected : BOOLEAN,
                         start : Nat, accepted : BOOLEAN]
            /\ upload'.file = upload.file /\ upload'.start = position /\ ~upload'.accepted
        BY <1>1, <3>1, <3>3 DEF RestTyped, TransmitTypeOK
      <4> QED
        BY <1>1, <1>2, <3>2, <3>3, <4>1 DEF RestTyped, TransmitTypeOK, CopyTyped
    <3>6. size[upload.file] \in Nat /\ UNCHANGED <<size, received, doubtful>>
      BY <1>1, <1>2, <3>1 DEF CardTyped, cardVars
    <3>7. UploadOK'
      BY <1>2, <2>2, <3>1, <3>2, <3>3, <3>4, <3>5, <3>6 DEF UploadOK
    <3> QED
      BY <1>1, <3>3, <3>5, <3>7 DEF RestTyped
  <2> QED
    BY <1>3, <2>1, <2>2
<1>5. FirstKept
  BY <1>1, <1>2, HandleStays DEF IInv, cardVars
<1> QED
  BY <1>1, <1>2, <1>4, <1>5 DEF StepOK, CardStep, RestTyped, ServiceTypeOK, serviceVars,
     connVars, queryVars

\* The copy of an upload.
LEMMA CopyingKeeps ==
  ASSUME IInv, UploadRecord \/ UploadEnds \/ UploadBreaks, UNCHANGED serviceVars
  PROVE  StepOK
<1>1. CardTyped /\ RestTyped
  BY Typing DEF IInv
<1>2. /\ UNCHANGED <<faults, log, opened, errors, data, index, cardVars, current, upload, link,
                     status>>
      /\ CopyRecord(link) \/ CopyEnds(link) \/ CopyBreaks(link)
  BY DEF UploadRecord, UploadEnds, UploadBreaks, Upload, unchangedFiles
<1>3. TransmitTypeOK /\ link \in BOOLEAN
  BY <1>1 DEF RestTyped, TransmitTypeOK
<1>4. /\ CopyTyped'
      /\ copy'.file = copy.file /\ copy'.end = copy.end /\ copy'.whole = copy.whole
      /\ copy'.tell = copy.tell \/ (copy'.tell = copy.tell + 1 /\ copy.tell # copy.end)
      /\ copy.tell <= copy.end => copy'.tell <= copy.end
  BY <1>2, <1>3, CopyStepTyped
<1>5. RestTyped'
  BY <1>1, <1>2, <1>4 DEF RestTyped, TransmitTypeOK, CopyTyped, ServiceTypeOK, serviceVars,
     connVars, queryVars
<1>6. UploadOK'
  <2>1. copy.tell \in Nat /\ copy.end \in Nat /\ upload.start \in Nat
    BY <1>3 DEF TransmitTypeOK
  <2>2. UNCHANGED <<size, received, doubtful, upload, current>>
    BY <1>2 DEF cardVars
  <2> QED
    BY <1>4, <2>1, <2>2 DEF IInv, UploadOK
<1>7. FirstKept
  BY <1>1, <1>2, HandleStays DEF IInv, cardVars
<1> QED
  BY <1>1, <1>2, <1>5, <1>6, <1>7 DEF StepOK, CardStep

\* The cursor that an upload saves is as sound as the answer it had.
LEMMA ConcludeKeeps ==
  ASSUME IInv, Conclude, UNCHANGED serviceVars
  PROVE  StepOK
<1>1. CardTyped /\ RestTyped
  BY Typing DEF IInv
<1>2. /\ UNCHANGED <<faults, log, opened, errors, data, index>>
      /\ current = "WifiTransmitFile" /\ upload.connected
  BY DEF Conclude, unchangedFiles, Uploading
<1>3. TransmitTypeOK /\ index' \in 0 .. Transmissions
  BY <1>1, <1>2 DEF RestTyped, TransmitTypeOK
<1>4. CardStep /\ TransmitTypeOK' /\ UploadOK' /\ current' \in CoreStates
  <2>1. CASE SaveCursor(upload.file, copy.tell, copy.whole /\ upload.accepted) /\ Leave
    <3>1. upload.file \in Files /\ copy.tell \in Nat /\ upload.start \in Nat
          /\ (copy.whole /\ upload.accepted) \in BOOLEAN
      BY <1>3 DEF TransmitTypeOK
    <3>2. (copy.whole /\ upload.accepted) /\ upload.file \notin doubtful
            => 1 .. copy.tell \subseteq received[upload.file]
      BY <1>2, <3>1 DEF IInv, UploadOK
    <3>3. CursorStep
      BY <2>1, <3>1, <3>2 DEF CursorStep
    <3> QED
      BY <1>3, <2>1, <3>3, LeaveKeeps DEF CardStep
  <2>2. CASE Leave /\ UNCHANGED cardVars
    BY <1>3, <2>2, LeaveKeeps DEF CardStep
  <2>3. CASE /\ ~(upload.tries + 1 >= MaximumTries) /\ UNCHANGED <<cardVars, current>>
             /\ upload' = [NoUpload EXCEPT !.file = upload.file, !.tries = upload.tries + 1]
             /\ copy' = NoCopy /\ link' = FALSE /\ status' = 0
    <3>1. upload.tries + 1 \in 0 .. MaximumTries - 1 /\ upload.file \in Files /\ "Data" \in Files
      BY <1>3, <2>3, TriesAssumption DEF TransmitTypeOK, Files
    <3>2. upload' = [file |-> upload.file, tries |-> upload.tries + 1, connected |-> FALSE,
                     start |-> 0, accepted |-> FALSE]
      BY <2>3 DEF NoUpload
    <3>3. TransmitTypeOK'
      <4>1. copy' \in [file : Files, tell : Nat, end : Nat, done : BOOLEAN, busy : BOOLEAN,
                       whole : BOOLEAN]
        BY <2>3, <3>1 DEF NoCopy
      <4>2. upload' \in [file : Files, tries : 0 .. MaximumTries - 1, connected : BOOLEAN,
                         start : Nat, accepted : BOOLEAN]
        BY <3>1, <3>2
      <4> QED
        BY <1>3, <2>3, <4>1, <4>2 DEF TransmitTypeOK
    <3>4. UploadOK'
      BY <3>2 DEF UploadOK
    <3> QED
      BY <1>1, <2>3, <3>3, <3>4 DEF CardStep, RestTyped
  <2> QED
    BY <2>1, <2>2, <2>3 DEF Conclude
<1>5. FirstKept
  <2>1. UNCHANGED size
    BY DEF Conclude, SaveCursor, cardVars
  <2> QED
    BY <1>1, <1>2, <2>1, HandleStays DEF IInv
<1> QED
  BY <1>1, <1>2, <1>4, <1>5 DEF StepOK, RestTyped, ServiceTypeOK, serviceVars,
     connVars, queryVars

\* The server accepts what the copy has sent, which adjoins what it had accepted.
LEMMA AcceptsKeeps ==
  ASSUME IInv, ServerAccepts, UNCHANGED serviceVars
  PROVE  StepOK
<1>1. CardTyped /\ RestTyped
  BY Typing DEF IInv
<1>2. /\ UNCHANGED <<faults, log, opened, errors, data, index, current, size, cursors, doubtful,
                     copy>>
      /\ current = "WifiTransmitFile" /\ upload.connected /\ copy.tell = copy.end
      /\ upload' = [upload EXCEPT !.accepted = TRUE]
      /\ received' = IF copy.whole
                     THEN [received EXCEPT ![upload.file] = @ \union ((upload.start + 1) .. copy.tell)]
                     ELSE received
      /\ link' \in BOOLEAN /\ status' \in {0, 200, 500}
  BY <1>1 DEF ServerAccepts, unchangedFiles, Uploading, RestTyped, TransmitTypeOK
<1>3. TransmitTypeOK'
  <2>1. TransmitTypeOK
    BY <1>1 DEF RestTyped
  <2>2. /\ UNCHANGED <<index, copy>> /\ upload' = [upload EXCEPT !.accepted = TRUE]
        /\ link' \in BOOLEAN /\ status' \in {0, 200, 500}
    BY <1>2
  <2> QED
    BY <2>1, <2>2 DEF TransmitTypeOK
<1>4. /\ upload.file \in Files /\ upload.start \in Nat /\ copy.end \in Nat
      /\ upload'.file = upload.file /\ upload'.start = upload.start /\ upload'.connected
  BY <1>1, <1>2 DEF RestTyped, TransmitTypeOK
<1>7. FirstKept
  BY <1>1, <1>2, HandleStays DEF IInv
<1>5. CASE copy.whole
  <2>1. /\ upload.start < copy.end /\ copy.end <= size[upload.file]
        /\ upload.file \in doubtful \/ 1 .. upload.start \subseteq received[upload.file]
        /\ copy.file = upload.file
    BY <1>2, <1>5 DEF IInv, UploadOK
  <2>2. upload.start + 1 \in 1 .. size[upload.file] /\ copy.tell \in 1 .. size[upload.file]
    <3>1. size[upload.file] \in Nat
      BY <1>1, <1>4 DEF CardTyped
    <3>2. copy.tell = copy.end
      BY <1>2
    <3> QED
      BY <1>4, <2>1, <3>1, <3>2
  <2>3. AcceptStep
    <3>1. received' = [received EXCEPT ![upload.file] =
                         @ \union ((upload.start + 1) .. copy.tell)]
      BY <1>2, <1>5
    <3>2. UNCHANGED <<size, cursors, doubtful>>
      BY <1>2
    <3> QED
      BY <1>4, <2>2, <3>1, <3>2 DEF AcceptStep
  <2>4. received'[upload.file] = received[upload.file] \union ((upload.start + 1) .. copy.tell)
    BY <1>1, <1>2, <1>4, <1>5 DEF CardTyped
  <2>5. UploadOK'
    BY <1>2, <1>4, <2>1, <2>4 DEF UploadOK
  <2> QED
    BY <1>1, <1>2, <1>3, <1>7, <2>3, <2>5 DEF StepOK, CardStep, RestTyped, ServiceTypeOK,
       serviceVars, connVars, queryVars
<1>6. CASE ~copy.whole
  <2>1. UNCHANGED cardVars
    BY <1>2, <1>6 DEF cardVars
  <2>2. UploadOK'
    BY <1>2, <1>4, <1>6 DEF IInv, UploadOK
  <2> QED
    BY <1>1, <1>2, <1>3, <1>7, <2>1, <2>2 DEF StepOK, CardStep, RestTyped, ServiceTypeOK,
       serviceVars, connVars, queryVars
<1> QED
  BY <1>5, <1>6

\* Every step of WifiTransmitFiles and TransmitFileTask.
LEMMA TransmittingKeeps ==
  ASSUME IInv, Transmitting
  PROVE  StepOK
<1>1. CardTyped /\ RestTyped /\ UNCHANGED serviceVars /\ ServiceTypeOK'
  BY Typing DEF IInv, Transmitting, RestTyped, ServiceTypeOK, serviceVars, connVars, queryVars
<1>2. CASE StartUploads
  <2>1. current = "Resting" /\ current' = "WifiTransmitFiles"
        /\ UNCHANGED <<faults, cardVars, log, opened, errors, data, transmitVars>>
    BY <1>2 DEF StartUploads
  <2>2. UploadOK'
    BY <2>1, NotUploading DEF IInv, transmitVars
  <2>9. FirstKept
    BY <1>1, <2>1, HandleStays DEF IInv, cardVars
  <2> QED
    BY <1>1, <2>1, <2>2, <2>9 DEF StepOK, CardStep, RestTyped, TransmitTypeOK, transmitVars,
       CoreStates
<1>3. CASE NextUpload
  <2>1. /\ current = "WifiTransmitFiles"
        /\ UNCHANGED <<faults, cardVars, log, opened, errors, data, copy, link, status>>
    BY <1>3 DEF NextUpload
  <2>2. index \in 0 .. 2 /\ Transmissions = 2 /\ 0 \in 0 .. MaximumTries - 1
        /\ "Data" \in Files /\ log \in Files
    BY <1>1, TriesAssumption DEF RestTyped, TransmitTypeOK, Transmissions, Files
  <2>3. /\ current' \in CoreStates /\ index' \in 0 .. 2
        /\ \/ UNCHANGED upload
           \/ \E f \in {"Data", log} : upload' = [NoUpload EXCEPT !.file = f]
    BY <1>3, <2>2 DEF NextUpload, CoreStates
  <2>4. UploadOK' /\ TransmitTypeOK'
    <3>1. CASE UNCHANGED upload
      BY <1>1, <2>1, <2>2, <2>3, <3>1, NotUploading DEF IInv, RestTyped, TransmitTypeOK
    <3>2. ASSUME NEW f \in {"Data", log}, upload' = [NoUpload EXCEPT !.file = f]
          PROVE  UploadOK' /\ TransmitTypeOK'
      <4>1. /\ upload' = [file |-> f, tries |-> 0, connected |-> FALSE, start |-> 0,
                          accepted |-> FALSE]
            /\ f \in Files
        BY <2>2, <3>2 DEF NoUpload
      <4> QED
        BY <1>1, <2>1, <2>2, <2>3, <4>1 DEF UploadOK, RestTyped, TransmitTypeOK
    <3> QED
      BY <2>3, <3>1, <3>2
  <2>9. FirstKept
    BY <1>1, <2>1, HandleStays DEF IInv, cardVars
  <2> QED
    BY <1>1, <2>1, <2>3, <2>4, <2>9 DEF StepOK, CardStep, RestTyped
<1>4. CASE GiveUp \/ ServerAnswers \/ LinkDrops
  <2>1. /\ UNCHANGED <<faults, log, opened, errors, data, index, cardVars, current, upload, copy>>
        /\ link' \in BOOLEAN /\ status' \in {0, 200, 500}
    BY <1>1, <1>4 DEF GiveUp, ServerAnswers, LinkDrops, unchangedFiles, RestTyped, TransmitTypeOK
  <2>2. UploadOK'
    BY <2>1 DEF IInv, UploadOK, cardVars
  <2>9. FirstKept
    BY <1>1, <2>1, HandleStays DEF IInv, cardVars
  <2> QED
    BY <1>1, <2>1, <2>2, <2>9 DEF StepOK, CardStep, RestTyped, TransmitTypeOK
<1> QED
  BY <1>1, <1>2, <1>3, <1>4, OpenFileKeeps, CopyingKeeps, ConcludeKeeps, AcceptsKeeps
  DEF Transmitting, TransmitNext

-----------------------------------------------------------------------------
\* Nothing of the upload changes.
LEMMA StillUploading ==
  ASSUME UploadOK, UNCHANGED <<fileVars, transmitVars>>
  PROVE  UploadOK'
BY DEF UploadOK, fileVars, cardVars, transmitVars

\* The types hold when an action changes the connection and the descriptors only.
LEMMA RestStays ==
  ASSUME RestTyped, UNCHANGED <<faults, errors, transmitVars>>, current' \in CoreStates,
         log' \in Logs, opened' \in BOOLEAN, FirstKept, ServiceTypeOK'
  PROVE  RestTyped'
BY DEF RestTyped, FirstKept, TransmitTypeOK, transmitVars

\* openSystemFiles leaves a log descriptor.
LEMMA OpenTyped ==
  ASSUME RestTyped, NEW s, NEW ok \in BOOLEAN, OpenSystemFiles(s, ok)
  PROVE  opened' \in BOOLEAN /\ log' \in Logs
BY DEF RestTyped, OpenSystemFiles, Logs

\* flushAndClose leaves a connection.
LEMMA FlushTyped ==
  ASSUME ServiceTypeOK, NEW c \in [open : BOOLEAN, buffer : {"empty", "reply"}, replied : BOOLEAN],
         FlushAndClose(c)
  PROVE  /\ app' \in [open : BOOLEAN, buffer : {"empty", "reply"}, replied : BOOLEAN]
         /\ twice' \in BOOLEAN
BY DEF ServiceTypeOK, FlushAndClose, NoApp

\* A reply leaves a connection.
LEMMA ReplyTyped ==
  ASSUME ServiceTypeOK, Reply
  PROVE  /\ app' \in [open : BOOLEAN, buffer : {"empty", "reply"}, replied : BOOLEAN]
         /\ twice' \in BOOLEAN
<1>1. [app EXCEPT !.buffer = "reply"]
        \in [open : BOOLEAN, buffer : {"empty", "reply"}, replied : BOOLEAN]
  BY DEF ServiceTypeOK
<1> QED
  BY <1>1, FlushTyped DEF Reply

\* The connection comes, goes and is answered; the files stay.
LEMMA ConnectionKeeps ==
  ASSUME IInv, Accept \/ AppLeaves \/ CloseUnanswered \/ Inform \/ QueryModule \/ QueryModuleEnds
  PROVE  StepOK
<1>1. CardTyped /\ RestTyped /\ ServiceTypeOK
  BY Typing DEF IInv, RestTyped
<1>2. /\ UNCHANGED <<faults, cardVars, log, opened, errors, data, transmitVars, queryVars>>
      /\ app' \in [open : BOOLEAN, buffer : {"empty", "reply"}, replied : BOOLEAN]
      /\ twice' \in BOOLEAN
      /\ \/ UNCHANGED fileVars
         \/ current # "WifiTransmitFile" /\ current' \in CoreStates
  <2>1. CASE Accept
    BY <1>1, <2>1 DEF Accept, NoApp, ServiceTypeOK, CoreStates
  <2>2. CASE AppLeaves
    BY <1>1, <2>2 DEF AppLeaves, ServiceTypeOK, fileVars
  <2>3. CASE CloseUnanswered
    BY <1>1, <2>3 DEF CloseUnanswered, Listening, Completed, ServiceTypeOK, CoreStates
  <2>4. CASE Inform
    BY <1>1, <2>4, ReplyTyped DEF Inform, Listening, Completed, CoreStates
  <2>5. CASE QueryModule
    BY <1>1, <2>5 DEF QueryModule, Listening, unchangedByDownload, connVars, queryVars,
       transmitVars, ServiceTypeOK, CoreStates
  <2>6. CASE QueryModuleEnds
    <3>1. PICK replied \in BOOLEAN :
            FlushAndClose([app EXCEPT !.buffer = IF replied THEN "reply" ELSE @])
      BY <2>6 DEF QueryModuleEnds
    <3>2. [app EXCEPT !.buffer = IF replied THEN "reply" ELSE @]
            \in [open : BOOLEAN, buffer : {"empty", "reply"}, replied : BOOLEAN]
      BY <1>1 DEF ServiceTypeOK
    <3> QED
      BY <1>1, <2>6, <3>1, <3>2, FlushTyped DEF QueryModuleEnds, Completed, unchangedByDownload,
         queryVars, transmitVars, CoreStates
  <2> QED
    BY <2>1, <2>2, <2>3, <2>4, <2>5, <2>6
<1>3. UploadOK'
  BY <1>2, NotUploading, StillUploading DEF IInv, transmitVars
<1>4. FirstKept
  BY <1>1, <1>2, HandleStays DEF IInv, cardVars
<1> QED
  BY <1>1, <1>2, <1>3, <1>4 DEF StepOK, CardStep, RestTyped, TransmitTypeOK, ServiceTypeOK,
     transmitVars, queryVars, fileVars

\* eraseFileReply erases the file and leaves its cursor.
LEMMA EraseFileKeeps ==
  ASSUME IInv, NEW f \in Files, EraseFile(f)
  PROVE  StepOK
<1>1. CardTyped /\ RestTyped
  BY Typing DEF IInv
<1>2. /\ UNCHANGED <<faults, current, errors, transmitVars, connVars, todo, success, download>>
      /\ current = "AppServicer" /\ erasing' = f
  BY DEF EraseFile, Listening
<1>3. PICK erased \in Outcome("erase"), T \in Truncated, ok \in Outcome("open") :
        LET W == T \union (IF erased THEN {f} ELSE {})
        IN /\ Contents(W, Kept(W), cursors)
           /\ Holds(DataAfter(W, ok))
           /\ OpenSystemFiles(Kept(W), ok)
  BY DEF EraseFile, Erase
<1> DEFINE W == T \union (IF erased THEN {f} ELSE {})
<1>4. W \in SUBSET Files /\ ok \in BOOLEAN
  BY <1>3 DEF Truncated, Outcome
<1>5. Contents(W, Kept(W), cursors) /\ Holds(DataAfter(W, ok)) /\ OpenSystemFiles(Kept(W), ok)
  BY <1>3
<1> HIDE DEF W
<1>6. CardStep
  BY <1>1, <1>4, <1>5, KeptTyped, ContentsAre DEF CardStep
<1>7. FirstKept
  BY <1>1, <1>4, <1>5, HeldAfter DEF Contents, OpenSystemFiles
<1>8. opened' \in BOOLEAN /\ log' \in Logs
  BY <1>1, <1>4, <1>5, OpenTyped
<1>9. UploadOK'
  BY <1>2, NotUploading DEF IInv, transmitVars
<1> QED
  BY <1>1, <1>2, <1>6, <1>7, <1>8, <1>9 DEF StepOK, FirstKept, RestTyped, TransmitTypeOK,
     ServiceTypeOK, transmitVars, connVars

\* eraseFileReply then resets the cursor, to where nothing is claimed.
LEMMA ResetCursorKeeps ==
  ASSUME IInv, ResetCursor
  PROVE  StepOK
<1>1. CardTyped /\ RestTyped /\ ServiceTypeOK
  BY Typing DEF IInv, RestTyped
<1>2. /\ UNCHANGED <<faults, log, opened, errors, data, transmitVars, todo, success, download>>
      /\ current = "AppServicer" /\ current' = "Resting"
      /\ erasing \in Files /\ erasing' = "none"
      /\ SaveCursor(erasing, 0, TRUE) /\ Reply
  BY <1>1 DEF ResetCursor, Completed, ServiceTypeOK
<1>3. CursorStep
  <2>1. 1 .. 0 \subseteq received[erasing]
    OBVIOUS
  <2> QED
    BY <1>2, <2>1 DEF CursorStep
<1>4. UploadOK'
  BY <1>2, NotUploading DEF IInv, transmitVars
<1>5. FirstKept
  BY <1>1, <1>2, HandleStays DEF IInv, SaveCursor
<1> QED
  BY <1>1, <1>2, <1>3, <1>4, <1>5, ReplyTyped DEF StepOK, CardStep, RestTyped, TransmitTypeOK,
     ServiceTypeOK, transmitVars, CoreStates

\* eraseAll closes the files.
LEMMA EraseEverythingKeeps ==
  ASSUME IInv, EraseEverything
  PROVE  StepOK
<1>1. CardTyped /\ RestTyped
  BY Typing DEF IInv
<1>2. /\ UNCHANGED <<faults, current, cardVars, log, errors, transmitVars,
                     connVars, erasing, download>>
      /\ current = "AppServicer" /\ opened' = FALSE /\ data' = [data EXCEPT !.tell = 0]
      /\ todo' = EraseAll /\ success' = TRUE
  BY DEF EraseEverything, Listening
<1>3. EraseAll \in Seq(Steps)
  BY DEF EraseAll, Steps, Files, Logs
<1>4. UploadOK'
  BY <1>2, NotUploading DEF IInv, transmitVars
<1>5. ServiceTypeOK'
  BY <1>1, <1>2, <1>3 DEF RestTyped, ServiceTypeOK, connVars
<1>6. FirstKept /\ log' \in Logs /\ opened' \in BOOLEAN /\ current' \in CoreStates
  BY <1>1, <1>2, HandleCloses DEF RestTyped
<1> QED
  BY <1>1, <1>2, <1>4, <1>5, <1>6, RestStays DEF StepOK, CardStep

\* A turn of eraseAll: one file, or all cursors.
LEMMA EraseNextKeeps ==
  ASSUME IInv, EraseNext
  PROVE  StepOK
<1>1. CardTyped /\ RestTyped /\ ServiceTypeOK
  BY Typing DEF IInv, RestTyped
<1>2. /\ UNCHANGED <<faults, errors, transmitVars, erasing, download, current, connVars>>
      /\ current = "AppServicer" /\ todo # <<>> /\ todo' = Tail(todo) /\ Head(todo) # "open"
  BY DEF EraseNext, NextStep
<1>3. Head(todo) \in Files \union {"System"} /\ todo' \in Seq(Steps)
  BY <1>1, <1>2 DEF ServiceTypeOK, Steps
<1>4. PICK erased \in BOOLEAN : EraseClosed(Head(todo), erased) /\ success' = (success /\ erased)
  BY DEF EraseNext, Outcome
<1>5. opened' = FALSE /\ UNCHANGED log
  BY <1>4 DEF EraseClosed
<1>6. CardStep /\ FirstKept
  <2>1. CASE ~erased
    BY <1>1, <1>4, <1>5, <2>1, HandleStays DEF EraseClosed, CardStep, IInv, cardVars
  <2>2. CASE erased /\ Head(todo) = "System"
    <3>1. Contents({}, size, [g \in Files |-> 0]) /\ UNCHANGED data
      BY <1>4, <2>2 DEF EraseClosed
    <3>2. size \in [Files -> Nat] /\ Grown({}, size)
      BY <1>1 DEF CardTyped, Grown
    <3>3. ContentStep
      BY <1>1, <3>1, <3>2, ContentsCleared
    <3> QED
      BY <1>1, <1>5, <3>1, <3>3, HandleStays DEF CardStep, IInv, Contents
  <2>3. CASE erased /\ Head(todo) # "System"
    <3> DEFINE f == Head(todo)
    <3>1. Contents({f}, Kept({f}), cursors) /\ Holds(DataAfter({f}, FALSE))
      BY <1>4, <2>3 DEF EraseClosed
    <3>2. {f} \in SUBSET Files
      BY <1>3, <2>3
    <3> HIDE DEF f
    <3>3. ContentStep
      BY <1>1, <3>1, <3>2, KeptTyped, ContentsAre
    <3> QED
      BY <1>1, <1>5, <3>1, <3>2, <3>3, HeldAfter DEF CardStep, Contents
  <2> QED
    BY <2>1, <2>2, <2>3
<1>7. UploadOK'
  BY <1>2, NotUploading DEF IInv, transmitVars
<1>8. ServiceTypeOK'
  BY <1>1, <1>2, <1>3, <1>4 DEF ServiceTypeOK, connVars
<1>9. log' \in Logs /\ opened' \in BOOLEAN /\ current' \in CoreStates
  BY <1>1, <1>2, <1>5 DEF RestTyped
<1> QED
  BY <1>1, <1>2, <1>6, <1>7, <1>8, <1>9, RestStays DEF StepOK

\* eraseAll opens the files, and the core starts its data file.
LEMMA OpenErasedKeeps ==
  ASSUME IInv, OpenErased
  PROVE  StepOK
<1>1. CardTyped /\ RestTyped /\ ServiceTypeOK
  BY Typing DEF IInv, RestTyped
<1>2. /\ UNCHANGED <<faults, errors, transmitVars, erasing, download>>
      /\ current = "AppServicer" /\ todo # <<>> /\ todo' = Tail(todo)
      /\ success' = TRUE /\ current' = "Resting" /\ Reply
  BY DEF OpenErased, NextStep, Completed
<1>3. PICK W \in Truncated, ok \in Outcome("open") :
        /\ OpenSystemFiles(Kept(W), ok)
        /\ IF ok /\ success
           THEN StartedData(W, Kept(W), cursors, DataAfter(W, TRUE), TRUE)
           ELSE Contents(W, Kept(W), cursors) /\ Holds(DataAfter(W, ok))
  BY DEF OpenErased
<1>4. W \in SUBSET Files /\ ok \in BOOLEAN
  BY <1>3 DEF Truncated, Outcome
<1>5. ContentStep /\ FirstKept
  <2>1. CASE ok /\ success
    BY <1>1, <1>3, <1>4, <2>1, StartedIs
  <2>2. CASE ~(ok /\ success)
    <3>1. Contents(W, Kept(W), cursors) /\ Holds(DataAfter(W, ok))
      BY <1>3, <2>2
    <3>2. ContentStep
      BY <1>1, <1>4, <3>1, KeptTyped, ContentsAre
    <3> QED
      BY <1>1, <1>3, <1>4, <3>1, <3>2, HeldAfter DEF Contents, OpenSystemFiles
  <2> QED
    BY <2>1, <2>2
<1>6. opened' \in BOOLEAN /\ log' \in Logs
  BY <1>1, <1>3, <1>4, OpenTyped
<1>7. UploadOK'
  BY <1>2, NotUploading DEF IInv, transmitVars
<1>8. ServiceTypeOK'
  <2>1. todo' \in Seq(Steps)
    BY <1>1, <1>2 DEF ServiceTypeOK
  <2> QED
    BY <1>1, <1>2, <2>1, ReplyTyped DEF ServiceTypeOK
<1> QED
  BY <1>1, <1>2, <1>5, <1>6, <1>7, <1>8 DEF StepOK, CardStep, FirstKept, RestTyped, TransmitTypeOK,
     transmitVars, CoreStates

\* A copy that could not begin.
LEMMA NotBegunTyped ==
  ASSUME CardTyped, NEW f \in Files, NEW offset \in Nat, NEW length \in Nat,
         NotBegun(f, offset, length)
  PROVE  CopyTyped' /\ copy'.tell = 0 /\ copy'.end \in Nat /\ copy'.done
<1>1. offset + length \in Nat /\ "Data" \in Files
  BY DEF Files
<1>2. ASSUME NEW busy \in BOOLEAN, NEW last \in {0} \union {size[g] : g \in Files},
             copy' = [NoCopy EXCEPT !.end = last, !.busy = busy]
      PROVE  CopyTyped' /\ copy'.tell = 0 /\ copy'.end \in Nat /\ copy'.done
  <2>1. copy' = [file |-> "Data", tell |-> 0, end |-> last, done |-> TRUE, busy |-> busy,
                 whole |-> TRUE]
    BY <1>2 DEF NoCopy
  <2>2. last \in Nat
    BY <1>2 DEF CardTyped
  <2> QED
    BY <1>1, <2>1, <2>2 DEF CopyTyped
<1>3. ASSUME NEW busy \in BOOLEAN,
             copy' = [file |-> f, tell |-> 0, end |-> offset + length,
                      done |-> TRUE, busy |-> busy, whole |-> TRUE]
      PROVE  CopyTyped' /\ copy'.tell = 0 /\ copy'.end \in Nat /\ copy'.done
  BY <1>1, <1>3 DEF CopyTyped
<1> QED
  BY <1>2, <1>3 DEF NotBegun

\* What a download may be.
Downloads ==
  [only : BOOLEAN, metadata : {"none", "due", "sent", "cut"}, file : {"begun", "absent"},
   owed : Int]

\* DownloadFileTask::enqueued.
LEMMA DownloadKeeps ==
  ASSUME IInv, NEW f \in Files, NEW o \in Offsets, NEW l \in Lengths, Download(f, o, l)
  PROVE  StepOK
<1>1. CardTyped /\ RestTyped /\ ServiceTypeOK /\ TransmitTypeOK
  BY Typing DEF IInv, RestTyped
<1>2. /\ UNCHANGED <<faults, cardVars, log, opened, errors, data, index, upload, link, status,
                     erasing, todo, success, twice>>
      /\ current = "AppServicer" /\ current' = "WifiDownloadFile"
      /\ app' = [app EXCEPT !.replied = TRUE]
  BY DEF Download, Listening, unchangedByDownload
<1>3. PICK only \in BOOLEAN, metadata \in {"none", "due"}, file \in {"begun", "absent"} :
        /\ IF file = "begun" THEN Began(f, o, l) ELSE NotBegun(f, o, l)
        /\ download' = [only |-> only, metadata |-> metadata, file |-> file,
                        owed |-> Remaining(copy', only) + (IF metadata = "due" THEN 1 ELSE 0)]
  BY DEF Download
<1>4. o \in Nat /\ l \in Nat
  BY DownloadAssumption
<1>5. CopyTyped'
  BY <1>1, <1>3, <1>4, BeganTyped, NotBegunTyped
<1>6. Remaining(copy', only) + (IF metadata = "due" THEN 1 ELSE 0) \in Int
  BY <1>5 DEF CopyTyped, Remaining
<1>7. ServiceTypeOK'
  <2>1. app' \in [open : BOOLEAN, buffer : {"empty", "reply"}, replied : BOOLEAN]
    BY <1>1, <1>2 DEF ServiceTypeOK
  <2>2. download' \in Downloads
    BY <1>3, <1>6 DEF Downloads
  <2> QED
    BY <1>1, <1>2, <2>1, <2>2 DEF ServiceTypeOK, Downloads
<1>8. TransmitTypeOK'
  BY <1>1, <1>2, <1>5 DEF TransmitTypeOK, CopyTyped
<1>9. UploadOK'
  BY <1>2, NotUploading DEF IInv
<1>10. FirstKept
  BY <1>1, <1>2, HandleStays DEF IInv, cardVars
<1> QED
  BY <1>1, <1>2, <1>7, <1>8, <1>9, <1>10 DEF StepOK, CardStep, RestTyped, CoreStates

\* The download goes on, ends or fails, and changes no file.
LEMMA DownloadingKeeps ==
  ASSUME IInv,
         \/ DownloadFails \/ WriteMetadata \/ DownloadDone
         \/ DownloadRecord \/ DownloadEnds \/ DownloadBreaks
  PROVE  StepOK
<1>1. CardTyped /\ RestTyped /\ ServiceTypeOK /\ TransmitTypeOK
  BY Typing DEF IInv, RestTyped
<1>2. /\ UNCHANGED <<faults, cardVars, log, opened, errors, data, index, upload, link, status,
                     erasing, todo, success>>
      /\ current # "WifiTransmitFile" /\ current' \in CoreStates
  BY <1>1 DEF DownloadFails, WriteMetadata, DownloadRecord, DownloadEnds, DownloadBreaks,
     DownloadCopies, DownloadDone, DownloadOver, Downloading, Listening, Completed,
     unchangedByDownload, RestTyped, CoreStates
<1>3. /\ CopyTyped'
      /\ app' \in [open : BOOLEAN, buffer : {"empty", "reply"}, replied : BOOLEAN]
      /\ twice' \in BOOLEAN
      /\ download' \in Downloads
  <2>1. CASE DownloadFails
    <3>1. [app EXCEPT !.buffer = "reply", !.replied = app.open]
            \in [open : BOOLEAN, buffer : {"empty", "reply"}, replied : BOOLEAN]
      BY <1>1 DEF ServiceTypeOK
    <3>2. /\ UNCHANGED <<copy, download>>
          /\ FlushAndClose([app EXCEPT !.buffer = "reply", !.replied = app.open])
      BY <2>1 DEF DownloadFails
    <3>3. CopyTyped' /\ download' \in Downloads
      BY <1>1, <3>2 DEF TransmitTypeOK, CopyTyped, ServiceTypeOK, Downloads
    <3> QED
      BY <1>1, <3>1, <3>2, <3>3, FlushTyped
  <2>4. CASE WriteMetadata
    <3>1. /\ UNCHANGED <<copy, connVars>>
          /\ \/ download' = [download EXCEPT !.metadata = "sent", !.owed = @ - 1]
             \/ download' = [download EXCEPT !.metadata = "cut"]
      BY <2>4 DEF WriteMetadata
    <3>2. download \in Downloads
      BY <1>1 DEF ServiceTypeOK, Downloads
    <3>3. /\ download.only \in BOOLEAN /\ download.file \in {"begun", "absent"}
          /\ download.owed \in Int /\ download.owed - 1 \in Int
      BY <3>2 DEF Downloads
    <3>4. \E m \in {"sent", "cut"}, n \in {download.owed, download.owed - 1} :
            download' = [only |-> download.only, metadata |-> m, file |-> download.file,
                         owed |-> n]
      BY <3>1, <3>2 DEF Downloads
    <3>5. download' \in Downloads
      BY <3>3, <3>4 DEF Downloads
    <3> QED
      BY <1>1, <3>1, <3>5 DEF TransmitTypeOK, CopyTyped, ServiceTypeOK, connVars
  <2>2. CASE DownloadRecord \/ DownloadEnds \/ DownloadBreaks
    <3>1. /\ UNCHANGED connVars
          /\ CopyRecord(app.open) \/ CopyEnds(app.open) \/ CopyBreaks(app.open)
          /\ download' = [download EXCEPT !.owed =
                            @ - (IF app.open THEN copy'.tell - copy.tell ELSE 0)]
      BY <2>2 DEF DownloadRecord, DownloadEnds, DownloadBreaks, DownloadCopies
    <3>2. app.open \in BOOLEAN
      BY <1>1 DEF ServiceTypeOK
    <3>3. CopyTyped'
      BY <1>1, <3>1, <3>2, CopyStepTyped
    <3>4. copy'.tell \in Nat /\ copy.tell \in Nat
      BY <1>1, <3>3 DEF CopyTyped, TransmitTypeOK
    <3> DEFINE sent == IF app.open THEN copy'.tell - copy.tell ELSE 0
    <3>5. sent \in Int /\ download' = [download EXCEPT !.owed = @ - sent]
      BY <3>1, <3>4
    <3> HIDE DEF sent
    <3>6. download' \in Downloads
      BY <1>1, <3>5 DEF ServiceTypeOK, Downloads
    <3> QED
      BY <1>1, <3>1, <3>3, <3>6 DEF ServiceTypeOK, connVars
  <2>3. CASE DownloadDone
    <3>1. FlushAndClose(app) /\ download' = NoDownload /\ copy' = NoCopy
      BY <2>3 DEF DownloadDone
    <3>2. "Data" \in Files
      BY DEF Files
    <3>3. CopyTyped'
      BY <3>1, <3>2 DEF NoCopy, CopyTyped
    <3>4. app \in [open : BOOLEAN, buffer : {"empty", "reply"}, replied : BOOLEAN]
      BY <1>1 DEF ServiceTypeOK
    <3> QED
      BY <1>1, <3>1, <3>3, <3>4, FlushTyped DEF NoDownload, Downloads
  <2> QED
    BY <2>1, <2>2, <2>3, <2>4
<1>4. TransmitTypeOK' /\ ServiceTypeOK'
  BY <1>1, <1>2, <1>3 DEF TransmitTypeOK, CopyTyped, ServiceTypeOK, Downloads
<1>5. UploadOK'
  BY <1>2, NotUploading DEF IInv
<1>6. FirstKept
  BY <1>1, <1>2, HandleStays DEF IInv, cardVars
<1> QED
  BY <1>1, <1>2, <1>4, <1>5, <1>6 DEF StepOK, CardStep, RestTyped

-----------------------------------------------------------------------------
\* Every action does what StepOK says.
LEMMA NextKeeps ==
  ASSUME IInv, Next
  PROVE  StepOK
<1>1. CASE Serving
  BY <1>1, ConnectionKeeps, EraseFileKeeps, ResetCursorKeeps, EraseEverythingKeeps,
     EraseNextKeeps, OpenErasedKeeps, DownloadKeeps, DownloadingKeeps
  DEF Serving, Query, ServiceTask
<1> QED
  BY <1>1, ResetsKeep, LoggingKeeps, StartingKeeps, ErasingKeeps, RecordingKeeps,
     TransmittingKeeps DEF Next

\* So does a stutter.
LEMMA StutterKeeps ==
  ASSUME IInv, UNCHANGED vars
  PROVE  StepOK
<1>1. CardTyped /\ RestTyped
  BY Typing DEF IInv
<1>2. UNCHANGED <<fileVars, transmitVars, serviceVars>>
  BY DEF vars
<1>3. UploadOK'
  BY <1>2, StillUploading DEF IInv
<1>4. ServiceTypeOK'
  BY <1>1, <1>2 DEF RestTyped, ServiceTypeOK, serviceVars, connVars, queryVars
<1>5. UNCHANGED <<faults, errors, current, log, opened, data, cardVars>> /\ FirstKept
  BY <1>1, <1>2, HandleStays DEF fileVars, cardVars, IInv
<1>6. current' \in CoreStates /\ log' \in Logs /\ opened' \in BOOLEAN
  BY <1>1, <1>5 DEF RestTyped
<1> QED
  BY <1>1, <1>2, <1>3, <1>4, <1>5, <1>6, RestStays DEF StepOK, CardStep

\* The invariant is kept, every file takes a step of its delivery, and a behaviour keeps
\* its fault kinds.
LEMMA StepKeeps ==
  ASSUME IInv, [Next]_vars
  PROVE  IInv' /\ DeliveryStep /\ FirstKept /\ UNCHANGED faults
<1>1. StepOK
  BY NextKeeps, StutterKeeps
<1>2. Invs
  BY Typing DEF IInv, Invs
<1>3. Invs' /\ DeliveryStep
  BY <1>1, <1>2, CardDelivers DEF StepOK
<1>4. TypeOK'
  BY <1>1, <1>3, Typing, PTL DEF StepOK, Invs
<1> QED
  BY <1>1, <1>3, <1>4 DEF StepOK, FirstKept, Invs, IInv

\* A core that leaves the factory.
LEMMA InitKeeps ==
  ASSUME Init
  PROVE  IInv /\ data.first # "reading" /\ \A f \in Files : Delivery(f)!Init
<1>1. /\ size = [f \in Files |-> 0] /\ cursors = [f \in Files |-> 0]
      /\ received = [f \in Files |-> {}] /\ doubtful = {}
      /\ data = [tell |-> 0, first |-> "none"] /\ opened = FALSE
  BY DEF Init, FilesInit
<1>2. FilesTypeOK
  BY DEF Init, FilesInit, FilesTypeOK, CoreStates, Logs
<1>3. TransmitTypeOK
  <2>1. 0 \in 0 .. MaximumTries - 1 /\ 0 \in 0 .. Transmissions /\ "Data" \in Files
    BY TriesAssumption DEF Transmissions, Files
  <2> QED
    BY <2>1 DEF Init, TransmitInit, TransmitTypeOK, NoUpload, NoCopy
<1>4. ServiceTypeOK
  <2>1. <<>> \in Seq(Steps) /\ 0 \in Int
    OBVIOUS
  <2>2. app = NoApp /\ twice = FALSE /\ erasing = "none" /\ todo = <<>> /\ success = TRUE
        /\ download = NoDownload
    BY DEF Init, ServiceInit
  <2>3. app \in [open : BOOLEAN, buffer : {"empty", "reply"}, replied : BOOLEAN]
    BY <2>2 DEF NoApp
  <2>4. download \in Downloads
    BY <2>1, <2>2 DEF NoDownload, Downloads
  <2> QED
    BY <2>1, <2>2, <2>3, <2>4 DEF ServiceTypeOK, Downloads
<1>5. CursorSound /\ DoubtOK /\ HandleOK
  BY <1>1 DEF CursorSound, DoubtOK, HandleOK
<1>6. UploadOK
  BY DEF Init, TransmitInit, NoUpload, UploadOK
<1>7. \A f \in Files : Delivery(f)!Init
  BY <1>1 DEF Delivery!Init
<1> QED
  BY <1>1, <1>2, <1>3, <1>4, <1>5, <1>6, <1>7 DEF IInv, TypeOK

\* The invariant holds.
LEMMA Invariance == Spec => []IInv
<1>1. Init => IInv
  BY InitKeeps
<1>2. IInv /\ [Next]_vars => IInv'
  BY StepKeeps
<1> QED
  BY <1>1, <1>2, PTL DEF Spec

(***************************************************************************)
(* Every variable of the files, the upload and the connection keeps its    *)
(* type.                                                                   *)
(***************************************************************************)
THEOREM TypeCorrect == Spec => []TypeOK
<1>1. IInv => TypeOK
  BY DEF IInv
<1> QED
  BY <1>1, Invariance, PTL

(***************************************************************************)
(* FileCursorManager::save: no cursor ever passes a record that no server  *)
(* has accepted, unless its file was erased and it was not, or a server    *)
(* answered before it had the request.                                     *)
(***************************************************************************)
THEOREM CursorsSound == Spec => []CursorSound
<1>1. IInv => CursorSound
  BY DEF IInv
<1> QED
  BY <1>1, Invariance, PTL

(***************************************************************************)
(* appendMetadataIfNecessary asks the handle: as it is of the file as that *)
(* is after every erase, truncation, format and restart (HandleOK), a data *)
(* file begins with its metadata, unless an append failed.                 *)
(***************************************************************************)
THEOREM MetadataIsFirst == Spec => []MetadataFirst
<1>1. Init => MetadataFirst
  BY InitKeeps DEF MetadataFirst
<1>2. IInv /\ MetadataFirst /\ [Next]_vars => MetadataFirst'
  <2>1. ASSUME IInv, MetadataFirst, [Next]_vars, data'.first = "reading"
        PROVE  May("write")'
    BY <2>1, StepKeeps DEF FirstKept, MetadataFirst, May
  <2> QED
    BY <2>1 DEF MetadataFirst
<1> QED
  BY <1>1, <1>2, Invariance, PTL DEF Spec

(***************************************************************************)
(* The core, with its restarts, failing cards, swaps of the logs and       *)
(* erasing queries, uploads every file as DataDelivery promises.           *)
(***************************************************************************)
THEOREM Delivered == Spec => Delivers
<1>1. Init => \A f \in Files : Delivery(f)!Init
  BY InitKeeps
<1>2. IInv /\ [Next]_vars => [\A f \in Files : [Delivery(f)!Next]_(Delivery(f)!vars)]_vars
  BY StepKeeps DEF DeliveryStep
<1> QED
  BY <1>1, <1>2, Invariance, PTL DEF Spec, Delivers
=============================================================================
