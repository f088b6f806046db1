---------------------------- MODULE TransmitFile ----------------------------
(***************************************************************************)
(* The upload of the data file and of the current log: WifiTransmitFiles,  *)
(* TransmitFileTask, and the FileCopyOperation that uploads and downloads  *)
(* share.                                                                  *)
(*                                                                         *)
(* The server answers 200 once it has the whole request, another status at *)
(* any time, or the link drops; what it accepted may be lost to the core   *)
(* when the link drops before its answer arrives.  Records stand for the   *)
(* pieces of 256 bytes that StreamCopier moves.                            *)
(*                                                                         *)
(* Left out: the names, headers and addresses; the elapsed time that only  *)
(* ends one call of copy() and starts the next; the metadata record sent   *)
(* ahead of the file, whose size is part of the announced length.          *)
(***************************************************************************)
EXTENDS DataFiles

CONSTANT MaximumTries  \* WifiTransmitFileMaximumTries

ASSUME TriesAssumption == MaximumTries \in Nat \ {0}

Transmissions == 2    \* of WifiTransmitFiles

VARIABLES
  index,    \* WifiTransmitFiles::index_
  upload,   \* TransmitFileTask: its settings, tries and connected; as history, where the copy
            \* began and whether the server accepted it before it answered 200
  copy,     \* FileCopyOperation, its reader's bounds and position, and the opened file
  link,     \* the socket is connected at both ends
  status    \* HttpResponseParser::status_code(): 0, 200 or 500

transmitVars == <<index, upload, copy, link, status>>

\* The file the copy reads, its position and end, the reader's done_ before the end and
\* the operation's busy_; whole: the file still has the content that was opened.
NoCopy ==
  [file |-> "Data", tell |-> 0, end |-> 0, done |-> TRUE, busy |-> FALSE, whole |-> TRUE]
NoUpload ==
  [file |-> "Data", tries |-> 0, connected |-> FALSE, start |-> 0, accepted |-> FALSE]

TransmitTypeOK ==
  /\ index \in 0 .. Transmissions
  /\ upload \in [file : Files, tries : 0 .. MaximumTries - 1, connected : BOOLEAN, start : Nat,
                 accepted : BOOLEAN]
  /\ copy \in [file : Files, tell : Nat, end : Nat, done : BOOLEAN, busy : BOOLEAN, whole : BOOLEAN]
  /\ link \in BOOLEAN /\ status \in {0, 200, 500}

TransmitInit ==
  /\ index = 0
  /\ upload = NoUpload /\ copy = NoCopy
  /\ link = FALSE /\ status = 0

-----------------------------------------------------------------------------
(* FileSystem::beginFileCopy, FileReader and FileCopyOperation; up: the socket is *)
(* still connected.                                                               *)

\* length 0 is all there is; a length beyond the end is cut off.
End(f, offset, length) ==
  IF length = 0 \/ length > size[f] - offset THEN size[f] ELSE offset + length

Began(f, offset, length) ==
  /\ offset <= size[f]
  /\ copy' = [file |-> f, tell |-> offset, end |-> End(f, offset, length),
              done |-> FALSE, busy |-> TRUE, whole |-> TRUE]

\* A file that does not open leaves the reader of the copy before, with its end and without
\* a file: last stands for that end.  A position that is not in the file leaves a reader that
\* is done, with the bounds asked for.  busy_ is what the last copy has left.
NotBegun(f, offset, length) ==
  \/ /\ May("open")
     /\ \E busy \in BOOLEAN, last \in {0} \union {size[g] : g \in Files} :
          copy' = [NoCopy EXCEPT !.end = last, !.busy = busy]
  \/ /\ offset > size[f]
     /\ \E busy \in BOOLEAN :
          copy' = [file |-> f, tell |-> 0, end |-> offset + length,
                   done |-> TRUE, busy |-> busy, whole |-> TRUE]

\* FileCopyOperation::copy: a record is read and taken by the socket, which may take nothing
\* as long as it likes: copy() then leaves its loop and is called again.  A file that was
\* erased meanwhile reads as old records or as its end.
CopyRecord(up) ==
  /\ copy.busy /\ up /\ ~copy.done /\ copy.tell < copy.end
  /\ \/ copy' = [copy EXCEPT !.tell = @ + 1]
     \/ ~copy.whole /\ copy' = [copy EXCEPT !.done = TRUE]

\* The end of the file.
CopyEnds(up) ==
  /\ copy.busy /\ up /\ (copy.done \/ copy.tell = copy.end)
  /\ copy' = [copy EXCEPT !.busy = FALSE]

\* The writer says EOS once the link is down, with a record read or not.
CopyBreaks(up) ==
  /\ copy.busy /\ ~up
  /\ \E read \in (IF copy.done \/ copy.tell = copy.end THEN {0} ELSE {0, 1}) :
       copy' = [copy EXCEPT !.tell = @ + read, !.busy = FALSE]

\* A log that the swap erased is no longer what a copy of it reads.
CopyOutlives ==
  copy' = [copy EXCEPT !.whole = @ /\ size'[copy.file] >= size[copy.file]]

-----------------------------------------------------------------------------
(* WifiTransmitFiles *)

\* entry() asks for the log file in use each time the state is entered, which is before
\* the first of its two tasks and after each upload.
StartUploads ==
  /\ current = "Resting"
  /\ current' = "WifiTransmitFiles"
  /\ UNCHANGED <<faults, cardVars, log, opened, errors, data, transmitVars>>

NextUpload ==
  /\ current = "WifiTransmitFiles"
  /\ IF index = Transmissions
     THEN /\ current' = "Resting" /\ index' = 0
          /\ UNCHANGED upload
     ELSE /\ current' = "WifiTransmitFile" /\ index' = index + 1
          /\ upload' = [NoUpload EXCEPT !.file = IF index = 0 THEN "Data" ELSE log]
  /\ UNCHANGED <<faults, cardVars, log, opened, errors, data, copy, link, status>>

-----------------------------------------------------------------------------
(* TransmitFileTask::task *)

Uploading == current = "WifiTransmitFile"

unchangedFiles == <<faults, log, opened, errors, data, index>>

\* The task, and its parser, are gone with the state; of the copy nothing is read again.
Leave ==
  /\ current' = "WifiTransmitFiles"
  /\ upload' = NoUpload /\ copy' = NoCopy /\ link' = FALSE /\ status' = 0

\* openFile and openConnection.
Connect(position) ==
  /\ link' = TRUE /\ status' = 0
  /\ upload' = [upload EXCEPT !.connected = TRUE, !.start = position, !.accepted = FALSE]
  /\ UNCHANGED current

OpenFile ==
  /\ Uploading /\ ~upload.connected
  /\ \E position \in Lookup(upload.file) :
       \/ Leave
       \/ position < size[upload.file] /\ Began(upload.file, position, 0) /\ Connect(position)
  /\ UNCHANGED <<unchangedFiles, cardVars>>

Upload(step) ==
  /\ Uploading /\ upload.connected /\ status = 0
  /\ step
  /\ UNCHANGED <<unchangedFiles, cardVars, current, upload, link, status>>

UploadRecord == Upload(CopyRecord(link))
UploadEnds == Upload(CopyEnds(link))
UploadBreaks == Upload(CopyBreaks(link))

\* Mutant of Conclude: one try more than the maximum.
ConcludeOneMore ==
  /\ Uploading /\ upload.connected /\ ~link /\ status # 200
  /\ IF upload.tries + 1 > MaximumTries
     THEN Leave
     ELSE /\ upload' = [NoUpload EXCEPT !.file = upload.file, !.tries = upload.tries + 1]
          /\ copy' = NoCopy /\ link' = FALSE /\ status' = 0
          /\ UNCHANGED current
  /\ UNCHANGED <<unchangedFiles, cardVars>>

\* Mutant of Conclude: the size of the file is saved, not the position of the copy.
ConcludeAtSize ==
  /\ Uploading /\ upload.connected /\ status = 200
  /\ SaveCursor(upload.file, size[upload.file], copy.whole /\ upload.accepted)
  /\ Leave
  /\ UNCHANGED unchangedFiles

\* Mutant of Conclude: the tries are not counted.
ConcludeUncounted ==
  /\ Uploading /\ upload.connected
  /\ ~link \/ status > 0
  /\ IF status = 200 THEN Leave
     ELSE /\ upload' = [upload EXCEPT !.connected = FALSE]
          /\ copy' = NoCopy /\ link' = FALSE /\ status' = 0
          /\ UNCHANGED current
  /\ UNCHANGED <<unchangedFiles, cardVars>>

\* The link is down or there is a status.
Conclude ==
  /\ Uploading /\ upload.connected
  /\ ~link \/ status > 0
  /\ \/ /\ status = 200
        /\ SaveCursor(upload.file, copy.tell, copy.whole /\ upload.accepted)
        /\ Leave
     \/ /\ status # 200
        /\ IF upload.tries + 1 >= MaximumTries
           THEN Leave
           ELSE /\ upload' = [NoUpload EXCEPT !.file = upload.file, !.tries = upload.tries + 1]
                /\ copy' = NoCopy /\ link' = FALSE /\ status' = 0
                /\ UNCHANGED current
        /\ UNCHANGED cardVars
  /\ UNCHANGED unchangedFiles

\* No answer for ten seconds after the copy has finished: stop, and conclude.
GiveUp ==
  /\ Uploading /\ upload.connected /\ status = 0
  /\ ~copy.busy /\ link
  /\ link' = FALSE
  /\ UNCHANGED <<unchangedFiles, cardVars, current, upload, copy, status>>

-----------------------------------------------------------------------------
(* The server *)

\* The server has the request, keeps its records, and answers; the answer may be lost.
ServerAccepts ==
  /\ Uploading /\ upload.connected /\ link /\ status = 0
  /\ copy.tell = copy.end
  /\ upload' = [upload EXCEPT !.accepted = TRUE]
  /\ received' = IF copy.whole
                 THEN [received EXCEPT ![upload.file] = @ \union ((upload.start + 1) .. copy.tell)]
                 ELSE received
  /\ \/ status' = 200 /\ UNCHANGED link
     \/ link' = FALSE /\ UNCHANGED status
  /\ UNCHANGED <<unchangedFiles, current, size, cursors, doubtful, copy>>

\* An error status; with "early", a success before the request was complete.
ServerAnswers ==
  /\ Uploading /\ upload.connected /\ link /\ status = 0
  /\ status' \in {500} \union (IF May("early") THEN {200} ELSE {})
  /\ UNCHANGED <<unchangedFiles, cardVars, current, upload, copy, link>>

LinkDrops ==
  /\ Uploading /\ upload.connected /\ link /\ status = 0
  /\ link' = FALSE
  /\ UNCHANGED <<unchangedFiles, cardVars, current, upload, copy, status>>

TransmitNext ==
  \/ StartUploads \/ NextUpload
  \/ OpenFile \/ UploadRecord \/ UploadEnds \/ UploadBreaks \/ Conclude \/ GiveUp
  \/ ServerAccepts \/ ServerAnswers \/ LinkDrops
=============================================================================
