---------------------------- MODULE AppServicer ----------------------------
(***************************************************************************)
(* A connection of the app: Listen, ApiConnection, AppServicer and         *)
(* WifiDownloadFile, and what the queries do to the files and the state.   *)
(*                                                                         *)
(* The steps of an erasing query are apart, so that a reset may come       *)
(* between them.  Queries that change no file are one kind.                *)
(*                                                                         *)
(* Left out: the contents of the replies, except the size a download       *)
(* announces; the clock that QUERY_CAPABILITIES sets; the readings of a    *)
(* live data poll; the module's side of QUERY_MODULE.                      *)
(***************************************************************************)
EXTENDS TransmitFile, Integers, Sequences

CONSTANTS
  Offsets, Lengths    \* of the downloads the app asks for

ASSUME DownloadAssumption == Offsets \subseteq Nat /\ Lengths \subseteq Nat

VARIABLES
  erasing,   \* the file of an erase query whose cursor is still to be reset, or "none"
  app,       \* the connection: open while both ends are; what its buffer holds; history:
             \* the app has got a reply
  twice,     \* history: an app has got two replies to a query
  todo,      \* what an erasing query has yet to do, in order
  success,   \* no erase of the query has failed
  download   \* DownloadFileTask: metadata only; whether metadata is due, was sent, or was cut
             \* by the socket; history: what beginFileCopy found, and the records announced and
             \* not yet sent, the metadata being one

connVars == <<app, twice>>
queryVars == <<erasing, todo, success, download>>
serviceVars == <<connVars, queryVars>>

NoApp == [open |-> FALSE, buffer |-> "empty", replied |-> FALSE]
NoDownload ==
  [only |-> FALSE, metadata |-> "none", file |-> "begun", owed |-> 0]

\* Mutant of EraseAll: the cursors stay.
EraseAllButCursors == <<"LogsA", "LogsB", "Data", "open">>

\* FileSystem::eraseAll, in the order of the descriptors.
EraseAll == <<"System", "LogsA", "LogsB", "Data", "open">>
Steps == Files \union {"System", "open"}

ServiceTypeOK ==
  /\ app \in [open : BOOLEAN, buffer : {"empty", "reply"}, replied : BOOLEAN]
  /\ twice \in BOOLEAN
  /\ todo \in Seq(Steps)
  /\ erasing \in Files \union {"none"} /\ success \in BOOLEAN
  /\ download \in [only : BOOLEAN, metadata : {"none", "due", "sent", "cut"},
                    file : {"begun", "absent"}, owed : Int]

ServiceInit ==
  /\ app = NoApp /\ twice = FALSE
  /\ erasing = "none" /\ todo = <<>> /\ success = TRUE /\ download = NoDownload

-----------------------------------------------------------------------------
(* The connection *)

\* Every way out of the servicing states leads to WifiConnectionCompleted.
Completed == current' = "Resting"

\* AppServicer::flushAndClose of the connection c.  The next connection clears the buffer.
FlushAndClose(c) ==
  /\ twice' = (twice \/ (c.open /\ c.buffer = "reply" /\ c.replied))
  /\ app' = NoApp

Reply == FlushAndClose([app EXCEPT !.buffer = "reply"])

\* WifiListening serves: WifiConnection::setConnection, and AppServicer's entry.
Accept ==
  /\ current = "Resting"
  /\ current' = "AppServicer"
  /\ app' = [NoApp EXCEPT !.open = TRUE]
  /\ UNCHANGED <<faults, cardVars, log, opened, errors, data, transmitVars,
                 twice, queryVars>>

AppLeaves ==
  /\ app.open
  /\ app' = [app EXCEPT !.open = FALSE]
  /\ UNCHANGED <<fileVars, transmitVars, twice, queryVars>>

-----------------------------------------------------------------------------
(* ApiConnection::service and AppServicer::handle *)

\* No query is being handled.
Listening == current = "AppServicer" /\ todo = <<>> /\ erasing = "none"

\* Nothing for twenty seconds, or what came is no query: the connection is closed.
CloseUnanswered ==
  /\ Listening
  /\ Completed
  /\ app' = [app EXCEPT !.open = FALSE]
  /\ UNCHANGED <<faults, cardVars, log, opened, errors, data, transmitVars,
                 twice, queryVars>>

\* The queries that change no file: they answer with what the core knows or change its
\* identity and networks; and those not known.
Inform ==
  /\ Listening
  /\ Completed /\ Reply
  /\ UNCHANGED <<faults, cardVars, log, opened, errors, data, transmitVars, queryVars>>

\* DataReplies::eraseFileReply: the file first, then its cursor, whether the file went or not.
EraseFile(f) ==
  /\ Listening
  /\ Erase(f)
  /\ erasing' = f
  /\ UNCHANGED <<faults, current, errors, transmitVars, connVars, todo, success, download>>

ResetCursor ==
  /\ current = "AppServicer" /\ erasing # "none"
  /\ SaveCursor(erasing, 0, TRUE)
  /\ erasing' = "none"
  /\ Completed /\ Reply
  /\ UNCHANGED <<faults, log, opened, errors, data, transmitVars,
                 todo, success, download>>

\* QUERY_FORMAT and QUERY_RESET: the files are closed and erased one by one.
EraseEverything ==
  /\ Listening
  /\ opened' = FALSE /\ data' = [data EXCEPT !.tell = 0]
  /\ todo' = EraseAll /\ success' = TRUE
  /\ UNCHANGED <<faults, current, cardVars, log, errors, transmitVars,
                 connVars, erasing, download>>

NextStep ==
  /\ current = "AppServicer" /\ todo # <<>>
  /\ todo' = Tail(todo)
  /\ UNCHANGED <<faults, errors, transmitVars, erasing, download>>

EraseNext ==
  /\ NextStep
  /\ Head(todo) # "open"
  /\ \E erased \in Outcome("erase") :
       /\ EraseClosed(Head(todo), erased)
       /\ success' = (success /\ erased)
  /\ UNCHANGED <<current, connVars>>

\* The files open again; CoreState::started when every one was erased.  The reply is a
\* success in any case.
OpenErased ==
  /\ NextStep
  /\ Head(todo) = "open"
  /\ \E W \in Truncated, ok \in Outcome("open") :
       /\ OpenSystemFiles(Kept(W), ok)
       /\ IF ok /\ success
          THEN StartedData(W, Kept(W), cursors, DataAfter(W, TRUE), TRUE)
          ELSE Contents(W, Kept(W), cursors) /\ Holds(DataAfter(W, ok))
  /\ success' = TRUE
  /\ Completed /\ Reply

-----------------------------------------------------------------------------
(* WifiDownloadFile and DownloadFileTask *)

unchangedByDownload == <<faults, cardVars, log, opened, errors, data,
                         index, upload, link, status, erasing, todo, success>>

\* Mutant of Remaining: the size of the file, wherever the copy begins.
RemainingAll(c, only) == IF only THEN 0 ELSE c.end

\* calculateTotalSize, less the metadata.
Remaining(c, only) == IF only THEN 0 ELSE c.end - c.tell

\* DownloadFileTask::enqueued, which goes on whether the copy began or not, and then
\* writeHeader.  The app may ask for metadata ahead of the file, or for that only.
Download(f, offset, length) ==
  /\ Listening /\ app.open
  /\ current' = "WifiDownloadFile"
  /\ \E only \in BOOLEAN, metadata \in {"none", "due"}, file \in {"begun", "absent"} :
       /\ only => metadata = "due"
       /\ IF file = "begun" THEN Began(f, offset, length) ELSE NotBegun(f, offset, length)
       /\ download' = [only |-> only, metadata |-> metadata, file |-> file,
                       owed |-> Remaining(copy', only) + (IF metadata = "due" THEN 1 ELSE 0)]
  /\ app' = [app EXCEPT !.replied = TRUE]
  /\ UNCHANGED <<unchangedByDownload, twice>>

\* The socket did not take the header: it is still in the buffer that is flushed.
DownloadFails ==
  /\ Listening
  /\ ~app.open \/ May("partial")
  /\ Completed
  /\ FlushAndClose([app EXCEPT !.buffer = "reply", !.replied = app.open])
  /\ UNCHANGED <<unchangedByDownload, copy, download>>

Downloading == current = "WifiDownloadFile" /\ download.metadata # "due"

\* The metadata after the header: what the socket takes of it is not looked at.
WriteMetadata ==
  /\ current = "WifiDownloadFile" /\ download.metadata = "due"
  /\ \/ app.open /\ download' = [download EXCEPT !.metadata = "sent", !.owed = @ - 1]
     \/ /\ ~app.open \/ May("partial")
        /\ download' = [download EXCEPT !.metadata = "cut"]
  /\ UNCHANGED <<unchangedByDownload, current, copy, connVars>>

DownloadCopies(step) ==
  /\ Downloading /\ ~download.only
  /\ step
  /\ download' = [download EXCEPT !.owed = @ - (IF app.open THEN copy'.tell - copy.tell ELSE 0)]
  /\ UNCHANGED <<unchangedByDownload, current, connVars>>

DownloadRecord == DownloadCopies(CopyRecord(app.open))
DownloadEnds == DownloadCopies(CopyEnds(app.open))
DownloadBreaks == DownloadCopies(CopyBreaks(app.open))

DownloadOver == Downloading /\ (download.only \/ ~copy.busy)

\* Mutant of DownloadDone: the buffer holds another reply.
DownloadDoneReplies ==
  /\ DownloadOver
  /\ Completed /\ Reply
  /\ download' = NoDownload /\ copy' = NoCopy
  /\ UNCHANGED unchangedByDownload

DownloadDone ==
  /\ DownloadOver
  /\ Completed
  /\ FlushAndClose(app)
  /\ download' = NoDownload /\ copy' = NoCopy
  /\ UNCHANGED unchangedByDownload

-----------------------------------------------------------------------------
(* WifiQueryModule: the module's reply, or none within ten seconds. *)

QueryModule ==
  /\ Listening
  /\ current' = "WifiQueryModule"
  /\ UNCHANGED <<unchangedByDownload, copy, connVars, download>>

QueryModuleEnds ==
  /\ current = "WifiQueryModule"
  /\ Completed
  /\ \E replied \in BOOLEAN :
       FlushAndClose([app EXCEPT !.buffer = IF replied THEN "reply" ELSE @])
  /\ UNCHANGED <<unchangedByDownload, copy, download>>

\* What the servicing states do by themselves; DownloadRecord takes a socket that takes it.
ServiceTask ==
  \/ CloseUnanswered \/ ResetCursor \/ EraseNext \/ OpenErased
  \/ WriteMetadata \/ DownloadEnds \/ DownloadBreaks \/ DownloadDone \/ QueryModuleEnds

\* What the app asks for.
Query ==
  \/ Inform \/ EraseEverything \/ QueryModule \/ DownloadFails
  \/ \E f \in Files : EraseFile(f) \/ \E o \in Offsets, l \in Lengths : Download(f, o, l)
=============================================================================
