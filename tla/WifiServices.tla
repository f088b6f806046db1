---------------------------- MODULE WifiServices ----------------------------
(***************************************************************************)
(* The files of the core under everything that uses them: the readings and *)
(* the logs that fill them, the upload that empties them, the app that     *)
(* downloads and erases them, and the resets that come between.            *)
(*                                                                         *)
(* The core is one thread: while a file is uploaded or an app is served no *)
(* reading is taken.  Only log messages are written in every state.        *)
(***************************************************************************)
EXTENDS AppServicer

vars == <<fileVars, transmitVars, serviceVars>>

TypeOK == FilesTypeOK /\ TransmitTypeOK /\ ServiceTypeOK

Init == FilesInit /\ TransmitInit /\ ServiceInit

\* A reset ends the tasks and the connection with the RAM they are in.
Ended ==
  /\ index' = 0 /\ upload' = NoUpload /\ copy' = NoCopy
  /\ link' = FALSE /\ status' = 0
  /\ app' = NoApp /\ UNCHANGED twice
  /\ erasing' = "none" /\ todo' = <<>> /\ success' = TRUE
  /\ download' = NoDownload

Resets == (Restart \/ LogCutShort \/ RebootOnErrors) /\ Ended

Logging == WriteLog /\ CopyOutlives /\ UNCHANGED <<index, upload, link, status, serviceVars>>

Starting == StartSystem /\ UNCHANGED <<transmitVars, serviceVars>>

Erasing == FactoryReset /\ UNCHANGED <<transmitVars, serviceVars>>

Recording ==
  /\ RecordData \/ Flush
  /\ UNCHANGED <<transmitVars, serviceVars>>

Transmitting == TransmitNext /\ UNCHANGED serviceVars

Serving == Accept \/ AppLeaves \/ Query \/ DownloadRecord \/ ServiceTask

Next ==
  \/ Resets \/ Logging \/ Starting \/ Erasing \/ Recording \/ Transmitting \/ Serving

Spec == Init /\ [][Next]_vars

-----------------------------------------------------------------------------
(* What the core does by itself in the states it is to leave.  A record is *)
(* not sent by the core alone: the peer may take nothing, with the socket  *)
(* connected, and neither the copy nor its task has a limit for that.      *)

Tasks ==
  \/ Starting
  \/ ServiceTask
  \/ /\ \/ NextUpload \/ OpenFile \/ Conclude \/ GiveUp
        \/ UploadEnds \/ UploadBreaks
     /\ UNCHANGED serviceVars

FairSpec == Spec /\ WF_vars(Tasks)

-----------------------------------------------------------------------------
(* Properties *)

\* FileCursorManager::save after an upload, the erasing queries and the swap of the logs:
\* a cursor is never beyond records the server does not have, unless the file was erased
\* and its cursor was not, or the server answered before it had the request.
CursorSound ==
  \A f \in Files \ doubtful : 1 .. cursors[f] \subseteq received[f]

Delivery(f) ==
  INSTANCE DataDelivery WITH content <- size[f], cursor <- cursors[f],
                             received <- received[f], doubtful <- f \in doubtful

\* Every file is uploaded as DataDelivery promises.
Delivers ==
  /\ \A f \in Files : Delivery(f)!Init
  /\ [][\A f \in Files : [Delivery(f)!Next]_(Delivery(f)!vars)]_vars

\* eraseFileReply and eraseAll leave no cursor behind that outlives the data it was
\* about, unless a fault comes between the erase and the cursor or fails one of them.
DataInDoubt ==
  "Data" \in doubtful /\ erasing # "Data" =>
    \E kind \in {"erase", "open", "system", "restart", "early"} : May(kind)

\* appendMetadataIfNecessary: a data file begins with the metadata that its records
\* need, unless an append failed: whatever erased, truncated or formatted the file, the
\* handle that is asked is of the file as it is then.
MetadataFirst == data.first = "reading" => May("write")

\* swapLogsIfNecessary and openSystemFiles: the log in use is not in its final block,
\* whichever of the two a start or an erase has chosen, unless the swap failed, or power
\* failed ahead of two swaps and both logs are in their final block.
LogHasRoom ==
  opened /\ InFinalBlock(log, size) =>
    \/ May("erase") \/ May("open")
    \/ May("restart") /\ InFinalBlock(Other(log), size)

\* DownloadFileTask announces the size before it sends: it never sends more, and a download
\* that ends while the app is there has sent it all, but for the metadata if the socket did
\* not take it, all of a file that the swap of the logs erased meanwhile, and the file if
\* the copy did not begin: then none of it was sent, whatever was announced.
AnnouncedIsSent ==
  current = "WifiDownloadFile" =>
    /\ download.owed >= 0
    /\ DownloadOver /\ app.open =>
         /\ download.metadata = "cut" => May("partial")
         /\ \/ download.owed = (IF download.metadata = "cut" THEN 1 ELSE 0)
            \/ ~copy.whole
            \/ download.file = "absent" /\ copy.tell = 0

\* flushAndClose in AppServicer and in the states it hands the connection to: the app
\* gets one reply, unless a socket took a part of it.
OneReply == twice => May("partial")

\* The copy waits for a connected peer to take the next record.
KeptByPeer ==
  /\ copy.busy /\ ~copy.done /\ copy.tell < copy.end
  /\ \/ Uploading /\ upload.connected /\ link /\ status = 0
     \/ Downloading /\ app.open

\* Whatever the server, the app and the card do, the core gets back to its schedule, or is
\* kept for ever by a peer that stays connected and takes nothing.
Rests == []<>(current = "Resting") \/ <>[]KeptByPeer
=============================================================================
