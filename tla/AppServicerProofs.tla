-------------------------- MODULE AppServicerProofs --------------------------
(***************************************************************************)
(* What the app is promised, and what the logs and the cursor of the data  *)
(* file keep to unless a fault comes between, proved for every value of    *)
(* the constants.                                                          *)
(*                                                                         *)
(* Four invariants of their own, each on top of the one that the uploads   *)
(* keep: who has had a reply (RepliesOK), which log has room (RoomOK),     *)
(* what a download still owes (AnnounceOK), and what an erasing query has  *)
(* left to do (QueryOK), which is why no cursor outlives its data.         *)
(***************************************************************************)
EXTENDS WifiServicesProofs

\* The buffer holds a reply only while it is flushed, and only a download has replied
\* before it ends.
RepliesOK ==
  /\ app.buffer = "empty"
  /\ app.replied => current = "WifiDownloadFile"
  /\ OneReply

\* flushAndClose sends no second reply of its own.
LEMMA FlushReplies ==
  ASSUME ServiceTypeOK, RepliesOK, UNCHANGED faults, NEW c, FlushAndClose(c),
         c.open /\ c.buffer = "reply" /\ c.replied => May("partial")
  PROVE  RepliesOK'
BY DEF RepliesOK, OneReply, May, FlushAndClose, NoApp

\* A query that is answered outside a download had no reply.
LEMMA ReplyReplies ==
  ASSUME ServiceTypeOK, RepliesOK, UNCHANGED faults, current # "WifiDownloadFile", Reply
  PROVE  RepliesOK'
<1>1. [app EXCEPT !.buffer = "reply"].replied = FALSE
  BY DEF ServiceTypeOK, RepliesOK
<1> QED
  BY <1>1, FlushReplies DEF Reply

\* The connection stays as it is.
LEMMA ConnectionReplies ==
  ASSUME RepliesOK, UNCHANGED <<faults, app, twice>>,
         current = "WifiDownloadFile" => UNCHANGED current
  PROVE  RepliesOK'
BY DEF RepliesOK, OneReply, May

\* The app connects, leaves and queries a module.
LEMMA AppReplies ==
  ASSUME ServiceTypeOK, RepliesOK, UNCHANGED faults,
         Accept \/ AppLeaves \/ CloseUnanswered \/ QueryModule \/ QueryModuleEnds
  PROVE  RepliesOK'
<1>1. CASE Accept
  BY <1>1 DEF Accept, NoApp, RepliesOK, OneReply, May
<1>2. CASE AppLeaves
  <2>1. app'.buffer = app.buffer /\ app'.replied = app.replied /\ UNCHANGED <<current, twice>>
    BY <1>2 DEF AppLeaves, ServiceTypeOK, fileVars
  <2> QED
    BY <2>1 DEF RepliesOK, OneReply, May
<1>3. CASE CloseUnanswered
  <2>1. app'.buffer = app.buffer /\ app'.replied = app.replied /\ UNCHANGED twice
        /\ current = "AppServicer"
    BY <1>3 DEF CloseUnanswered, Listening, ServiceTypeOK
  <2> QED
    BY <2>1 DEF RepliesOK, OneReply, May
<1>4. CASE QueryModule
  BY <1>4, ConnectionReplies DEF QueryModule, Listening, connVars
<1>5. CASE QueryModuleEnds
  <2>1. PICK replied \in BOOLEAN :
          FlushAndClose([app EXCEPT !.buffer = IF replied THEN "reply" ELSE @])
    BY <1>5 DEF QueryModuleEnds
  <2>2. current = "WifiQueryModule"
    BY <1>5 DEF QueryModuleEnds
  <2>3. [app EXCEPT !.buffer = IF replied THEN "reply" ELSE @].replied = FALSE
    BY <2>2 DEF ServiceTypeOK, RepliesOK
  <2> QED
    BY <2>1, <2>3, FlushReplies
<1> QED
  BY <1>1, <1>2, <1>3, <1>4, <1>5

\* The queries that answer at once or change the files.
LEMMA QueriesReply ==
  ASSUME ServiceTypeOK, RepliesOK, UNCHANGED faults,
         \/ Inform \/ ResetCursor \/ EraseEverything \/ EraseNext \/ OpenErased
         \/ \E f \in Files : EraseFile(f)
  PROVE  RepliesOK'
<1>1. CASE Inform \/ ResetCursor \/ OpenErased
  <2>1. current = "AppServicer" /\ Reply
    BY <1>1 DEF Inform, ResetCursor, OpenErased, NextStep, Listening
  <2> QED
    BY <2>1, ReplyReplies
<1>2. CASE EraseEverything \/ EraseNext \/ \E f \in Files : EraseFile(f)
  BY <1>2, ConnectionReplies DEF EraseEverything, EraseNext, EraseFile, connVars
<1> QED
  BY <1>1, <1>2

\* A download answers with its header, and its end adds nothing to it.
LEMMA DownloadsReply ==
  ASSUME ServiceTypeOK, RepliesOK, UNCHANGED faults,
         \/ DownloadFails \/ WriteMetadata \/ DownloadDone
         \/ DownloadRecord \/ DownloadEnds \/ DownloadBreaks
         \/ \E f \in Files, o \in Offsets, l \in Lengths : Download(f, o, l)
  PROVE  RepliesOK'
<1>1. CASE DownloadFails
  <2> DEFINE c == [app EXCEPT !.buffer = "reply", !.replied = app.open]
  <2>1. FlushAndClose(c) /\ (~app.open \/ May("partial"))
    BY <1>1 DEF DownloadFails
  <2>2. c.open = app.open
    BY DEF ServiceTypeOK
  <2> HIDE DEF c
  <2> QED
    BY <2>1, <2>2, FlushReplies
<1>2. CASE WriteMetadata \/ DownloadRecord \/ DownloadEnds \/ DownloadBreaks
  BY <1>2, ConnectionReplies DEF WriteMetadata, DownloadRecord, DownloadEnds, DownloadBreaks,
     DownloadCopies, connVars
<1>3. CASE DownloadDone
  BY <1>3, FlushReplies DEF DownloadDone, RepliesOK
<1>4. CASE \E f \in Files, o \in Offsets, l \in Lengths : Download(f, o, l)
  <2>1. /\ app' = [app EXCEPT !.replied = TRUE] /\ UNCHANGED twice
        /\ current' = "WifiDownloadFile"
    BY <1>4 DEF Download
  <2>2. app'.buffer = app.buffer
    BY <2>1 DEF ServiceTypeOK
  <2> QED
    BY <2>1, <2>2 DEF RepliesOK, OneReply, May
<1> QED
  BY <1>1, <1>2, <1>3, <1>4

\* What the core does without an app.
LEMMA RestReplies ==
  ASSUME RepliesOK, UNCHANGED faults,
         Resets \/ Logging \/ Starting \/ Erasing \/ Recording \/ Transmitting
  PROVE  RepliesOK'
<1>1. CASE Resets
  BY <1>1 DEF Resets, Ended, NoApp, RepliesOK, OneReply, May
<1>2. CASE Logging
  BY <1>2, ConnectionReplies DEF Logging, WriteLog, serviceVars, connVars
<1>3. CASE Starting \/ Erasing \/ Recording
  BY <1>3, ConnectionReplies DEF Starting, StartSystem, Erasing, FactoryReset, Recording,
     RecordData, Flush, serviceVars, connVars
<1>4. CASE Transmitting
  <2>1. current = "WifiDownloadFile" => UNCHANGED current
    BY <1>4 DEF Transmitting, TransmitNext, StartUploads, NextUpload, OpenFile, UploadRecord,
       UploadEnds, UploadBreaks, Upload, Conclude, GiveUp, ServerAccepts, ServerAnswers,
       LinkDrops, Uploading
  <2> QED
    BY <1>4, <2>1, ConnectionReplies DEF Transmitting, serviceVars, connVars
<1> QED
  BY <1>1, <1>2, <1>3, <1>4

\* Every step keeps it.
LEMMA StepReplies ==
  ASSUME IInv, RepliesOK, [Next]_vars
  PROVE  RepliesOK'
<1>1. UNCHANGED faults /\ ServiceTypeOK
  BY StepKeeps DEF IInv, TypeOK
<1>2. CASE Next
  BY <1>1, <1>2, AppReplies, QueriesReply, DownloadsReply, RestReplies
  DEF Next, Serving, Query, ServiceTask
<1>3. CASE UNCHANGED vars
  BY <1>1, <1>3, ConnectionReplies DEF vars, fileVars, serviceVars, connVars
<1> QED
  BY <1>2, <1>3

(***************************************************************************)
(* flushAndClose in AppServicer, WifiDownloadFile and WifiQueryModule: an  *)
(* app never gets two replies to a query unless a socket took a part of    *)
(* one.                                                                    *)
(***************************************************************************)
THEOREM OneReplySafe == Spec => []OneReply
<1>1. Init => RepliesOK
  BY DEF Init, ServiceInit, NoApp, RepliesOK, OneReply
<1>2. IInv /\ RepliesOK /\ [Next]_vars => RepliesOK'
  BY StepReplies
<1>3. RepliesOK => OneReply
  BY DEF RepliesOK
<1> QED
  BY <1>1, <1>2, <1>3, Invariance, PTL DEF Spec

-----------------------------------------------------------------------------
\* Without a failing erase or open, one of the logs has room, and the open one is such; if
\* power failed ahead of the swaps, both may be in their final block.
RoomOK ==
  \/ May("erase") \/ May("open")
  \/ /\ May("restart") \/ \E f \in Logs : size[f] < Capacity
     /\ opened /\ size[log] >= Capacity => May("restart") /\ size[Other(log)] >= Capacity

\* The logs of s have no more records than the logs have.
LogsShrink(s) == \A f \in Logs : s[f] \in Nat /\ s[f] <= size[f]

\* The logs are two of the files.
LEMMA LogsTyped ==
  /\ Logs \subseteq Files /\ Logs = {"LogsA", "LogsB"} /\ "Data" \notin Logs
  /\ \A f \in Logs : Other(f) \in Logs /\ Other(f) # f
BY DEF Files, Logs, Other

\* An erase adds no record.
LEMMA KeptShrinks ==
  ASSUME CardTyped, NEW W \in SUBSET Files
  PROVE  LogsShrink(Kept(W)) /\ LogsShrink(size)
BY LogsTyped DEF CardTyped, LogsShrink, Kept

\* Logs that are left alone and the descriptor of before.
LEMMA RoomStays ==
  ASSUME RestTyped, RoomOK, UNCHANGED faults, \A f \in Logs : size'[f] = size[f],
         opened' => opened /\ log' = log
  PROVE  RoomOK'
<1>1. log \in Logs /\ Other(log) \in Logs
  BY LogsTyped DEF RestTyped
<1> QED
  BY <1>1 DEF RoomOK, May

\* Logs that do not grow, and are closed or have room.
LEMMA RoomShrinks ==
  ASSUME CardTyped, RoomOK, UNCHANGED faults, LogsShrink(size'), opened' => size'[log'] < Capacity,
         opened' => log' \in Logs
  PROVE  RoomOK'
<1>1. \A f \in Logs : size[f] \in Nat /\ size'[f] \in Nat /\ size'[f] <= size[f]
  BY LogsTyped DEF CardTyped, LogsShrink
<1>2. Capacity \in Nat
  BY FilesAssumption
<1> QED
  BY <1>1, <1>2 DEF RoomOK, May

\* openSystemFiles chooses a log with room.
LEMMA RoomWhenOpened ==
  ASSUME CardTyped, RoomOK, UNCHANGED faults, NEW s, NEW ok \in BOOLEAN,
         OpenSystemFiles(s, ok), LogsShrink(s), \A f \in Logs : size'[f] = s[f]
  PROVE  RoomOK'
<1>1. \A f \in Logs : size[f] \in Nat /\ size'[f] \in Nat /\ size'[f] <= size[f]
  BY LogsTyped DEF CardTyped, LogsShrink
<1>2. Capacity \in Nat
  BY FilesAssumption
<1>3. CASE May("erase") \/ May("open")
  BY <1>3 DEF RoomOK, May
<1>4. CASE ~May("erase") /\ ~May("open")
  <2>1. May("restart")' \/ \E f \in Logs : size'[f] < Capacity
    BY <1>1, <1>2, <1>4 DEF RoomOK, May
  <2>2. opened' => log' = IF size'["LogsA"] >= Capacity THEN "LogsB" ELSE "LogsA"
    BY LogsTyped DEF OpenSystemFiles, InFinalBlock
  <2>3. /\ Other("LogsB") = "LogsA"
        /\ size'["LogsA"] \in Nat /\ size'["LogsB"] \in Nat
    BY <1>1, LogsTyped DEF Other
  <2>4. ASSUME opened', size'[log'] >= Capacity
        PROVE  May("restart")' /\ size'[Other(log')] >= Capacity
    <3>1. log' = "LogsB" /\ size'["LogsA"] >= Capacity
      BY <1>2, <2>2, <2>3, <2>4
    <3>2. ~\E f \in Logs : size'[f] < Capacity
      BY <1>2, <2>3, <2>4, <3>1, LogsTyped
    <3> QED
      BY <2>1, <2>3, <3>1, <3>2
  <2>5. Other(log)' = Other(log')
    BY DEF Other
  <2> QED
    BY <2>1, <2>4, <2>5 DEF RoomOK
<1> QED
  BY <1>3, <1>4

\* What an erase leaves in the logs.
LEMMA ContentsRoom ==
  ASSUME CardTyped, NEW W \in SUBSET Files, NEW c, Contents(W, Kept(W), c)
  PROVE  LogsShrink(size') /\ \A f \in Logs : size'[f] = Kept(W)[f]
BY KeptShrinks DEF Contents

\* CoreState::started writes to no log.
LEMMA StartedRoom ==
  ASSUME CardTyped, RestTyped, NEW W \in SUBSET Files, NEW c, NEW d,
         StartedData(W, Kept(W), c, d, TRUE)
  PROVE  \A f \in Logs : size'[f] = Kept(W)[f]
<1>1. PICK e : size' = [Kept(W) EXCEPT !["Data"] = e.size]
  BY DEF StartedData, Contents
<1> QED
  BY <1>1, LogsTyped, KeptTyped

\* swapLogsIfNecessary empties the log it turns to.
LEMMA LoggingRoom ==
  ASSUME CardTyped, RestTyped, RoomOK, UNCHANGED faults, Logging
  PROVE  RoomOK'
<1>1. UNCHANGED opened /\ opened /\ (LogFails \/ LogGrows)
  BY DEF Logging, WriteLog
<1>2. CASE LogFails
  BY <1>1, <1>2, RoomStays DEF LogFails, cardVars
<1>3. CASE LogGrows /\ ~May("erase") /\ ~May("open")
  <2> DEFINE other == Other(log)
             grown == [size EXCEPT ![log] = @ + 1]
  <2>1. log \in Logs /\ other \in Logs /\ other # log /\ Logs = {log, other}
    BY LogsTyped DEF RestTyped, Other
  <2>2. /\ \A f \in Logs : size[f] \in Nat
        /\ grown[log] = size[log] + 1 /\ grown[other] = size[other] /\ Capacity \in Nat \ {0}
    BY <2>1, LogsTyped, FilesAssumption DEF CardTyped
  <2>3. CASE ~InFinalBlock(log, grown) /\ Contents({}, grown, cursors) /\ UNCHANGED log
    <3>1. size' = grown /\ grown[log] < Capacity
      BY <2>1, <2>2, <2>3 DEF InFinalBlock, Contents
    <3> HIDE DEF grown
    <3>2. size'[log'] < Capacity /\ log' \in Logs /\ size'[log'] \in Nat
      BY <2>1, <2>2, <2>3, <3>1
    <3> QED
      BY <2>2, <3>2 DEF RoomOK
  <2>4. CASE /\ Contents({other}, [grown EXCEPT ![other] = 0], cursors)
             /\ \E ok \in Outcome("open") : log' = IF ok THEN other ELSE log
    <3>1. log' = other
      BY <1>3, <2>4 DEF Outcome
    <3>2. size' = [grown EXCEPT ![other] = 0]
      BY <2>4 DEF Contents
    <3>3. other \in DOMAIN grown
      BY <2>1, LogsTyped DEF CardTyped
    <3>4. size'[other] = 0
      BY <3>2, <3>3
    <3> HIDE DEF other
    <3>5. size'[log'] < Capacity /\ log' \in Logs /\ size'[log'] \in Nat
      BY <2>1, <2>2, <3>1, <3>4
    <3> QED
      BY <2>2, <3>5 DEF RoomOK
  <2> QED
    BY <1>3, <2>3, <2>4 DEF LogGrows
<1>4. CASE May("erase") \/ May("open")
  BY <1>4 DEF RoomOK, May
<1> QED
  BY <1>1, <1>2, <1>3, <1>4

\* FileSystem::setup chooses the log anew.
LEMMA StartingRoom ==
  ASSUME CardTyped, RestTyped, RoomOK, UNCHANGED faults, Starting
  PROVE  RoomOK'
<1>1. PICK W \in SUBSET Files :
        /\ OpenSystemFiles(Kept(W), TRUE)
        /\ \E c, d : StartedData(W, Kept(W), c, d, TRUE)
  <2>1. CASE \E W \in Truncated :
               /\ OpenSystemFiles(Kept(W), TRUE)
               /\ StartedData(W, Kept(W), cursors, DataAfter(W, TRUE), TRUE)
    BY <2>1 DEF Truncated
  <2>2. CASE /\ OpenSystemFiles(Kept(Files), TRUE)
             /\ StartedData(Files, Kept(Files), [f \in Files |-> 0], DataAfter(Files, TRUE), TRUE)
    BY <2>2
  <2> QED
    BY <2>1, <2>2 DEF Starting, StartSystem
<1>2. LogsShrink(Kept(W)) /\ \A f \in Logs : size'[f] = Kept(W)[f]
  BY <1>1, KeptShrinks, StartedRoom
<1> QED
  BY <1>1, <1>2, RoomWhenOpened

\* The erasing queries choose the log anew, or leave the files closed.
LEMMA ErasesRoom ==
  ASSUME CardTyped, RestTyped, RoomOK, UNCHANGED faults,
         EraseNext \/ OpenErased \/ \E f \in Files : EraseFile(f)
  PROVE  RoomOK'
<1>1. CASE \E f \in Files : EraseFile(f)
  <2>1. PICK W \in SUBSET Files, ok \in BOOLEAN :
          Contents(W, Kept(W), cursors) /\ OpenSystemFiles(Kept(W), ok)
    <3>1. PICK f \in Files : Erase(f)
      BY <1>1 DEF EraseFile
    <3>2. PICK erased \in Outcome("erase"), T \in Truncated, ok \in Outcome("open") :
            LET W == T \union (IF erased THEN {f} ELSE {})
            IN Contents(W, Kept(W), cursors) /\ OpenSystemFiles(Kept(W), ok)
      BY <3>1 DEF Erase
    <3>3. T \union (IF erased THEN {f} ELSE {}) \in SUBSET Files /\ ok \in BOOLEAN
      BY <3>2 DEF Truncated, Outcome
    <3> QED
      BY <3>2, <3>3
  <2> QED
    BY <2>1, KeptShrinks, ContentsRoom, RoomWhenOpened
<1>2. CASE EraseNext
  <2> DEFINE f == Head(todo)
  <2>1. PICK erased \in BOOLEAN : EraseClosed(f, erased)
    BY <1>2 DEF EraseNext, Outcome
  <2> HIDE DEF f
  <2>2. opened' = FALSE
    BY <2>1 DEF EraseClosed
  <2>3. \/ UNCHANGED size
        \/ Contents({f}, Kept({f}), cursors) /\ erased /\ f # "System"
    BY <2>1 DEF EraseClosed, Contents, cardVars
  <2>4. CASE UNCHANGED size
    BY <2>2, <2>4, RoomStays
  <2>5. CASE Contents({f}, Kept({f}), cursors)
    <3>1. size' = Kept({f})
      BY <2>5 DEF Contents
    <3>2. LogsShrink(Kept({f}))
      BY LogsTyped DEF LogsShrink, Kept, CardTyped
    <3> QED
      BY <2>2, <3>1, <3>2, RoomShrinks
  <2> QED
    BY <2>3, <2>4, <2>5
<1>3. CASE OpenErased
  <2>1. PICK W \in Truncated, ok \in Outcome("open") :
          /\ OpenSystemFiles(Kept(W), ok)
          /\ IF ok /\ success
             THEN StartedData(W, Kept(W), cursors, DataAfter(W, TRUE), TRUE)
             ELSE Contents(W, Kept(W), cursors) /\ Holds(DataAfter(W, ok))
    BY <1>3 DEF OpenErased
  <2>2. W \in SUBSET Files /\ ok \in BOOLEAN
    BY <2>1 DEF Truncated, Outcome
  <2>3. \A f \in Logs : size'[f] = Kept(W)[f]
    BY <2>1, <2>2, ContentsRoom, StartedRoom
  <2> QED
    BY <2>1, <2>2, <2>3, KeptShrinks, RoomWhenOpened
<1> QED
  BY <1>1, <1>2, <1>3

\* Nothing else writes to a log.
LEMMA OthersRoom ==
  ASSUME CardTyped, RestTyped, RoomOK, UNCHANGED faults,
         \/ Resets \/ Erasing \/ Recording \/ Transmitting
         \/ Accept \/ AppLeaves \/ CloseUnanswered \/ QueryModule \/ QueryModuleEnds
         \/ Inform \/ ResetCursor \/ EraseEverything
         \/ DownloadFails \/ WriteMetadata \/ DownloadDone
         \/ DownloadRecord \/ DownloadEnds \/ DownloadBreaks
         \/ \E f \in Files, o \in Offsets, l \in Lengths : Download(f, o, l)
  PROVE  RoomOK'
<1>2. CASE Resets
  <2>1. opened' = FALSE
    BY <1>2 DEF Resets, Restart, RebootOnErrors, LogCutShort, Reset, Lost
  <2>2. CASE Restart \/ RebootOnErrors
    BY <2>1, <2>2, RoomStays DEF Restart, RebootOnErrors, Reset, cardVars
  <2>3. CASE LogCutShort
    BY <2>1, <2>3 DEF LogCutShort, RoomOK, May
  <2> QED
    BY <1>2, <2>2, <2>3 DEF Resets
<1>3. CASE Erasing
  <2>1. Contents(Files, Kept(Files), [f \in Files |-> 0]) /\ UNCHANGED <<log, opened>>
    BY <1>3 DEF Erasing, FactoryReset
  <2>2. LogsShrink(size')
    BY <2>1, ContentsRoom
  <2>3. log' \in Logs /\ size'[log'] = 0 /\ Capacity \in Nat \ {0}
    BY <2>1, LogsTyped, FilesAssumption DEF RestTyped, Contents, Kept
  <2> QED
    BY <2>2, <2>3, RoomShrinks
<1>4. CASE Recording
  <2>1. UNCHANGED <<log, opened>>
    BY <1>4 DEF Recording, RecordData, Flush
  <2>2. UNCHANGED size \/ \E n : size' = [size EXCEPT !["Data"] = n]
    BY <1>4 DEF Recording, RecordData, Flush, Contents, cardVars
  <2>3. \A f \in Logs : size'[f] = size[f]
    BY <2>2, LogsTyped DEF CardTyped
  <2> QED
    BY <2>1, <2>3, RoomStays
<1>5. CASE Transmitting
  <2>1. UNCHANGED <<size, log, opened>>
    BY <1>5 DEF Transmitting, TransmitNext, StartUploads, NextUpload, OpenFile, UploadRecord,
       UploadEnds, UploadBreaks, Upload, Conclude, GiveUp, ServerAccepts, ServerAnswers,
       LinkDrops, unchangedFiles, cardVars, SaveCursor
  <2> QED
    BY <2>1, RoomStays
<1>6. CASE \/ Accept \/ AppLeaves \/ CloseUnanswered \/ QueryModule \/ QueryModuleEnds
           \/ Inform \/ ResetCursor
  BY <1>6, RoomStays DEF Accept, AppLeaves, CloseUnanswered, QueryModule, QueryModuleEnds,
     Inform, ResetCursor, SaveCursor, fileVars, cardVars, unchangedByDownload
<1>7. CASE EraseEverything
  BY <1>7, RoomStays DEF EraseEverything, cardVars
<1>8. CASE \/ DownloadFails \/ WriteMetadata \/ DownloadDone
           \/ DownloadRecord \/ DownloadEnds \/ DownloadBreaks
           \/ \E f \in Files, o \in Offsets, l \in Lengths : Download(f, o, l)
  BY <1>8, RoomStays DEF DownloadFails, WriteMetadata, DownloadRecord, DownloadEnds,
     DownloadBreaks, DownloadCopies, DownloadDone, Download, unchangedByDownload, cardVars
<1> QED
  BY <1>2, <1>3, <1>4, <1>5, <1>6, <1>7, <1>8

\* Every step keeps it.
LEMMA StepRoom ==
  ASSUME IInv, RoomOK, [Next]_vars
  PROVE  RoomOK'
<1>1. UNCHANGED faults /\ CardTyped /\ RestTyped
  BY StepKeeps, Typing DEF IInv
<1>2. CASE Next
  BY <1>1, <1>2, LoggingRoom, StartingRoom, ErasesRoom, OthersRoom
  DEF Next, Serving, Query, ServiceTask
<1>3. CASE UNCHANGED vars
  BY <1>1, <1>3, RoomStays DEF vars, fileVars, cardVars
<1> QED
  BY <1>2, <1>3

(***************************************************************************)
(* swapLogsIfNecessary and openSystemFiles: the log in use is never in its *)
(* final block, unless an erase or an open may fail, or power failed ahead *)
(* of the swaps and the other log is in its final block too.               *)
(***************************************************************************)
THEOREM LogHasRoomSafe == Spec => []LogHasRoom
<1>1. Init => RoomOK
  <2>1. Init => size["LogsA"] = 0 /\ ~opened
    BY LogsTyped DEF Init, FilesInit
  <2> QED
    BY <2>1, LogsTyped, FilesAssumption DEF RoomOK
<1>2. IInv /\ RoomOK /\ [Next]_vars => RoomOK'
  BY StepRoom
<1>3. IInv /\ RoomOK => LogHasRoom
  <2>1. IInv => log \in Files /\ size \in [Files -> Nat]
    BY LogsTyped DEF IInv, TypeOK, FilesTypeOK
  <2> QED
    BY <2>1, FilesAssumption DEF RoomOK, LogHasRoom, InFinalBlock
<1> QED
  BY <1>1, <1>2, <1>3, Invariance, PTL DEF Spec

-----------------------------------------------------------------------------
\* What the reader has left, and the metadata that has not gone out.
Left == IF download.only THEN 0 ELSE copy.end - copy.tell
Unsent == IF download.metadata \in {"due", "cut"} THEN 1 ELSE 0

\* A download owes what is left of its copy and its metadata; the app's leaving may leave it
\* owing more.  A copy is done before its end if the file is gone or was not opened.
AnnounceOK ==
  current = "WifiDownloadFile" =>
    /\ copy.tell <= copy.end
    /\ download.owed >= Left + Unsent
    /\ app.open =>
         /\ download.owed = Left + Unsent
         /\ download.metadata = "cut" => May("partial")
         /\ ~download.only /\ ~copy.busy => copy.done \/ copy.tell = copy.end
    /\ IF download.file = "begun" THEN copy.whole => ~copy.done
                                 ELSE copy.done /\ copy.tell = 0

\* No download is under way.
LEMMA ElsewhereAnnounced ==
  ASSUME current' # "WifiDownloadFile"
  PROVE  AnnounceOK'
BY DEF AnnounceOK

\* The download does not move.
LEMMA UnchangedAnnounced ==
  ASSUME AnnounceOK, UNCHANGED <<faults, current, download, copy>>, app'.open => app.open
  PROVE  AnnounceOK'
BY DEF AnnounceOK, Left, Unsent, May

\* A swap of the logs may end what is known of the file, and does nothing else.
LEMMA LoggingAnnounced ==
  ASSUME IInv, AnnounceOK, Logging
  PROVE  AnnounceOK'
<1>1. UNCHANGED <<faults, current, download, app>>
  BY DEF Logging, WriteLog, serviceVars, connVars, queryVars
<1>2. copy' = [copy EXCEPT !.whole = @ /\ size'[copy.file] >= size[copy.file]]
  BY DEF Logging, CopyOutlives
<1>3. /\ copy'.tell = copy.tell /\ copy'.end = copy.end /\ copy'.done = copy.done
      /\ copy'.busy = copy.busy /\ (copy'.whole => copy.whole)
  BY <1>2 DEF IInv, TypeOK, TransmitTypeOK
<1> QED
  BY <1>1, <1>3 DEF AnnounceOK, Left, Unsent, May

\* calculateTotalSize is what the reader has left, and the metadata.
LEMMA DownloadAnnounced ==
  ASSUME IInv, NEW f \in Files, NEW o \in Offsets, NEW l \in Lengths, Download(f, o, l)
  PROVE  AnnounceOK'
<1>1. PICK only \in BOOLEAN, metadata \in {"none", "due"}, file \in {"begun", "absent"} :
        /\ IF file = "begun" THEN Began(f, o, l) ELSE NotBegun(f, o, l)
        /\ download' = [only |-> only, metadata |-> metadata, file |-> file,
                        owed |-> Remaining(copy', only) + (IF metadata = "due" THEN 1 ELSE 0)]
  BY DEF Download
<1>2. o \in Nat /\ l \in Nat /\ CardTyped
  BY DownloadAssumption, Typing DEF IInv
<1>3. /\ download'.only = only /\ download'.file = file
      /\ Left' = (IF only THEN 0 ELSE copy'.end - copy'.tell)
      /\ Unsent' = (IF metadata = "due" THEN 1 ELSE 0) /\ download'.metadata # "cut"
      /\ download'.owed = Left' + Unsent'
  BY <1>1 DEF Remaining, Left, Unsent
<1>4. CASE file = "absent"
  <2>1. CopyTyped' /\ copy'.tell = 0 /\ copy'.end \in Nat /\ copy'.done
    BY <1>1, <1>2, <1>4, NotBegunTyped
  <2>2. copy'.tell <= copy'.end /\ Left' \in Int /\ Unsent' \in Int
    BY <1>3, <2>1
  <2> QED
    BY <1>3, <1>4, <2>1, <2>2 DEF AnnounceOK
<1>5. CASE file = "begun"
  <2>1. /\ copy' = [file |-> f, tell |-> o, end |-> End(f, o, l),
                    done |-> FALSE, busy |-> TRUE, whole |-> TRUE]
        /\ o <= End(f, o, l) /\ CopyTyped'
    BY <1>1, <1>2, <1>5, BeganTyped
  <2>2. Left' \in Int /\ Unsent' \in Int
    BY <1>3, <2>1 DEF CopyTyped
  <2> QED
    BY <1>3, <1>5, <2>1, <2>2 DEF AnnounceOK
<1> QED
  BY <1>4, <1>5

\* The metadata is sent, or it is cut and still owed.
LEMMA MetadataAnnounced ==
  ASSUME IInv, AnnounceOK, WriteMetadata
  PROVE  AnnounceOK'
<1>1. /\ UNCHANGED <<faults, current, copy, app>> /\ download.metadata = "due"
      /\ \/ app.open /\ download' = [download EXCEPT !.metadata = "sent", !.owed = @ - 1]
         \/ (~app.open \/ May("partial")) /\ download' = [download EXCEPT !.metadata = "cut"]
  BY DEF WriteMetadata, unchangedByDownload, connVars
<1>2. /\ download \in Downloads /\ download.owed \in Int
      /\ copy.tell \in Nat /\ copy.end \in Nat
  BY DEF IInv, TypeOK, ServiceTypeOK, TransmitTypeOK, Downloads
<1>3. /\ download'.only = download.only /\ download'.file = download.file
      /\ \/ app.open /\ download'.metadata = "sent" /\ download'.owed = download.owed - 1
         \/ /\ ~app.open \/ May("partial")
            /\ download'.metadata = "cut" /\ download'.owed = download.owed
  BY <1>1, <1>2 DEF Downloads
<1>4. Unsent = 1 /\ Left \in Int /\ Left' = Left
      /\ Unsent' = IF download'.metadata = "cut" THEN 1 ELSE 0
  BY <1>1, <1>2, <1>3 DEF Left, Unsent
<1> QED
  BY <1>1, <1>2, <1>3, <1>4 DEF AnnounceOK, May

\* What is sent is no longer owed.
LEMMA CopiesAnnounced ==
  ASSUME IInv, AnnounceOK, DownloadRecord \/ DownloadEnds \/ DownloadBreaks
  PROVE  AnnounceOK'
<1>1. /\ UNCHANGED <<faults, current, app>>
      /\ CopyRecord(app.open) \/ CopyEnds(app.open) \/ CopyBreaks(app.open)
      /\ download' = [download EXCEPT !.owed = @ - (IF app.open THEN copy'.tell - copy.tell ELSE 0)]
      /\ current = "WifiDownloadFile" /\ ~download.only
  BY DEF DownloadRecord, DownloadEnds, DownloadBreaks, DownloadCopies, Downloading, connVars,
     unchangedByDownload
<1>2. TransmitTypeOK /\ app.open \in BOOLEAN /\ copy.tell \in Nat /\ copy.end \in Nat
      /\ download \in Downloads /\ download.owed \in Int
  BY DEF IInv, TypeOK, TransmitTypeOK, ServiceTypeOK, Downloads
<1>3. /\ copy'.end = copy.end /\ copy'.whole = copy.whole
      /\ copy'.tell = copy.tell \/ copy'.tell = copy.tell + 1
      /\ copy.tell <= copy.end => copy'.tell <= copy.end
  BY <1>1, <1>2, CopyStepTyped
<1> DEFINE sent == IF app.open THEN copy'.tell - copy.tell ELSE 0
<1>4. /\ UNCHANGED <<download.only, download.file, download.metadata>>
      /\ download'.owed = download.owed - sent
  BY <1>1, <1>2 DEF Downloads
<1>5. /\ copy.tell <= copy.end /\ download.owed >= Left + Unsent
      /\ app.open => download.owed = Left + Unsent
      /\ app.open /\ download.metadata = "cut" => May("partial")
      /\ app.open /\ ~copy.busy => copy.done \/ copy.tell = copy.end
      /\ IF download.file = "begun" THEN copy.whole => ~copy.done
                                   ELSE copy.done /\ copy.tell = 0
  BY <1>1 DEF AnnounceOK
<1>6. Unsent' = Unsent /\ Unsent \in {0, 1}
      /\ Left = copy.end - copy.tell /\ Left' = copy.end - copy'.tell
  BY <1>1, <1>3, <1>4 DEF Left, Unsent
<1>7. /\ copy'.tell <= copy'.end
      /\ download'.owed >= Left' + Unsent'
      /\ app'.open => download'.owed = Left' + Unsent'
      /\ app'.open /\ download'.metadata = "cut" => May("partial")'
  BY <1>1, <1>2, <1>3, <1>4, <1>5, <1>6 DEF May
<1>8. /\ app'.open /\ ~copy'.busy => copy'.done \/ copy'.tell = copy'.end
      /\ IF download'.file = "begun" THEN copy'.whole => ~copy'.done
                                    ELSE copy'.done /\ copy'.tell = 0
  <2>2. CASE CopyRecord(app.open)
    <3>1. /\ copy.busy /\ ~copy.done
          /\ \/ copy' = [copy EXCEPT !.tell = @ + 1]
             \/ ~copy.whole /\ copy' = [copy EXCEPT !.done = TRUE]
      BY <2>2 DEF CopyRecord
    <3>2. /\ copy'.busy
          /\ copy'.done => ~copy'.whole
      BY <1>2, <3>1 DEF TransmitTypeOK
    <3> QED
      BY <1>4, <1>5, <3>1, <3>2
  <2>3. CASE CopyEnds(app.open)
    <3>1. copy' = [copy EXCEPT !.busy = FALSE] /\ (copy.done \/ copy.tell = copy.end)
      BY <2>3 DEF CopyEnds
    <3>2. copy'.tell = copy.tell /\ copy'.done = copy.done
      BY <1>2, <3>1 DEF TransmitTypeOK
    <3> QED
      BY <1>3, <1>4, <1>5, <3>1, <3>2
  <2>4. CASE CopyBreaks(app.open)
    <3>1. ~app.open /\ ~app'.open
      BY <1>1, <2>4 DEF CopyBreaks
    <3>2. copy'.done = copy.done /\ (copy.done => copy'.tell = copy.tell)
      BY <1>2, <2>4 DEF CopyBreaks, TransmitTypeOK
    <3> QED
      BY <1>3, <1>4, <1>5, <3>1, <3>2
  <2> QED
    BY <1>1, <2>2, <2>3, <2>4
<1> HIDE DEF sent
<1> QED
  BY <1>7, <1>8 DEF AnnounceOK

\* Every step keeps it.
LEMMA StepAnnounced ==
  ASSUME IInv, AnnounceOK, [Next]_vars
  PROVE  AnnounceOK'
<1>1. CASE \/ Resets \/ Accept \/ CloseUnanswered \/ Inform \/ QueryModule \/ QueryModuleEnds
           \/ ResetCursor \/ OpenErased \/ DownloadFails \/ DownloadDone \/ Starting
  BY <1>1, ElsewhereAnnounced DEF Resets, Restart, RebootOnErrors, LogCutShort, Reset, Lost,
     Accept, CloseUnanswered, Inform, QueryModule, QueryModuleEnds, ResetCursor, OpenErased,
     DownloadFails, DownloadDone, Starting, StartSystem, Completed
<1>2. CASE \/ EraseEverything \/ EraseNext \/ \E f \in Files : EraseFile(f)
  BY <1>2, ElsewhereAnnounced DEF EraseEverything, EraseNext, NextStep, EraseFile, Listening
<1>3. CASE Erasing \/ Recording
  BY <1>3, UnchangedAnnounced DEF Erasing, FactoryReset, Recording, RecordData, Flush,
     transmitVars, serviceVars, connVars, queryVars
<1>4. CASE AppLeaves
  BY <1>4, UnchangedAnnounced DEF AppLeaves, fileVars, transmitVars, queryVars, IInv, TypeOK,
     ServiceTypeOK
<1>5. CASE Transmitting
  BY <1>5, ElsewhereAnnounced DEF Transmitting, TransmitNext, StartUploads, NextUpload, OpenFile,
     UploadRecord, UploadEnds, UploadBreaks, Upload, Conclude, GiveUp, ServerAccepts,
     ServerAnswers, LinkDrops, Uploading, Leave, Connect
<1>6. CASE UNCHANGED vars
  BY <1>6, UnchangedAnnounced DEF vars, fileVars, transmitVars, serviceVars, connVars, queryVars
<1> QED
  BY <1>1, <1>2, <1>3, <1>4, <1>5, <1>6, LoggingAnnounced, DownloadAnnounced, MetadataAnnounced,
     CopiesAnnounced
  DEF Next, Serving, Query, ServiceTask

(***************************************************************************)
(* DownloadFileTask: a download never sends more than its header announced *)
(* and, if it ends while the app is there, has sent as much, but for       *)
(* metadata the socket did not take, a log that the swap erased, and a     *)
(* file whose copy did not begin, of which nothing is sent.                *)
(***************************************************************************)
THEOREM AnnouncedIsSentSafe == Spec => []AnnouncedIsSent
<1>1. Init => AnnounceOK
  BY DEF Init, FilesInit, AnnounceOK
<1>2. IInv /\ AnnounceOK /\ [Next]_vars => AnnounceOK'
  BY StepAnnounced
<1>3. IInv /\ AnnounceOK => AnnouncedIsSent
  <2>1. ASSUME IInv, AnnounceOK, current = "WifiDownloadFile"
        PROVE  AnnouncedIsSent
    <3>1. /\ copy.tell \in Nat /\ copy.end \in Nat /\ download.owed \in Int
          /\ download.metadata \in {"none", "due", "sent", "cut"}
          /\ download.file \in {"begun", "absent"}
      BY <2>1 DEF IInv, TypeOK, TransmitTypeOK, ServiceTypeOK
    <3>2. /\ copy.tell <= copy.end => Left >= 0 /\ Left \in Int
          /\ download.only \/ copy.tell = copy.end => Left = 0
          /\ download.metadata # "due" => Unsent = IF download.metadata = "cut" THEN 1 ELSE 0
          /\ Unsent \in {0, 1}
      BY <3>1 DEF Left, Unsent
    <3>3. download.owed >= 0
      BY <2>1, <3>1, <3>2 DEF AnnounceOK
    <3>4. ASSUME DownloadOver, app.open
          PROVE  /\ download.metadata = "cut" => May("partial")
                 /\ \/ download.owed = (IF download.metadata = "cut" THEN 1 ELSE 0)
                    \/ ~copy.whole
                    \/ download.file = "absent" /\ copy.tell = 0
      <4>1. download.metadata # "due" /\ (download.only \/ ~copy.busy)
        BY <3>4 DEF DownloadOver, Downloading
      <4>2. CASE Left = 0
        BY <2>1, <3>1, <3>2, <3>4, <4>1, <4>2 DEF AnnounceOK
      <4>3. CASE Left # 0
        <5>1. copy.done
          BY <2>1, <3>2, <3>4, <4>1, <4>3 DEF AnnounceOK
        <5> QED
          BY <2>1, <3>1, <3>4, <5>1 DEF AnnounceOK
      <4> QED
        BY <4>2, <4>3
    <3> QED
      BY <3>3, <3>4 DEF AnnouncedIsSent
  <2>2. current # "WifiDownloadFile" => AnnouncedIsSent
    BY DEF AnnouncedIsSent
  <2> QED
    BY <2>1, <2>2
<1> QED
  BY <1>1, <1>2, <1>3, Invariance, PTL DEF Spec

-----------------------------------------------------------------------------
\* The fault kinds that may separate a file from its cursor.
Trouble == \E kind \in {"erase", "open", "system", "restart", "early"} : May(kind)

\* What eraseAll may have left to do.
Todos ==
  {EraseAll, <<"LogsA", "LogsB", "Data", "open">>, <<"LogsB", "Data", "open">>,
   <<"Data", "open">>, <<"open">>, <<>>}

\* An erasing query is at work in AppServicer only, one at a time, and has cleared the
\* cursors before it erases a file.
QueryOK ==
  /\ erasing # "none" \/ todo # <<>> => current = "AppServicer"
  /\ todo # <<>> => erasing = "none"
  /\ todo \in Todos
  /\ todo \notin {<<>>, EraseAll} => cursors["Data"] = 0

\* An upload of the data file knows the content it opened, and believes only a server
\* that has the request.
UploadSure ==
  upload.connected /\ upload.file = "Data" =>
    copy.whole /\ (status = 200 => upload.accepted)

\* Without those faults the data file is in doubt only between its erase and the reset of
\* its cursor.
DoubtInv ==
  Trouble \/ (QueryOK /\ UploadSure /\ ("Data" \in doubtful => erasing = "Data"))

\* A behaviour keeps its fault kinds.
LEMMA TroubleStays ==
  ASSUME UNCHANGED faults
  PROVE  Trouble' <=> Trouble
BY DEF Trouble, May

\* Actions that neither erase the data file nor take part in a query.
LEMMA CalmDoubt ==
  ASSUME DoubtInv, UNCHANGED <<faults, erasing, todo>>,
         "Data" \in doubtful' => "Data" \in doubtful,
         cursors'["Data"] \in {cursors["Data"], 0},
         (erasing # "none" \/ todo # <<>>) /\ current = "AppServicer" => current' = "AppServicer",
         UploadSure => UploadSure'
  PROVE  DoubtInv'
BY TroubleStays DEF DoubtInv, QueryOK

\* The upload does not move.
LEMMA UploadStays ==
  ASSUME UNCHANGED upload, UNCHANGED <<copy, status>> \/ ~upload.connected
  PROVE  UploadSure => UploadSure'
BY DEF UploadSure

\* Contents brings no doubt over a data file that stays, or whose cursor goes with it.
LEMMA ContentsDoubt ==
  ASSUME NEW W \in SUBSET Files, NEW s, NEW c, Contents(W, s, c), "Data" \notin W \/ c["Data"] = 0,
         c = cursors \/ c = [f \in Files |-> 0]
  PROVE  /\ "Data" \in doubtful' => "Data" \in doubtful
         /\ cursors'["Data"] \in {cursors["Data"], 0}
BY LogsTyped DEF Contents, Files

\* RebootOnErrors waits for Idle, where no query is at work.
LEMMA ResetsDoubt ==
  ASSUME IInv, DoubtInv, UNCHANGED faults, Resets
  PROVE  DoubtInv'
<1>1. CASE Restart
  BY <1>1, TroubleStays DEF Restart, Trouble, DoubtInv
<1>2. CASE LogCutShort
  BY <1>2, TroubleStays DEF LogCutShort, Trouble, DoubtInv
<1>3. CASE RebootOnErrors /\ Ended
  <2>1. /\ current = "Resting" /\ UNCHANGED cardVars
        /\ erasing' = "none" /\ todo' = <<>> /\ upload' = NoUpload
    BY <1>3 DEF RebootOnErrors, Reset, Lost, Ended
  <2> QED
    BY <2>1, TroubleStays DEF DoubtInv, QueryOK, UploadSure, NoUpload, cardVars, Todos
<1> QED
  BY <1>1, <1>2, <1>3 DEF Resets

\* The logs are not the data file.
LEMMA LoggingDoubt ==
  ASSUME IInv, DoubtInv, UNCHANGED faults, Logging
  PROVE  DoubtInv'
<1>1. /\ UNCHANGED <<current, erasing, todo, upload, status>>
      /\ LogFails \/ LogGrows
      /\ copy' = [copy EXCEPT !.whole = @ /\ size'[copy.file] >= size[copy.file]]
  BY DEF Logging, WriteLog, CopyOutlives, serviceVars, connVars, queryVars
<1>2. CardTyped /\ log \in Logs /\ Other(log) \in Logs /\ Logs \subseteq Files /\ "Data" \notin Logs
  BY Typing, LogsTyped DEF IInv, RestTyped, Other
<1>3. /\ "Data" \in doubtful' => "Data" \in doubtful
      /\ cursors'["Data"] = cursors["Data"] /\ size'["Data"] = size["Data"]
  <2>1. CASE LogFails
    BY <2>1 DEF LogFails, cardVars
  <2>2. CASE LogGrows
    <3> DEFINE grown == [size EXCEPT ![log] = @ + 1]
               other == Other(log)
    <3>1. grown["Data"] = size["Data"] /\ [grown EXCEPT ![other] = 0]["Data"] = size["Data"]
      BY <1>2 DEF CardTyped, Files
    <3>2. CASE Contents({}, grown, cursors)
      BY <1>2, <3>1, <3>2 DEF Contents
    <3>3. CASE Contents({other}, [grown EXCEPT ![other] = 0], cursors)
      BY <1>2, <3>1, <3>3 DEF Contents
    <3> QED
      BY <2>2, <3>2, <3>3 DEF LogGrows
  <2> QED
    BY <1>1, <2>1, <2>2
<1>4. UploadSure => UploadSure'
  <2>1. SUFFICES ASSUME UploadSure, upload.connected, upload.file = "Data"
                 PROVE  copy'.whole /\ (status = 200 => upload.accepted)
    BY <1>1 DEF UploadSure
  <2>2. copy.whole /\ copy.file = "Data" /\ (status = 200 => upload.accepted)
    BY <2>1 DEF UploadSure, IInv, UploadOK
  <2>3. size["Data"] \in Nat
    BY <1>2 DEF CardTyped, Files
  <2>4. copy.whole /\ size'[copy.file] >= size[copy.file] => copy'.whole
    BY <1>1 DEF IInv, TypeOK, TransmitTypeOK
  <2>5. size'["Data"] >= size["Data"]
    BY <1>3, <2>3
  <2> QED
    BY <2>2, <2>4, <2>5
<1> QED
  BY <1>1, <1>3, <1>4, CalmDoubt

\* A start, a factory reset and the recording of data.
LEMMA CoreDoubt ==
  ASSUME IInv, DoubtInv, UNCHANGED faults, Starting \/ Erasing \/ Recording
  PROVE  DoubtInv'
<1>1. /\ UNCHANGED <<erasing, todo, upload, copy, status>> /\ current # "AppServicer"
  BY DEF Starting, StartSystem, Erasing, FactoryReset, Recording, RecordData, Flush,
     transmitVars, serviceVars, queryVars
<1>2. CASE Trouble
  BY <1>2, TroubleStays DEF DoubtInv
<1>3. CASE ~Trouble
  <2>1. /\ "Data" \in doubtful' => "Data" \in doubtful
        /\ cursors'["Data"] \in {cursors["Data"], 0}
    <3>1. CASE Starting
      <4>1. CASE \E W \in Truncated : StartedData(W, Kept(W), cursors, DataAfter(W, TRUE), TRUE)
        <5>1. PICK s : Contents({}, s, cursors)
          BY <1>3, <4>1 DEF Truncated, StartedData, Trouble
        <5> QED
          BY <5>1, ContentsDoubt
      <4>2. CASE StartedData(Files, Kept(Files), [f \in Files |-> 0], DataAfter(Files, TRUE), TRUE)
        <5>1. PICK s : Contents(Files, s, [f \in Files |-> 0])
          BY <4>2 DEF StartedData
        <5> QED
          BY <5>1, ContentsDoubt DEF Files
      <4> QED
        BY <3>1, <4>1, <4>2 DEF Starting, StartSystem
    <3>2. CASE Erasing
      BY <3>2, ContentsDoubt DEF Erasing, FactoryReset, Files
    <3>3. CASE Recording
      <4>1. UNCHANGED cardVars \/ \E s : Contents({}, s, cursors)
        BY <3>3 DEF Recording, RecordData, Flush
      <4> QED
        BY <4>1, ContentsDoubt DEF cardVars
    <3> QED
      BY <3>1, <3>2, <3>3
  <2> QED
    BY <1>1, <2>1, CalmDoubt, UploadStays
<1> QED
  BY <1>2, <1>3

\* The position is saved only when the server has the request.
LEMMA ConcludesDoubt ==
  ASSUME IInv, DoubtInv, ~Trouble, UNCHANGED faults, Conclude, UNCHANGED serviceVars
  PROVE  DoubtInv'
<1>1. /\ UNCHANGED <<erasing, todo>> /\ current = "WifiTransmitFile" /\ upload.connected
      /\ QueryOK /\ UploadSure /\ UploadOK
      /\ "Data" \in doubtful => erasing = "Data"
  BY DEF Conclude, Uploading, serviceVars, queryVars, DoubtInv, IInv
<1>2. erasing = "none" /\ todo = <<>> /\ "Data" \notin doubtful
  BY <1>1 DEF QueryOK
<1>3. ~upload'.connected
  <2>1. \/ upload' = NoUpload
        \/ upload' = [NoUpload EXCEPT !.file = upload.file, !.tries = upload.tries + 1]
    BY DEF Conclude, Leave
  <2>2. \E f, n : upload' = [file |-> f, tries |-> n, connected |-> FALSE, start |-> 0,
                             accepted |-> FALSE]
    BY <2>1 DEF NoUpload
  <2> QED
    BY <2>2
<1>4. "Data" \notin doubtful'
  <2>1. CASE UNCHANGED cardVars
    BY <1>2, <2>1 DEF cardVars
  <2>2. CASE status = 200 /\ SaveCursor(upload.file, copy.tell, copy.whole /\ upload.accepted)
    <3>1. upload.file = "Data" => copy.whole /\ upload.accepted
      BY <1>1, <2>2 DEF UploadSure
    <3> QED
      BY <1>2, <2>2, <3>1 DEF SaveCursor
  <2> QED
    BY <2>1, <2>2 DEF Conclude
<1> QED
  BY <1>1, <1>2, <1>3, <1>4 DEF DoubtInv, QueryOK, UploadSure, Todos

\* Every step of an upload.
LEMMA TransmitsDoubt ==
  ASSUME IInv, DoubtInv, UNCHANGED faults, Transmitting
  PROVE  DoubtInv'
<1>1. UNCHANGED <<erasing, todo>> /\ UNCHANGED serviceVars
  BY DEF Transmitting, serviceVars, queryVars
<1>2. CASE Trouble
  BY <1>2, TroubleStays DEF DoubtInv
<1>3. CASE StartUploads \/ NextUpload
  <2>1. /\ UNCHANGED cardVars /\ current # "AppServicer" /\ UNCHANGED <<copy, status>>
        /\ UNCHANGED upload \/ ~upload'.connected
    BY <1>3 DEF StartUploads, NextUpload, NoUpload, transmitVars
  <2> QED
    BY <1>1, <2>1, CalmDoubt DEF cardVars, UploadSure
<1>4. CASE OpenFile
  <2>1. UNCHANGED cardVars /\ current # "AppServicer"
    BY <1>4 DEF OpenFile, Uploading
  <2>2. UploadSure'
    <3>1. CASE Leave
      BY <3>1 DEF Leave, NoUpload, UploadSure
    <3>2. ASSUME NEW position, Began(upload.file, position, 0), Connect(position)
          PROVE  UploadSure'
      BY <3>2 DEF Began, Connect, UploadSure
    <3> QED
      BY <1>4, <3>1, <3>2 DEF OpenFile
  <2> QED
    BY <1>1, <2>1, <2>2, CalmDoubt DEF cardVars
<1>5. CASE UploadRecord \/ UploadEnds \/ UploadBreaks
  <2>1. /\ UNCHANGED <<cardVars, current, upload, status>>
        /\ CopyRecord(link) \/ CopyEnds(link) \/ CopyBreaks(link)
    BY <1>5 DEF UploadRecord, UploadEnds, UploadBreaks, Upload
  <2>2. copy'.whole = copy.whole
    BY <2>1, CopyStepTyped DEF IInv, TypeOK, TransmitTypeOK
  <2> QED
    BY <1>1, <2>1, <2>2, CalmDoubt DEF cardVars, UploadSure
<1>6. CASE ~Trouble /\ (GiveUp \/ ServerAccepts \/ ServerAnswers \/ LinkDrops)
  <2>1. UNCHANGED <<cursors, doubtful, current, copy>>
    BY <1>6 DEF GiveUp, ServerAccepts, ServerAnswers, LinkDrops, cardVars
  <2>2. UploadSure => UploadSure'
    <3>1. CASE ServerAccepts
      <4>1. upload'.file = upload.file /\ upload'.accepted /\ upload'.connected = upload.connected
        BY <3>1 DEF ServerAccepts, IInv, TypeOK, TransmitTypeOK
      <4> QED
        BY <2>1, <4>1 DEF UploadSure
    <3>2. CASE ServerAnswers
      <4>1. UNCHANGED upload /\ status' = 500
        BY <1>6, <3>2 DEF ServerAnswers, Trouble
      <4> QED
        BY <2>1, <4>1 DEF UploadSure
    <3>3. CASE GiveUp \/ LinkDrops
      BY <2>1, <3>3, UploadStays DEF GiveUp, LinkDrops
    <3> QED
      BY <1>6, <3>1, <3>2, <3>3
  <2> QED
    BY <1>1, <2>1, <2>2, CalmDoubt
<1> QED
  BY <1>1, <1>2, <1>3, <1>4, <1>5, <1>6, ConcludesDoubt DEF Transmitting, TransmitNext

\* Queries that change no file.
LEMMA ServesDoubt ==
  ASSUME IInv, DoubtInv, UNCHANGED faults,
         \/ Accept \/ AppLeaves \/ CloseUnanswered \/ Inform \/ QueryModule \/ QueryModuleEnds
         \/ DownloadFails \/ WriteMetadata \/ DownloadDone
         \/ DownloadRecord \/ DownloadEnds \/ DownloadBreaks
         \/ \E f \in Files, o \in Offsets, l \in Lengths : Download(f, o, l)
  PROVE  DoubtInv'
<1>1. UNCHANGED <<cardVars, erasing, todo, upload, status>>
  BY DEF Accept, AppLeaves, CloseUnanswered, Inform, QueryModule, QueryModuleEnds, DownloadFails,
     WriteMetadata, DownloadRecord, DownloadEnds, DownloadBreaks, DownloadCopies, DownloadDone,
     Download, unchangedByDownload, transmitVars, queryVars, fileVars
<1>2. \/ UNCHANGED current
      \/ current # "AppServicer" \/ (todo = <<>> /\ erasing = "none")
  BY DEF Accept, AppLeaves, CloseUnanswered, Inform, QueryModule, QueryModuleEnds, DownloadFails,
     WriteMetadata, DownloadRecord, DownloadEnds, DownloadBreaks, DownloadCopies, DownloadDone,
     DownloadOver, Downloading, Download, Listening, fileVars, unchangedByDownload
<1>3. UNCHANGED copy \/ ~upload.connected
  <2>1. UNCHANGED copy \/ current # "WifiTransmitFile"
    BY DEF Accept, AppLeaves, CloseUnanswered, Inform, QueryModule, QueryModuleEnds, DownloadFails,
       WriteMetadata, DownloadRecord, DownloadEnds, DownloadBreaks, DownloadCopies, DownloadDone,
       DownloadOver, Downloading, Download, Listening, transmitVars, unchangedByDownload
  <2> QED
    BY <2>1 DEF IInv, UploadOK
<1>4. UploadSure => UploadSure'
  BY <1>1, <1>3, UploadStays
<1> QED
  BY <1>1, <1>2, <1>4, CalmDoubt DEF cardVars

\* eraseFileReply, first half: the file is in doubt, and its cursor next.
LEMMA EraseFileDoubts ==
  ASSUME IInv, DoubtInv, ~Trouble, UNCHANGED faults, NEW f \in Files, EraseFile(f)
  PROVE  DoubtInv'
<1>1. /\ UNCHANGED <<current, upload, copy, status, todo>> /\ erasing' = f
      /\ current = "AppServicer" /\ todo = <<>> /\ erasing = "none"
  BY DEF EraseFile, Listening, transmitVars
<1>2. QueryOK /\ UploadSure /\ "Data" \notin doubtful
  BY <1>1 DEF DoubtInv, Files, Logs
<1>3. Contents({f}, Kept({f}), cursors)
  <2>1. ~May("erase") /\ ~May("open")
    BY DEF Trouble
  <2> QED
    BY <2>1 DEF EraseFile, Erase, Outcome, Truncated
<1>4. "Data" \in doubtful' => f = "Data"
  BY <1>2, <1>3 DEF Contents
<1>5. QueryOK'
  BY <1>1 DEF QueryOK, Todos
<1>6. UploadSure'
  BY <1>1, <1>2 DEF UploadSure
<1> QED
  BY <1>1, <1>4, <1>5, <1>6 DEF DoubtInv

\* eraseFileReply, second half: the cursor is at 0.
LEMMA ResetCursorDoubts ==
  ASSUME IInv, DoubtInv, ~Trouble, UNCHANGED faults, ResetCursor
  PROVE  DoubtInv'
<1>1. /\ UNCHANGED <<upload, copy, status, todo>> /\ erasing' = "none" /\ erasing # "none"
      /\ QueryOK /\ UploadSure /\ SaveCursor(erasing, 0, TRUE)
      /\ "Data" \in doubtful => erasing = "Data"
  BY DEF ResetCursor, DoubtInv, transmitVars
<1>2. todo = <<>> /\ erasing \in Files
  BY <1>1 DEF QueryOK, IInv, TypeOK, ServiceTypeOK
<1>3. "Data" \notin doubtful'
  <2>1. PICK c \in SavedCursors(erasing, 0) : doubtful' = {g \in doubtful : c[g] > 0}
    BY <1>1 DEF SaveCursor
  <2>2. c[erasing] = 0
    BY <1>2, <2>1 DEF SavedCursors, Trouble, IInv, TypeOK, FilesTypeOK
  <2> QED
    BY <1>1, <2>1, <2>2
<1>4. UploadSure'
  BY <1>1 DEF UploadSure
<1> QED
  BY <1>1, <1>2, <1>3, <1>4 DEF DoubtInv, QueryOK, Todos

\* eraseAll begins.
LEMMA EraseEverythingDoubts ==
  ASSUME IInv, DoubtInv, ~Trouble, UNCHANGED faults, EraseEverything
  PROVE  DoubtInv'
<1>1. /\ UNCHANGED <<current, cardVars, upload, copy, status, erasing>> /\ todo' = EraseAll
      /\ current = "AppServicer" /\ erasing = "none"
  BY DEF EraseEverything, Listening, transmitVars
<1>2. UploadSure /\ "Data" \notin doubtful
  BY <1>1 DEF DoubtInv, Files, Logs
<1>3. QueryOK'
  BY <1>1 DEF QueryOK, Todos
<1>4. UploadSure'
  BY <1>1, <1>2 DEF UploadSure
<1> QED
  BY <1>1, <1>2, <1>3, <1>4 DEF DoubtInv, cardVars

\* eraseAll erases the cursors before any file.
LEMMA EraseNextDoubts ==
  ASSUME IInv, DoubtInv, ~Trouble, UNCHANGED faults, EraseNext
  PROVE  DoubtInv'
<1>1. /\ UNCHANGED <<current, upload, copy, status, erasing>> /\ todo' = Tail(todo)
      /\ current = "AppServicer" /\ todo # <<>> /\ Head(todo) # "open"
  BY DEF EraseNext, NextStep, transmitVars
<1>2. /\ erasing = "none" /\ UploadSure /\ "Data" \notin doubtful /\ todo \in Todos
      /\ todo # EraseAll => cursors["Data"] = 0
  BY <1>1 DEF DoubtInv, QueryOK, Files, Logs
<1>3. EraseClosed(Head(todo), TRUE)
  <2>1. Outcome("erase") = {TRUE}
    BY DEF Outcome, Trouble
  <2> QED
    BY <2>1 DEF EraseNext
<1>4. /\ Head(todo) = "System" => cursors' = [g \in Files |-> 0] /\ doubtful' \subseteq doubtful
      /\ Head(todo) # "System" =>
           /\ cursors' = cursors
           /\ doubtful' = {g \in doubtful \union {Head(todo)} : cursors[g] > 0}
  BY <1>3 DEF EraseClosed, Contents
<1>5. /\ Tail(todo) \in Todos /\ Tail(todo) # EraseAll
      /\ todo = EraseAll <=> Head(todo) = "System"
  <2>1. CASE todo = EraseAll
    BY <2>1 DEF Todos, EraseAll
  <2>2. CASE todo = <<"LogsA", "LogsB", "Data", "open">>
    BY <2>2 DEF Todos, EraseAll
  <2>3. CASE todo = <<"LogsB", "Data", "open">>
    BY <2>3 DEF Todos, EraseAll
  <2>4. CASE todo = <<"Data", "open">>
    BY <2>4 DEF Todos, EraseAll
  <2>5. todo # <<"open">>
    BY <1>1
  <2> QED
    BY <1>1, <1>2, <2>1, <2>2, <2>3, <2>4, <2>5 DEF Todos
<1>6. cursors'["Data"] = 0 /\ "Data" \notin doubtful'
  BY <1>2, <1>4, <1>5 DEF Files
<1>7. UploadSure'
  BY <1>1, <1>2 DEF UploadSure
<1>8. QueryOK'
  BY <1>1, <1>2, <1>5, <1>6 DEF QueryOK
<1> QED
  BY <1>6, <1>7, <1>8 DEF DoubtInv

\* eraseAll ends.
LEMMA OpenErasedDoubts ==
  ASSUME IInv, DoubtInv, ~Trouble, UNCHANGED faults, OpenErased
  PROVE  DoubtInv'
<1>1. /\ UNCHANGED <<upload, copy, status, erasing>> /\ todo' = Tail(todo)
      /\ todo # <<>> /\ Head(todo) = "open"
  BY DEF OpenErased, NextStep, transmitVars
<1>2. erasing = "none" /\ UploadSure /\ "Data" \notin doubtful /\ todo \in Todos
  BY <1>1 DEF DoubtInv, QueryOK, Files, Logs
<1>3. todo' = <<>>
  BY <1>1, <1>2 DEF Todos, EraseAll
<1>4. \E s : Contents({}, s, cursors)
  <2>1. Truncated = {{}}
    BY DEF Truncated, Trouble
  <2> QED
    BY <2>1 DEF OpenErased, StartedData
<1>5. "Data" \notin doubtful'
  BY <1>2, <1>4 DEF Contents
<1>6. UploadSure'
  BY <1>1, <1>2 DEF UploadSure
<1>7. QueryOK'
  BY <1>1, <1>2, <1>3 DEF QueryOK, Todos
<1> QED
  BY <1>5, <1>6, <1>7 DEF DoubtInv

\* Every step keeps it.
LEMMA StepDoubts ==
  ASSUME IInv, DoubtInv, [Next]_vars
  PROVE  DoubtInv'
<1>1. UNCHANGED faults
  BY StepKeeps
<1>2. CASE Trouble
  BY <1>1, <1>2, TroubleStays DEF DoubtInv
<1>3. CASE UNCHANGED vars
  BY <1>1, <1>3, CalmDoubt, UploadStays DEF vars, fileVars, cardVars, transmitVars, serviceVars,
     queryVars
<1>4. CASE ~Trouble /\ Next
  BY <1>1, <1>4, ResetsDoubt, LoggingDoubt, CoreDoubt, TransmitsDoubt, ServesDoubt,
     EraseFileDoubts, ResetCursorDoubts, EraseEverythingDoubts, EraseNextDoubts, OpenErasedDoubts
  DEF Next, Serving, Query, ServiceTask
<1> QED
  BY <1>2, <1>3, <1>4

(***************************************************************************)
(* eraseFileReply, eraseAll, the format at the start and TransmitFileTask  *)
(* together: no cursor of the data file outlives the data it was about,    *)
(* unless one of those faults may come between the erase and the cursor.   *)
(***************************************************************************)
THEOREM DataInDoubtSafe == Spec => []DataInDoubt
<1>1. Init => DoubtInv
  <2>1. Init => doubtful = {} /\ erasing = "none" /\ todo = <<>> /\ upload = NoUpload
    BY DEF Init, FilesInit, ServiceInit, TransmitInit
  <2> QED
    BY <2>1 DEF DoubtInv, QueryOK, Todos, UploadSure, NoUpload
<1>2. IInv /\ DoubtInv /\ [Next]_vars => DoubtInv'
  BY StepDoubts
<1>3. DoubtInv => DataInDoubt
  BY DEF DoubtInv, DataInDoubt, Trouble
<1> QED
  BY <1>1, <1>2, <1>3, Invariance, PTL DEF Spec
=============================================================================
