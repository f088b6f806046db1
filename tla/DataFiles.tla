----------------------------- MODULE DataFiles -----------------------------
(***************************************************************************)
(* The files on the SD card: the two logs that take turns, the data file,  *)
(* and the cursors of the uploads.                                         *)
(*                                                                         *)
(* A file is the number of its records; the records are numbered from 1 in *)
(* the order they were written since the file was last erased.  The card   *)
(* answers as the fault kinds of the behaviour allow.                      *)
(*                                                                         *)
(* Left out: the emergency log, which nothing writes; the contents of the  *)
(* records; a format of the card that fails after it changed the card.     *)
(***************************************************************************)
EXTENDS Naturals, FiniteSets

CONSTANTS
  Capacity,     \* records a log holds before its final block
  FinalBlock,   \* records its final block holds
  MaxData,      \* records the card has room for in the data file
  Faults,       \* fault kinds of the run, see FaultKinds
  MaxFaults     \* fault kinds of a behaviour

FaultKinds ==
  { "write",    \* an append to a file fails
    "erase",    \* an erase fails
    "open",     \* opening a file fails
    "system",   \* reading or writing the file of cursors fails
    "mount",    \* the file system cannot be mounted
    "restart",  \* power fails, an assertion or the watchdog resets
    "partial",  \* a socket takes less than it is given
    "early" }   \* a server answers before it has the whole request

ASSUME FilesAssumption ==
  /\ Capacity \in Nat \ {0} /\ FinalBlock \in Nat /\ MaxData \in Nat
  /\ Faults \subseteq FaultKinds /\ MaxFaults \in Nat

Logs == {"LogsA", "LogsB"}
Files == Logs \union {"Data"}

VARIABLES
  faults,     \* the fault kinds that may happen in this behaviour
  current,    \* the core's state, "Resting" for those that neither upload nor serve
  size,       \* records of each file
  cursors,    \* the last record of the system file: where each upload goes on
  received,   \* history: the records of a file's content that a server has accepted
  doubtful,   \* history: files that, since their cursor was last 0, were erased or had an
              \* upload answered 200 that the server had not accepted
  log,        \* the descriptor of log_
  opened,     \* log_ and data_ are open
  errors,     \* Files::errors()
  data        \* data_: where its handle appends, 0 while it is closed; history: the kind of the
              \* file's first record

cardVars == <<size, cursors, received, doubtful>>
fileVars == <<faults, current, cardVars, log, opened, errors, data>>

CoreStates ==
  {"Resting", "StartSystem", "WifiTransmitFiles", "WifiTransmitFile",
   "AppServicer", "WifiDownloadFile", "WifiQueryModule"}

May(kind) == kind \in faults

FilesTypeOK ==
  /\ faults \in SUBSET Faults
  /\ current \in CoreStates
  /\ size \in [Files -> Nat] /\ cursors \in [Files -> Nat]
  /\ received \in [Files -> SUBSET Nat] /\ doubtful \subseteq Files
  /\ log \in Logs /\ opened \in BOOLEAN /\ errors \in BOOLEAN
  /\ data \in [tell : Nat, first : {"none", "metadata", "reading"}]

\* A core that leaves the factory: a card just formatted and nothing in flash.
FilesInit ==
  /\ faults \in {F \in SUBSET Faults : Cardinality(F) <= MaxFaults}
  /\ current = "StartSystem"
  /\ size = [f \in Files |-> 0] /\ cursors = [f \in Files |-> 0]
  /\ received = [f \in Files |-> {}] /\ doubtful = {}
  /\ log = "LogsA" /\ opened = FALSE /\ errors = FALSE
  /\ data = [tell |-> 0, first |-> "none"]

-----------------------------------------------------------------------------
(* Contents of the files *)

Kept(W) == [f \in Files |-> IF f \in W THEN 0 ELSE size[f]]

\* The files of W are erased, the sizes become s and the cursors c.
Contents(W, s, c) ==
  /\ size' = s /\ cursors' = c
  /\ received' = [f \in Files |-> IF f \in W THEN {} ELSE received[f]]
  /\ doubtful' = {f \in doubtful \union W : c[f] > 0}

\* Whether an operation that may meet a fault of the kind went well.
Outcome(kind) == IF May(kind) THEN BOOLEAN ELSE {TRUE}

\* openSystemFiles: a file that cannot be opened is erased and opened once more.
Truncated == IF May("open") THEN SUBSET Files ELSE {{}}

InFinalBlock(f, s) == s[f] >= Capacity

\* Mutant of OpenSystemFiles: the first log, whether it has room or not.
OpenSystemFilesFirst(s, ok) ==
  /\ opened' = ok
  /\ log' = IF ok THEN "LogsA" ELSE log

OpenSystemFiles(s, ok) ==
  /\ opened' = ok
  /\ log' = IF ok THEN (IF InFinalBlock("LogsA", s) THEN "LogsB" ELSE "LogsA") ELSE log

Other(f) == IF f = "LogsA" THEN "LogsB" ELSE "LogsA"

-----------------------------------------------------------------------------
(* The logs.  debug_write_log runs inside every call that logs, in any     *)
(* state of the core, and ignores that swapLogsIfNecessary failed.         *)

LogFails ==
  /\ size[log] = Capacity + FinalBlock \/ May("write")
  /\ errors' = TRUE
  /\ UNCHANGED <<cardVars, log>>

LogGrows ==
  /\ size[log] < Capacity + FinalBlock
  /\ errors' = FALSE
  /\ LET grown == [size EXCEPT ![log] = @ + 1]
         other == Other(log)
     IN \/ /\ ~InFinalBlock(log, grown) \/ May("erase")
           /\ Contents({}, grown, cursors)
           /\ UNCHANGED log
        \/ /\ InFinalBlock(log, grown)
           /\ Contents({other}, [grown EXCEPT ![other] = 0], cursors)
           /\ \E ok \in Outcome("open") : log' = IF ok THEN other ELSE log

WriteLog ==
  /\ opened
  /\ LogFails \/ LogGrows
  /\ UNCHANGED <<faults, current, opened, data>>

-----------------------------------------------------------------------------
(* Power, and the RAM with it *)

\* The files on the card are as they are.
Lost ==
  /\ current' = "StartSystem"
  /\ opened' = FALSE /\ errors' = FALSE
  /\ data' = [data EXCEPT !.tell = 0]
  /\ UNCHANGED <<faults, log>>

Reset == Lost /\ UNCHANGED cardVars

Restart == May("restart") /\ Reset

\* Power fails inside debug_write_log, after the append into the final block or after the
\* erase of the other log.  Nothing else of the core runs inside the call, so that its steps
\* are told apart by this only.
LogCutShort ==
  /\ May("restart") /\ opened
  /\ size[log] < Capacity + FinalBlock
  /\ LET grown == [size EXCEPT ![log] = @ + 1]
         other == Other(log)
     IN /\ InFinalBlock(log, grown)
        /\ \/ Contents({}, grown, cursors)
           \/ Contents({other}, [grown EXCEPT ![other] = 0], cursors)
  /\ Lost

\* Idle has seen Files::errors().
RebootOnErrors ==
  /\ current = "Resting" /\ errors
  /\ Reset

-----------------------------------------------------------------------------
(* The data file.  What one call writes, a status, a location or a reading *)
(* after the metadata it may need, is one record here.  A data file d is   *)
(* its size, the kind of its first record and the position of the handle.  *)

Data == [size |-> size["Data"], first |-> data.first, tell |-> data.tell]

\* The data file once the files of W were erased and the system files opened again, or not.
DataAfter(W, isOpen) ==
  [size |-> Kept(W)["Data"],
   first |-> IF "Data" \in W THEN "none" ELSE data.first,
   tell |-> IF isOpen THEN Kept(W)["Data"] ELSE 0]

Holds(d) == data' = [tell |-> d.tell, first |-> d.first]

\* appendMetadataIfNecessary asks the handle, not the file, whether metadata is needed, and
\* then DataLogging::append.  The record is written even when its metadata could not be.
AppendRecord(d, isOpen) ==
  LET Written(kind) == [size |-> d.size + 1, first |-> IF d.size = 0 THEN kind ELSE d.first,
                        tell |-> d.tell + 1]
      room == isOpen /\ d.size < MaxData
  IN (IF room THEN {Written(IF d.tell = 0 THEN "metadata" ELSE "reading")} ELSE {}) \union
     (IF room /\ May("write") THEN {Written("reading")} ELSE {}) \union
     (IF ~room \/ May("write") THEN {d} ELSE {})

\* A reading, the end of a scan, and a location: the core records what it does.
RecordData ==
  /\ current = "Resting"
  /\ \E d \in AppendRecord(Data, opened) :
       /\ Holds(d)
       /\ Contents({}, [size EXCEPT !["Data"] = d.size], cursors)
  /\ UNCHANGED <<faults, current, log, opened, errors>>

\* CoreState::started writes the metadata and a status to the data file d, the files of W
\* having been erased.
StartedData(W, s, c, d, isOpen) ==
  \E e \in AppendRecord(d, isOpen) :
    /\ Holds(e)
    /\ Contents(W, [s EXCEPT !["Data"] = e.size], c)

-----------------------------------------------------------------------------
(* Start *)

\* FileSystem::setup and CoreState::started.  A card that does not mount, or whose
\* files do not open, is formatted, all files and the cursors with it; a second failure
\* is an assertion, so that the core stays here and starts again.
StartSystem ==
  /\ current = "StartSystem"
  /\ current' = "Resting"
  /\ \/ \E W \in Truncated :
          /\ OpenSystemFiles(Kept(W), TRUE)
          /\ StartedData(W, Kept(W), cursors, DataAfter(W, TRUE), TRUE)
     \/ /\ May("mount") \/ May("open")
        /\ OpenSystemFiles(Kept(Files), TRUE)
        /\ StartedData(Files, Kept(Files), [f \in Files |-> 0], DataAfter(Files, TRUE), TRUE)
  /\ UNCHANGED <<faults, errors>>

\* FactoryReset: the button is held while the core starts.
FactoryReset ==
  /\ current = "StartSystem"
  /\ Contents(Files, Kept(Files), [f \in Files |-> 0])
  /\ Holds(DataAfter(Files, FALSE))
  /\ UNCHANGED <<faults, current, log, opened, errors>>

\* FileSystem::flush, before the core sleeps, stops or reboots and after its readings.
Flush ==
  /\ current = "Resting" /\ opened
  /\ \E ok \in Outcome("write") : errors' = (errors /\ ~ok)
  /\ UNCHANGED <<faults, current, cardVars, log, opened, data>>

-----------------------------------------------------------------------------
(* Erasing, and the file of cursors.  The app's queries put these together. *)

\* Mutant of Erase: the system files are not closed and opened again.
EraseUnderHandles(f) ==
  \E erased \in Outcome("erase") :
    LET W == IF erased THEN {f} ELSE {}
    IN /\ Contents(W, Kept(W), cursors)
       /\ Holds([DataAfter(W, opened) EXCEPT !.tell = data.tell])
       /\ UNCHANGED <<opened, log>>

\* FileSystem::erase of one file; the system files close and open again.
Erase(f) ==
  \E erased \in Outcome("erase"), T \in Truncated, ok \in Outcome("open") :
    LET W == T \union (IF erased THEN {f} ELSE {})
    IN /\ Contents(W, Kept(W), cursors)
       /\ Holds(DataAfter(W, ok))
       /\ OpenSystemFiles(Kept(W), ok)

\* One turn of eraseAll's loop, the system files being closed.
EraseClosed(f, erased) ==
  /\ opened' = FALSE
  /\ UNCHANGED log
  /\ IF ~erased THEN UNCHANGED <<cardVars, data>>
     ELSE IF f = "System"
     THEN Contents({}, size, [g \in Files |-> 0]) /\ UNCHANGED data
     ELSE Contents({f}, Kept({f}), cursors) /\ Holds(DataAfter({f}, FALSE))

\* FileCursorManager::lookup.  A system file that does not open has no cursors in it.
Lookup(f) == {cursors[f]} \union (IF May("system") THEN {0} ELSE {})

\* Mutant of SavedCursors: the position is written to every cursor.
SavedCursorsAll(f, position) == {[g \in Files |-> position]}

\* FileCursorManager::save, and what it may have saved.
SavedCursors(f, position) ==
  {[cursors EXCEPT ![f] = position]} \union
  (IF May("system") THEN {cursors, [[g \in Files |-> 0] EXCEPT ![f] = position]} ELSE {})

\* sound: a server accepted the file's present content up to the position.
SaveCursor(f, position, sound) ==
  \E c \in SavedCursors(f, position) :
    /\ cursors' = c
    /\ doubtful' = {g \in doubtful \union (IF sound THEN {} ELSE {f}) : c[g] > 0}
    /\ UNCHANGED <<size, received>>
=============================================================================
