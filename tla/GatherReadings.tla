-------------------------- MODULE GatherReadings --------------------------
(***************************************************************************)
(* The core states that talk to the attached sensor module in normal       *)
(* operation, over the link of ModuleComms: TakeReadings and               *)
(* LiveDataReading, which run GatherReadings tasks, and WifiQueryModule,   *)
(* which forwards an app's query.  Each runs its own loop inside one call  *)
(* of task(), so at most one is active.  The bus is the peripheral         *)
(* twoWire1, acquired and released by the tasks.                           *)
(*                                                                         *)
(* Left out: which state leads to which (the core returns to "idle", from  *)
(* where any of the three is entered), the scan at boot, which has found   *)
(* the module, and the user's buttons.                                     *)
(***************************************************************************)
EXTENDS ModuleComms, Sequences

CONSTANTS
  ReadingsToTake,   \* CoreState::readingsToTake, the module's minimumNumberOfReadings
  MaxGathers,       \* bound of the model: readings started in one behaviour
  MaxLog            \* bound of the model: a longer log is not followed by a reset

ASSUME GatherAssumption ==
  ReadingsToTake \in Nat \ {0} /\ MaxGathers \in Nat /\ MaxLog \in Nat

VARIABLES
  core,       \* CoreDevice::current()
  gathering,  \* a GatherReadings task is in its runner's loop
  remaining,  \* TakeReadings::remaining_
  owner,      \* peripherals.twoWire1().owner
  number,     \* CoreState::readingNumber_; here it never falls back at a restart
  log,        \* the readings DataLogging::appendReading appended
  complete    \* history: readings whose gather began and ended without error

clientVars == <<core, gathering, remaining, owner, number, log, complete>>
vars == <<boardVars, commVars, handlerVars, clientVars>>

Clients == {"TakeReadings", "LiveDataReading", "WifiQueryModule"}
Owners == {"none", "gather", "query"}
LogEntry == [number : Nat, sensor : Sensors, gather : Nat]

GatherTypeOK ==
  /\ core \in Clients \union {"idle", "RebootDevice", "asserted"}
  /\ gathering \in BOOLEAN
  /\ remaining \in 0 .. ReadingsToTake
  /\ owner \in Owners
  /\ number \in Nat
  /\ log \in Seq(LogEntry)
  /\ complete \in SUBSET Nat

TypeOK == BoardTypeOK /\ CommTypeOK /\ GatherTypeOK

Init ==
  /\ BoardInit
  /\ CommInit
  /\ core = "idle"
  /\ gathering = FALSE
  /\ remaining = 0
  /\ owner = "none"
  /\ number = 0
  /\ log = <<>>
  /\ complete = {}

-----------------------------------------------------------------------------
(* TakeReadings and LiveDataReading *)

\* Mutant: one reading too many.
EnterTakeReadingsOneMore ==
  /\ core = "idle"
  /\ number + ReadingsToTake <= MaxGathers
  /\ core' = "TakeReadings"
  /\ remaining' = ReadingsToTake + 1
  /\ UNCHANGED <<boardVars, commVars, handlerVars>>
  /\ UNCHANGED <<gathering, owner, number, log, complete>>

EnterTakeReadings ==
  /\ core = "idle"
  /\ number + ReadingsToTake <= MaxGathers
  /\ core' = "TakeReadings"
  /\ remaining' = ReadingsToTake
  /\ UNCHANGED <<boardVars, commVars, handlerVars>>
  /\ UNCHANGED <<gathering, owner, number, log, complete>>

EnterLiveDataReading ==
  /\ core = "idle"
  /\ number < MaxGathers
  /\ core' = "LiveDataReading"
  /\ UNCHANGED <<boardVars, commVars, handlerVars>>
  /\ UNCHANGED <<gathering, remaining, owner, number, log, complete>>

\* Mutant: goes on although tryAcquire failed.
StartGatherAnyway ==
  /\ core \in {"TakeReadings", "LiveDataReading"}
  /\ ~gathering
  /\ gathering' = TRUE
  /\ responded' = FALSE
  /\ owner' = IF owner = "none" THEN "gather" ELSE owner
  /\ number' = number + 1
  /\ Push("begin")
  /\ UNCHANGED <<address, query, hasQuery, hasReply, reply, wire, received, early>>
  /\ UNCHANGED boardVars
  /\ UNCHANGED <<core, remaining, log, complete>>

\* GatherReadings::enqueued.  Without the bus nothing is pushed.
StartGather ==
  /\ core \in {"TakeReadings", "LiveDataReading"}
  /\ ~gathering
  /\ gathering' = TRUE
  /\ responded' = FALSE
  /\ IF owner = "none"
     THEN /\ owner' = "gather"
          /\ number' = number + 1
          /\ early' = FALSE
          /\ Push("begin")
     ELSE UNCHANGED <<owner, number, early, handlerVars>>
  /\ UNCHANGED <<address, query, hasQuery, hasReply, reply, wire, received>>
  /\ UNCHANGED boardVars
  /\ UNCHANGED <<core, remaining, log, complete>>

\* Mutant: error() forgets to release the bus.
GatherEndsHoldingBus(ok) ==
  /\ gathering' = FALSE
  /\ owner' = IF ok /\ owner = "gather" THEN "none" ELSE owner
  /\ active' = "none" /\ pending' = "none"
  /\ remaining' = IF core = "LiveDataReading" THEN remaining
                  ELSE IF ok THEN remaining - 1 ELSE 0
  /\ core' = IF core = "TakeReadings" /\ ~ok /\ ~responded THEN "RebootDevice"
             ELSE IF remaining' = 0 THEN "idle" ELSE core
  /\ UNCHANGED <<number, log>>

\* The runner's loop ends: GatherReadings::done() or error(), and what the
\* state does next.
GatherEnds(ok) ==
  /\ gathering' = FALSE
  /\ owner' = IF owner = "gather" THEN "none" ELSE owner
  /\ active' = "none" /\ pending' = "none"
  /\ remaining' = IF core = "LiveDataReading" THEN remaining
                  ELSE IF ok THEN remaining - 1 ELSE 0
  /\ core' = IF core = "TakeReadings" /\ ~ok /\ ~responded THEN "RebootDevice"
             ELSE IF remaining' = 0 THEN "idle" ELSE core
  /\ UNCHANGED <<number, log>>

\* GatherReadings::task with an idle protocol handler.
GatherNothing ==
  /\ gathering
  /\ ~HandlerBusy
  /\ GatherEnds(TRUE)
  /\ UNCHANGED <<boardVars, commVars, complete>>

GatherEnqueues ==
  /\ gathering
  /\ HandlerEnqueues(number)
  /\ UNCHANGED <<boardVars, clientVars>>

\* Mutant: the reading is filed under the next number.
MergeNextNumber(r) ==
  log' = Append(log, [number |-> number + 1, sensor |-> r.sensor, gather |-> r.gather])

\* CoreState::merge of a reading.
Merge(r) ==
  log' = Append(log, [number |-> number, sensor |-> r.sensor, gather |-> r.gather])

GatherContinues ==
  /\ gathering
  /\ FinishesWithReply
  /\ \/ Current = "begin" /\ UNCHANGED log
     \/ Current = "status" /\ reply.kind = "begin" /\ UNCHANGED log
     \/ Current = "status" /\ reply.kind = "done" /\ Merge(reply)
  /\ HandlerFinishes(number)
  /\ Push("status")
  /\ UNCHANGED boardVars
  /\ UNCHANGED <<core, gathering, remaining, owner, number, complete>>

GatherCompletes ==
  /\ gathering
  /\ FinishesWithReply
  /\ Current = "status" /\ reply.kind \notin {"begin", "done"}
  /\ HandlerFinishes(number)
  /\ GatherEnds(TRUE)
  /\ complete' = complete \union {number}
  /\ UNCHANGED boardVars

GatherFails ==
  /\ gathering
  /\ FinishesWithout
  /\ HandlerFinishes(number)
  /\ GatherEnds(FALSE)
  /\ UNCHANGED <<boardVars, complete>>

-----------------------------------------------------------------------------
(* WifiQueryModule and its AppModuleQueryTask *)

EnterQueryModule ==
  /\ core = "idle"
  /\ IF owner = "none"
     THEN core' = "WifiQueryModule" /\ owner' = "query" /\ Push("custom")
     ELSE core' = "asserted" /\ UNCHANGED <<owner, handlerVars>>
  /\ UNCHANGED <<boardVars, commVars>>
  /\ UNCHANGED <<gathering, remaining, number, log, complete>>

QueryEnqueues ==
  /\ core = "WifiQueryModule"
  /\ HandlerEnqueues(0)
  /\ UNCHANGED <<boardVars, clientVars>>

\* flushAndClose, then WifiConnectionCompleted; the task object is gone.
QueryEnds ==
  /\ core' = "idle"
  /\ active' = "none" /\ pending' = "none"
  /\ UNCHANGED boardVars
  /\ UNCHANGED <<gathering, remaining, number, log, complete>>

QueryFinishes ==
  /\ core = "WifiQueryModule"
  /\ HandlerFinishes(0)
  /\ owner' = "none"
  /\ QueryEnds

\* The loop's ten second break: neither done() nor error() runs.  Unless the
\* loop stalls, only RETRY keeps a transaction open for longer than
\* transaction_timeout, which is five seconds.
QueryGivesUp ==
  /\ core = "WifiQueryModule"
  /\ "giveup" \in Faults
  /\ "stall" \in Faults \/ (hasQuery /\ received.kind = "retry")
  /\ active # "none" /\ ~FinishesWithReply /\ ~FinishesWithout
  /\ QueryEnds
  /\ UNCHANGED <<commVars, owner>>

-----------------------------------------------------------------------------
(* Restarts of the core *)

\* A reset of the core cycles the power of the modules (Startup).
CoreRestarts ==
  /\ core \in {"RebootDevice", "asserted"}
  /\ core' = "idle"
  /\ CommReset
  /\ active' = "none" /\ pending' = "none"
  /\ owner' = "none"
  /\ gathering' = FALSE
  /\ remaining' = 0
  /\ Restart("ModuleIdle")
  /\ UNCHANGED <<number, log, complete>>

\* RebootDevice with a console attached goes back to Initialized instead.
CoreReinitializes ==
  /\ core = "RebootDevice"
  /\ core' = "idle"
  /\ UNCHANGED <<boardVars, commVars, handlerVars>>
  /\ UNCHANGED <<gathering, remaining, owner, number, log, complete>>

-----------------------------------------------------------------------------
\* The loops run moduleCommunications->task() only after the client's task has
\* left something to wait for.
LinkStep ==
  /\ HandlerBusy
  /\ CommTask
  /\ UNCHANGED <<handlerVars, clientVars>>

TimeoutStep ==
  /\ HandlerBusy
  /\ Timeout
  /\ UNCHANGED <<handlerVars, clientVars>>

ClientStep ==
  \/ StartGather \/ GatherNothing \/ GatherEnqueues
  \/ GatherContinues \/ GatherCompletes \/ GatherFails
  \/ QueryEnqueues \/ QueryFinishes
  \/ CoreRestarts \/ CoreReinitializes

BoardStep ==
  /\ BoardLoop
  /\ UNCHANGED <<commVars, handlerVars, clientVars>>

BoardEvent ==
  /\ TakeSensorReadings \/ (Reset /\ Len(log) < MaxLog)
  /\ UNCHANGED <<commVars, handlerVars, clientVars>>

\* The super-loop of Idle goes round while nothing is scheduled.
CoreIdles == core = "idle" /\ UNCHANGED vars

Next ==
  \/ EnterTakeReadings \/ EnterLiveDataReading \/ EnterQueryModule
  \/ ClientStep \/ QueryGivesUp \/ LinkStep
  \/ BoardStep \/ BoardEvent
  \/ CoreIdles

Spec == Init /\ [][Next]_vars

(***************************************************************************)
(* Both super-loops keep turning and the clock reaches transaction_timeout *)
(* in a transaction that only polls.  Nothing is assumed of the module's   *)
(* readings state, which may take as long as its sensors do, of what makes *)
(* the core enter a state, or of faults: none is ever bound to happen.     *)
(***************************************************************************)
Fairness ==
  /\ WF_vars(ClientStep)
  /\ WF_vars(LinkStep /\ CommProgress)
  /\ WF_vars(TimeoutStep)
  /\ WF_vars(BoardStep)

FairSpec == Spec /\ Fairness

-----------------------------------------------------------------------------
(* Properties *)

\* A client is between the enqueue and the end of its task.
ClientActive == gathering \/ core = "WifiQueryModule"

(***************************************************************************)
(* fk_assert(!hasQuery) in ModuleCommunications::enqueue never fires,      *)
(* whatever fails: a query that RETRY put back, or that a timeout or a     *)
(* give-up left behind, is gone before the link reads as idle.             *)
(***************************************************************************)
EnqueueAssertHolds == address = 0 => ~hasQuery

(***************************************************************************)
(* A client's task ends with the link as it found it, on every path        *)
(* through GatherReadings and AppModuleQueryTask: no transaction open, no  *)
(* reply that ModuleProtocolHandler::handle would give to the next client, *)
(* twoWire1 released.  The give-up of WifiQueryModule is the exception.    *)
(***************************************************************************)
IdleLink == ~ClientActive => address = 0 /\ ~hasReply /\ owner = "none"

(***************************************************************************)
(* A query is queued or in flight only for the task that owns twoWire1:    *)
(* GatherReadings::enqueued pushes nothing when tryAcquire fails, and      *)
(* every release comes with an empty ModuleProtocolHandler.                *)
(***************************************************************************)
OwnerDrives == HandlerBusy => owner = (IF gathering THEN "gather" ELSE "query")

(***************************************************************************)
(* While nothing makes the core abandon a transaction, a reply is of the   *)
(* kind its query asked for, although nothing in                           *)
(* ModuleProtocolHandler::handle matches the two and RETRY, to a query     *)
(* that was not understood or not yet looked at, sends queries again.      *)
(***************************************************************************)
ReplyAnswersQuery ==
  FinishesWithReply =>
    reply.kind \in CASE Current = "begin" -> {"begin"}
                     [] Current = "status" -> {"done", "idle"}
                     [] Current = "custom" -> {"error"}

(***************************************************************************)
(* What ModuleServicer::task then drops as an "Orphaned reply!" is at most *)
(* the reading of the module's first sensor, and only after the core asked *)
(* a board that was just back from its readings state: RETRY made it send  *)
(* a query again that the board then served twice.  No other reply, and    *)
(* nothing of another client's, is ever dropped.                           *)
(***************************************************************************)
OnlyEarlyOrphans ==
  decoded # NoQuery /\ outgoing # NoReply =>
    early /\ outgoing.kind = "done" /\ outgoing.sensor = 0

(***************************************************************************)
(* No reading number holds two values of one sensor, whatever the core's   *)
(* retries make the module do twice (CoreState::merge appends every        *)
(* reading it is given), but for the values that no gather had taken, which *)
(* a board that was reset finds on its stack.                              *)
(***************************************************************************)
RecordedOnce ==
  \A i, j \in DOMAIN log :
    i # j /\ log[i].gather # 0 /\ log[j].gather # 0
      => log[i].sensor # log[j].sensor \/ log[i].number # log[j].number

(***************************************************************************)
(* A value filed under another number than that of the gather that had it  *)
(* taken comes from a gather that failed, never from one that completed:   *)
(* a GatherReadings that ends with IDLE has emptied the module.            *)
(***************************************************************************)
NeverTakenFromComplete ==
  \A i \in DOMAIN log : log[i].gather \notin complete \ {log[i].number}

\* TakeReadings lets go of the super-loop even if the module's readings state
\* never returns, the wire fails or the loop stalls: every error path of the
\* link reaches GatherReadings::task.
TakeReadingsEnds == core = "TakeReadings" ~> core # "TakeReadings"

\* WifiQueryModule too, by AppModuleQueryTask's own done() or error(), without
\* the ten second break.
QueryModuleEnds == core = "WifiQueryModule" ~> core # "WifiQueryModule"

\* fk_assert(peripherals.twoWire1().tryAcquire(this)) at
\* app_module_query_task.cpp:10 does not fail.
AcquireAssertHolds == core # "asserted"

-----------------------------------------------------------------------------
(***************************************************************************)
(* What the clients promise the data log, see ReadingSession: a reading is *)
(* open while a GatherReadings that got the bus runs, and one that ends    *)
(* without an error recorded every sensor of the module, but for the first *)
(* when its query was asked for too early.                                 *)
(***************************************************************************)

Session == INSTANCE ReadingSession WITH
  Reliable <- Faults \subseteq {"noise"},
  open <- gathering /\ owner = "gather",
  skips <- early

\* The log, the numbers and the readings that count as complete change only as
\* the steps of ReadingSession let them, for CoreState::takingReadings, merge
\* and every end of GatherReadings.
SessionSpec == Session!Spec
=============================================================================
