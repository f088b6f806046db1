------------------------ MODULE GatherReadingsProofs ------------------------
(***************************************************************************)
(* Proofs about GatherReadings for any number of sensors, readings and     *)
(* faults, in the order of what they need:                                 *)
(*   - its types; that the assertion of ModuleCommunications::enqueue      *)
(*     never fires; that only the owner of the bus has queries queued;     *)
(*   - the link (LinkInv): every task ends with the link idle;             *)
(*   - what each step does to readings (StepKinds), and from that, over    *)
(*     any link, that none is recorded twice, and that what is complete is *)
(*     over, with nothing of it left in the module (ReadingsInv);          *)
(*   - the exact link, without faults but noise: the reply that is held    *)
(*     answers its query (ExchangeInv), and no reading is lost but the     *)
(*     first, after a RETRY that came too early (AccountInv);              *)
(*   - that it implements ReadingSession.                                  *)
(***************************************************************************)
EXTENDS GatherReadings, TLAPS

-----------------------------------------------------------------------------
(* Types *)

LEMMA PlainType ==
  ASSUME NEW kind \in ReplyKinds \union {"none", "garbled"}
  PROVE Plain(kind) \in Reply
  BY BoardAssumption DEF Plain, Reply, Sensors

LEMMA QueryConstants ==
  NoQuery \in Query /\ GarbledQuery \in Query
  BY DEF NoQuery, GarbledQuery, Query

LEMMA NoReplyType == NoReply \in Reply
  BY PlainType DEF NoReply

\* The interrupt handlers keep the board well typed.
LEMMA ReceiveInterruptType ==
  ASSUME BoardTypeOK, NEW q \in Query, ReceiveInterrupt(q)
  PROVE BoardTypeOK'
  BY QueryConstants DEF BoardTypeOK, ReceiveInterrupt

LEMMA ReplyInterruptType ==
  ASSUME BoardTypeOK, ReplyInterrupt
  PROVE BoardTypeOK'
  BY NoReplyType DEF BoardTypeOK, ReplyInterrupt

LEMMA AnswerType ==
  ASSUME BoardTypeOK, NEW r \in Arrives
  PROVE r \in Reply
  BY PlainType DEF BoardTypeOK, Arrives, Answer, ReplyKinds

LEMMA BoardUnchanged ==
  ASSUME BoardTypeOK, UNCHANGED boardVars
  PROVE BoardTypeOK'
  BY DEF BoardTypeOK, boardVars

LEMMA RestartType ==
  ASSUME NEW state \in FsmStates, Restart(state)
  PROVE BoardTypeOK'
  BY QueryConstants, NoReplyType
  DEF BoardTypeOK, Restart, UninitialisedSensors, SensorReading

\* So does every step of the board's main loop.
LEMMA BoardLoopType ==
  ASSUME BoardTypeOK, BoardLoop \/ TakeSensorReadings \/ Reset
  PROVE BoardTypeOK'
<1>1. CASE Notice \/ Decode \/ Boot \/ Configured
  BY <1>1 DEF Notice, Decode, Boot, Configured, BoardTypeOK, FsmStates
<1>2. CASE DropMalformed
  BY <1>2, QueryConstants DEF DropMalformed, Handled, BoardTypeOK, FsmStates
<1>3. CASE HandleBegin
  BY <1>3, QueryConstants, PlainType
  DEF HandleBegin, Handled, BoardTypeOK, FsmStates, ReplyKinds, SensorReading, Query
<1>4. CASE HandleStatus
  <2>1. CASE UNCHANGED sensors /\ outgoing' = Plain("idle")
    BY <1>4, <2>1, QueryConstants, PlainType
    DEF HandleStatus, Handled, BoardTypeOK, FsmStates, ReplyKinds
  <2>2. ASSUME NEW i \in Sensors, outgoing' = ReadingOf(i),
               sensors' = [sensors EXCEPT ![i].status = "Idle"]
        PROVE BoardTypeOK'
    <3>1. sensors[i] \in SensorReading
      BY DEF BoardTypeOK
    <3>2. ReadingOf(i) \in Reply
      BY <3>1 DEF ReadingOf, Reply, ReplyKinds, SensorReading
    <3>3. [sensors[i] EXCEPT !.status = "Idle"] \in SensorReading
      BY <3>1 DEF SensorReading
    <3>4. sensors' \in [Sensors -> SensorReading]
      BY <2>2, <3>3 DEF BoardTypeOK
    <3> QED
      BY <1>4, <2>2, <3>2, <3>4, QueryConstants
      DEF HandleStatus, Handled, BoardTypeOK, FsmStates
  <2> QED
    BY <1>4, <2>1, <2>2 DEF HandleStatus
<1>5. CASE HandleCustom
  BY <1>5, QueryConstants, PlainType
  DEF HandleCustom, Handled, BoardTypeOK, FsmStates, ReplyKinds
<1>6. CASE TakeSensorReadings
  <2>1. \A i \in Sensors : [sensors[i] EXCEPT !.status = "Done"] \in SensorReading
    BY DEF BoardTypeOK, SensorReading
  <2> QED
    BY <1>6, <2>1 DEF TakeSensorReadings, BoardTypeOK, FsmStates
<1>7. CASE Reset
  BY <1>7, RestartType DEF Reset, FsmStates
<1> QED
  BY <1>1, <1>2, <1>3, <1>4, <1>5, <1>6, <1>7 DEF BoardLoop

\* Decoding a reply keeps the core's end of the link well typed.
LEMMA CompleteType ==
  ASSUME CommTypeOK, NEW r \in Reply, Complete(r), UNCHANGED handlerVars,
         early' \in BOOLEAN
  PROVE CommTypeOK'
<1>1. CASE r.kind = "busy"
  BY <1>1 DEF Complete, CommTypeOK, WireStates, handlerVars
<1>2. CASE r.kind = "retry"
  BY <1>2 DEF Complete, CommTypeOK, WireStates, handlerVars
<1>3. CASE r.kind = "garbled"
  BY <1>3 DEF Complete, Close, CommTypeOK, WireStates, handlerVars
<1>4. CASE r.kind \notin {"busy", "retry", "garbled"}
  BY <1>4 DEF Complete, Close, CommTypeOK, WireStates, handlerVars
<1> QED
  BY <1>1, <1>2, <1>3, <1>4

LEMMA CloseType ==
  ASSUME CommTypeOK, CloseWithoutReply, UNCHANGED handlerVars
  PROVE CommTypeOK'
  BY DEF CommTypeOK, CloseWithoutReply, Close, WireStates, handlerVars

LEMMA LinkType ==
  ASSUME BoardTypeOK, CommTypeOK, CommTask, UNCHANGED handlerVars
  PROVE BoardTypeOK' /\ CommTypeOK'
<1>e. early' = (early \/ AsksTooEarly) => early' \in BOOLEAN
  OBVIOUS
<1>1. CASE Prepare
  BY <1>1, BoardUnchanged, NoReplyType
  DEF Prepare, CommTypeOK, WireStates, handlerVars
<1>2. CASE Send
  <2>1. query \in Query
    BY DEF CommTypeOK
  <2>2. BoardTypeOK'
    BY <1>2, <2>1, ReceiveInterruptType DEF Send
  <2>3. CommTypeOK'
    BY <1>2 DEF Send, CommTypeOK, WireStates, handlerVars
  <2> QED
    BY <2>2, <2>3
<1>3. CASE SendFails
  BY <1>3, CloseType, BoardUnchanged, ReceiveInterruptType, QueryConstants DEF SendFails
<1>4. CASE Receive
  <2>1. BoardTypeOK'
    BY <1>4, ReplyInterruptType DEF Receive, Asks
  <2>2. received' \in Reply
    BY <1>4, AnswerType DEF Receive
  <2>3. CommTypeOK'
    BY <1>e, <1>4, <2>2 DEF Receive, Asks, CommTypeOK, WireStates, handlerVars
  <2> QED
    BY <2>1, <2>3
<1>5. CASE EndOfStream
  <2>1. received \in Reply
    BY DEF CommTypeOK
  <2> QED
    BY <1>5, <2>1, BoardUnchanged, CompleteType DEF EndOfStream, CommTypeOK
<1>6. CASE Poll
  <2>1. BoardTypeOK'
    BY <1>6, ReplyInterruptType DEF Poll, Asks
  <2>2. PICK r \in Arrives : Complete(r)
    BY <1>6 DEF Poll
  <2>3. CommTypeOK'
    BY <1>e, <1>6, <2>2, AnswerType, CompleteType DEF Poll, Asks
  <2> QED
    BY <2>1, <2>3
<1>7. CASE Missed
  BY <1>7, CloseType, BoardUnchanged DEF Missed
<1>8. CASE Timeout
  BY <1>8, CloseType, BoardUnchanged DEF Timeout
<1> QED
  BY <1>1, <1>2, <1>3, <1>4, <1>5, <1>6, <1>7, <1>8 DEF CommTask, CommProgress

\* What the clients do to the link: put a query in, take a reply out.
LEMMA EnqueueType ==
  ASSUME CommTypeOK, NEW gather \in Nat, Enqueue(gather)
  PROVE /\ address' \in {0, ModuleAddress}
        /\ query' \in Query
        /\ hasQuery' \in BOOLEAN
<1>1. CASE Starts
  <2>1. pending \in QueryTypes
    BY <1>1 DEF Starts, CommTypeOK
  <2> QED
    BY <1>1, <2>1 DEF Enqueue, Query
<1>2. CASE ~Starts
  BY <1>2 DEF Enqueue, CommTypeOK
<1> QED
  BY <1>1, <1>2

LEMMA HandlerEnqueuesType ==
  ASSUME CommTypeOK, NEW gather \in Nat, HandlerEnqueues(gather)
  PROVE CommTypeOK'
  BY EnqueueType DEF HandlerEnqueues, CommTypeOK

LEMMA HandlerFinishesType ==
  ASSUME CommTypeOK, NEW gather \in Nat, HandlerFinishes(gather),
         active' \in QueryTypes \union {"none"}, pending' \in QueryTypes \union {"none"}
  PROVE CommTypeOK'
  BY EnqueueType DEF HandlerFinishes, CommTypeOK

LEMMA CommUnchanged ==
  ASSUME CommTypeOK, UNCHANGED commVars,
         active' \in QueryTypes \union {"none"}, pending' \in QueryTypes \union {"none"}
  PROVE CommTypeOK'
  BY DEF CommTypeOK, commVars

LEMMA GatherUnchanged ==
  ASSUME GatherTypeOK, UNCHANGED clientVars
  PROVE GatherTypeOK'
  BY DEF GatherTypeOK, clientVars

(***************************************************************************)
(* The part of the clients' control that types depend on: a gather runs    *)
(* only in the two states that start one, and TakeReadings only while a    *)
(* reading is left to take.                                                *)
(***************************************************************************)
ClientsOK ==
  /\ gathering => core \in {"TakeReadings", "LiveDataReading"}
  /\ core = "TakeReadings" => remaining > 0

LEMMA GatherEndsType ==
  ASSUME GatherTypeOK, ClientsOK, gathering,
         NEW ok \in BOOLEAN, GatherEnds(ok), complete' \in SUBSET Nat
  PROVE /\ GatherTypeOK' /\ ClientsOK'
        /\ active' = "none" /\ pending' = "none"
<1>1. remaining' \in 0 .. ReadingsToTake
  BY GatherAssumption DEF GatherEnds, GatherTypeOK, ClientsOK
<1>2. core' \in Clients \union {"idle", "RebootDevice", "asserted"}
  BY DEF GatherEnds, Clients, ClientsOK
<1>3. owner' \in Owners
  BY DEF GatherEnds, GatherTypeOK, Owners
<1>4. ClientsOK'
  BY <1>1, GatherAssumption DEF GatherEnds, ClientsOK
<1> QED
  BY <1>1, <1>2, <1>3, <1>4 DEF GatherEnds, GatherTypeOK

TypeInv == TypeOK /\ ClientsOK

LEMMA NothingRemaining == 0 \in 0 .. ReadingsToTake
  BY GatherAssumption

LEMMA TypeInit == Init => TypeInv
<1> SUFFICES ASSUME Init PROVE TypeInv
  OBVIOUS
<1>1. BoardTypeOK
  BY NoReplyType, QueryConstants
  DEF Init, BoardInit, BoardTypeOK, UninitialisedSensors, SensorReading, FsmStates
<1>2. CommTypeOK
  BY NoReplyType, QueryConstants DEF Init, CommInit, CommTypeOK, WireStates
<1>3. GatherTypeOK /\ ClientsOK
  <2>1. log \in Seq(LogEntry)
    BY DEF Init
  <2>2. core \in Clients \union {"idle", "RebootDevice", "asserted"}
    BY DEF Init
  <2> QED
    BY <2>1, <2>2, NothingRemaining DEF Init, GatherTypeOK, ClientsOK, Owners
<1> QED
  BY <1>1, <1>2, <1>3 DEF TypeInv, TypeOK

LEMMA TypeStep == TypeInv /\ [Next]_vars => TypeInv'
<1> SUFFICES ASSUME TypeInv, [Next]_vars PROVE TypeInv'
  OBVIOUS
<1> USE DEF TypeInv, TypeOK
<1>1. CASE EnterTakeReadings
  BY <1>1, BoardUnchanged, CommUnchanged, GatherAssumption
  DEF EnterTakeReadings, CommTypeOK, GatherTypeOK, ClientsOK, Clients, handlerVars
<1>2. CASE EnterLiveDataReading
  BY <1>2, BoardUnchanged, CommUnchanged
  DEF EnterLiveDataReading, CommTypeOK, GatherTypeOK, ClientsOK, Clients, handlerVars
<1>3. CASE EnterQueryModule
  <2>1. BoardTypeOK'
    BY <1>3, BoardUnchanged DEF EnterQueryModule
  <2>2. CommTypeOK'
    BY <1>3, CommUnchanged
    DEF EnterQueryModule, Push, CommTypeOK, handlerVars, QueryTypes
  <2>3. GatherTypeOK' /\ ClientsOK'
    BY <1>3 DEF EnterQueryModule, GatherTypeOK, ClientsOK, Clients, Owners
  <2> QED
    BY <2>1, <2>2, <2>3
<1>4. CASE StartGather
  <2>1. BoardTypeOK'
    BY <1>4, BoardUnchanged DEF StartGather
  <2>2. CommTypeOK'
    BY <1>4 DEF StartGather, Push, CommTypeOK, handlerVars, QueryTypes
  <2>3. GatherTypeOK' /\ ClientsOK'
    BY <1>4 DEF StartGather, GatherTypeOK, ClientsOK, Owners
  <2> QED
    BY <2>1, <2>2, <2>3
<1>5. CASE GatherNothing
  <2>1. GatherEnds(TRUE) /\ gathering /\ complete' \in SUBSET Nat
    BY <1>5 DEF GatherNothing, GatherTypeOK
  <2> QED
    BY <1>5, <2>1, GatherEndsType, BoardUnchanged, CommUnchanged DEF GatherNothing
<1>6. CASE GatherEnqueues
  <2>1. number \in Nat
    BY DEF GatherTypeOK
  <2>2. CommTypeOK'
    BY <1>6, <2>1, HandlerEnqueuesType DEF GatherEnqueues
  <2> QED
    BY <1>6, <2>2, BoardUnchanged, GatherUnchanged
    DEF GatherEnqueues, ClientsOK, clientVars
<1>7. CASE GatherContinues
  <2>1. number \in Nat
    BY DEF GatherTypeOK
  <2>2. CommTypeOK'
    BY <1>7, <2>1, HandlerFinishesType DEF GatherContinues, Push, QueryTypes
  <2>3. log' \in Seq(LogEntry)
    <3>1. CASE UNCHANGED log
      BY <3>1 DEF GatherTypeOK
    <3>2. CASE Merge(reply)
      <4>1. [number |-> number, sensor |-> reply.sensor, gather |-> reply.gather]
              \in LogEntry
        BY <2>1 DEF CommTypeOK, Reply, LogEntry
      <4>2. log \in Seq(LogEntry)
        BY DEF GatherTypeOK
      <4> QED
        BY <3>2, <4>1, <4>2 DEF Merge
    <3> QED
      BY <1>7, <3>1, <3>2 DEF GatherContinues
  <2>4. GatherTypeOK' /\ ClientsOK'
    BY <1>7, <2>3 DEF GatherContinues, GatherTypeOK, ClientsOK
  <2> QED
    BY <1>7, <2>2, <2>4, BoardUnchanged DEF GatherContinues
<1>8. CASE GatherCompletes
  <2>1. number \in Nat /\ complete' \in SUBSET Nat
    BY <1>8 DEF GatherCompletes, GatherTypeOK
  <2>2. GatherTypeOK' /\ ClientsOK' /\ active' = "none" /\ pending' = "none"
    BY <1>8, <2>1, GatherEndsType DEF GatherCompletes
  <2> QED
    BY <1>8, <2>1, <2>2, BoardUnchanged, HandlerFinishesType DEF GatherCompletes
<1>9. CASE GatherFails
  <2>1. number \in Nat /\ complete' \in SUBSET Nat
    BY <1>9 DEF GatherFails, GatherTypeOK
  <2>2. GatherTypeOK' /\ ClientsOK' /\ active' = "none" /\ pending' = "none"
    BY <1>9, <2>1, GatherEndsType DEF GatherFails
  <2> QED
    BY <1>9, <2>1, <2>2, BoardUnchanged, HandlerFinishesType DEF GatherFails
<1>10. CASE QueryEnqueues
  BY <1>10, HandlerEnqueuesType, BoardUnchanged, GatherUnchanged
  DEF QueryEnqueues, ClientsOK, clientVars
<1>11. CASE QueryFinishes
  <2>1. CommTypeOK'
    BY <1>11, HandlerFinishesType DEF QueryFinishes, QueryEnds
  <2>2. GatherTypeOK' /\ ClientsOK'
    BY <1>11 DEF QueryFinishes, QueryEnds, GatherTypeOK, ClientsOK, Owners
  <2> QED
    BY <1>11, <2>1, <2>2, BoardUnchanged DEF QueryFinishes, QueryEnds
<1>12. CASE QueryGivesUp
  <2>1. CommTypeOK'
    BY <1>12, CommUnchanged DEF QueryGivesUp, QueryEnds
  <2>2. GatherTypeOK' /\ ClientsOK'
    BY <1>12 DEF QueryGivesUp, QueryEnds, GatherTypeOK, ClientsOK, Owners
  <2> QED
    BY <1>12, <2>1, <2>2, BoardUnchanged DEF QueryGivesUp, QueryEnds
<1>13. CASE CoreRestarts
  <2>1. BoardTypeOK'
    BY <1>13, RestartType DEF CoreRestarts, FsmStates
  <2>2. CommTypeOK'
    BY <1>13, QueryConstants, NoReplyType
    DEF CoreRestarts, CommReset, CommTypeOK, WireStates
  <2>3. GatherTypeOK' /\ ClientsOK'
    BY <1>13, NothingRemaining
    DEF CoreRestarts, GatherTypeOK, ClientsOK, Owners
  <2> QED
    BY <2>1, <2>2, <2>3
<1>14. CASE CoreReinitializes
  BY <1>14, BoardUnchanged, CommUnchanged
  DEF CoreReinitializes, CommTypeOK, GatherTypeOK, ClientsOK, handlerVars
<1>15. CASE LinkStep
  BY <1>15, LinkType, GatherUnchanged DEF LinkStep, ClientsOK, clientVars
<1>16. CASE BoardStep \/ BoardEvent
  <2>1. BoardTypeOK'
    BY <1>16, BoardLoopType DEF BoardStep, BoardEvent
  <2> QED
    BY <1>16, <2>1, CommUnchanged, GatherUnchanged
    DEF BoardStep, BoardEvent, CommTypeOK, ClientsOK, clientVars, handlerVars
<1>17. CASE UNCHANGED vars
  BY <1>17, BoardUnchanged, CommUnchanged, GatherUnchanged
  DEF vars, CommTypeOK, ClientsOK, clientVars, handlerVars
<1> QED
  BY <1>1, <1>2, <1>3, <1>4, <1>5, <1>6, <1>7, <1>8, <1>9, <1>10, <1>11, <1>12,
     <1>13, <1>14, <1>15, <1>16, <1>17
  DEF Next, ClientStep, CoreIdles

\* Every variable keeps its type, for any constants.
THEOREM TypeCorrect == Spec => []TypeOK
<1>1. TypeInv => TypeOK
  BY DEF TypeInv
<1> QED
  BY <1>1, TypeInit, TypeStep, PTL DEF Spec

-----------------------------------------------------------------------------
(***************************************************************************)
(* The assertion of ModuleCommunications::enqueue.  Its invariant needs no *)
(* strengthening: address becomes 0 only in a step of an open transaction, *)
(* whose query has been prepared, and hasQuery becomes TRUE only together  *)
(* with, or while there is, an address.                                    *)
(***************************************************************************)

\* No step of ModuleCommunications::task leaves a query without an address.
LEMMA CommTaskKeepsQuery ==
  ASSUME EnqueueAssertHolds, CommTask
  PROVE EnqueueAssertHolds'
<1> USE DEF EnqueueAssertHolds
<1>1. CASE Prepare
  BY <1>1 DEF Prepare
<1>2. CASE Send
  BY <1>2 DEF Send
<1>3. CASE SendFails
  BY <1>3 DEF SendFails, TransactionOpen, CloseWithoutReply
<1>4. CASE Receive
  BY <1>4 DEF Receive
<1>5. ASSUME TransactionOpen, NEW r, Complete(r) PROVE EnqueueAssertHolds'
  <2>1. CASE r.kind = "busy"
    BY <1>5, <2>1 DEF Complete
  <2>2. CASE r.kind = "retry"
    BY <1>5, <2>2 DEF Complete, TransactionOpen
  <2>3. CASE r.kind = "garbled"
    BY <1>5, <2>3 DEF Complete, TransactionOpen
  <2>4. CASE r.kind \notin {"busy", "retry", "garbled"}
    BY <1>5, <2>4 DEF Complete, TransactionOpen
  <2> QED
    BY <2>1, <2>2, <2>3, <2>4
<1>6. CASE EndOfStream \/ Poll
  BY <1>5, <1>6 DEF EndOfStream, Poll, Asks
<1>7. CASE Missed \/ Timeout
  BY <1>7 DEF Missed, Timeout, TransactionOpen, CloseWithoutReply
<1> QED
  BY <1>1, <1>2, <1>3, <1>4, <1>6, <1>7 DEF CommTask, CommProgress

\* Nor does a client, who enqueues at an idle link only.
LEMMA EnqueueKeepsQuery ==
  ASSUME EnqueueAssertHolds, NEW gather, Enqueue(gather)
  PROVE EnqueueAssertHolds'
  BY DEF EnqueueAssertHolds, Enqueue, Starts, ModuleAddress

LEMMA EnqueueAssertStep == EnqueueAssertHolds /\ [Next]_vars => EnqueueAssertHolds'
<1> SUFFICES ASSUME EnqueueAssertHolds, [Next]_vars PROVE EnqueueAssertHolds'
  OBVIOUS
<1>1. CASE UNCHANGED <<address, hasQuery>>
  BY <1>1 DEF EnqueueAssertHolds
<1>2. CASE GatherEnqueues \/ QueryEnqueues
  BY <1>2, EnqueueKeepsQuery DEF GatherEnqueues, QueryEnqueues, HandlerEnqueues
<1>3. CASE GatherContinues \/ GatherCompletes \/ GatherFails \/ QueryFinishes
  BY <1>3, EnqueueKeepsQuery
  DEF GatherContinues, GatherCompletes, GatherFails, QueryFinishes, HandlerFinishes
<1>4. CASE CoreRestarts
  BY <1>4 DEF CoreRestarts, CommReset, EnqueueAssertHolds
<1>5. CASE LinkStep
  BY <1>5, CommTaskKeepsQuery DEF LinkStep
<1>6. CASE EnterTakeReadings \/ EnterLiveDataReading \/ EnterQueryModule
  BY <1>1, <1>6 DEF EnterTakeReadings, EnterLiveDataReading, EnterQueryModule, commVars
<1>7. CASE StartGather \/ GatherNothing \/ QueryGivesUp \/ CoreReinitializes
  BY <1>1, <1>7
  DEF StartGather, GatherNothing, QueryGivesUp, CoreReinitializes, commVars
<1>8. CASE BoardStep \/ BoardEvent \/ UNCHANGED vars
  BY <1>1, <1>8 DEF BoardStep, BoardEvent, commVars, vars
<1> QED
  BY <1>2, <1>3, <1>4, <1>5, <1>6, <1>7, <1>8 DEF Next, ClientStep, CoreIdles

\* fk_assert(!hasQuery) in ModuleCommunications::enqueue never fires, with any
\* combination of faults.
THEOREM EnqueueAssertSafe == Spec => []EnqueueAssertHolds
<1>1. Init => EnqueueAssertHolds
  BY DEF Init, CommInit, EnqueueAssertHolds
<1> QED
  BY <1>1, EnqueueAssertStep, PTL DEF Spec

-----------------------------------------------------------------------------
(***************************************************************************)
(* Who drives the link.  OwnerDrives alone is not inductive: a gather that *)
(* starts without the bus leaves the handler as it is, so one must know    *)
(* that nothing was left in it.                                            *)
(***************************************************************************)
DriverInv ==
  /\ gathering => core \in {"TakeReadings", "LiveDataReading"}
  /\ HandlerBusy => ClientActive
  /\ OwnerDrives

LEMMA HandlerFinishesBusy ==
  ASSUME NEW gather, HandlerFinishes(gather)
  PROVE HandlerBusy
  BY DEF HandlerFinishes, FinishesWithReply, FinishesWithout, Current, Starts, HandlerBusy

LEMMA DriverStep == DriverInv /\ [Next]_vars => DriverInv'
<1> SUFFICES ASSUME DriverInv, [Next]_vars PROVE DriverInv'
  OBVIOUS
<1> USE DEF DriverInv, OwnerDrives, ClientActive, HandlerBusy
<1>1. CASE UNCHANGED <<handlerVars, core, gathering, owner>>
  BY <1>1 DEF handlerVars
<1>2. CASE EnterTakeReadings \/ EnterLiveDataReading \/ CoreReinitializes
  BY <1>2 DEF EnterTakeReadings, EnterLiveDataReading, CoreReinitializes, handlerVars
<1>3. CASE EnterQueryModule
  BY <1>3 DEF EnterQueryModule, Push, handlerVars
<1>4. CASE StartGather
  BY <1>4 DEF StartGather, Push, handlerVars
<1>5. CASE GatherNothing \/ GatherCompletes \/ GatherFails
  BY <1>5 DEF GatherNothing, GatherCompletes, GatherFails, GatherEnds
<1>6. CASE GatherEnqueues \/ QueryEnqueues
  BY <1>6 DEF GatherEnqueues, QueryEnqueues, HandlerEnqueues, Starts, clientVars
<1>7. CASE GatherContinues
  <2>1. HandlerBusy
    BY <1>7, HandlerFinishesBusy DEF GatherContinues
  <2> QED
    BY <1>7, <2>1 DEF GatherContinues, Push
<1>8. CASE QueryFinishes \/ QueryGivesUp
  BY <1>8 DEF QueryFinishes, QueryGivesUp, QueryEnds
<1>9. CASE CoreRestarts
  BY <1>9 DEF CoreRestarts
<1>10. CASE LinkStep
  BY <1>1, <1>10 DEF LinkStep, clientVars
<1>11. CASE BoardStep \/ BoardEvent \/ UNCHANGED vars
  BY <1>1, <1>11 DEF BoardStep, BoardEvent, clientVars, vars
<1> QED
  BY <1>2, <1>3, <1>4, <1>5, <1>6, <1>7, <1>8, <1>9, <1>10, <1>11
  DEF Next, ClientStep, CoreIdles

\* Only the owner of twoWire1 has a query queued or in flight.
THEOREM OwnerDrivesSafe == Spec => []OwnerDrives
<1>1. Init => DriverInv
  BY DEF Init, CommInit, DriverInv, HandlerBusy, OwnerDrives, ClientActive
<1>2. DriverInv => OwnerDrives
  BY DEF DriverInv
<1> QED
  BY <1>1, <1>2, DriverStep, PTL DEF Spec

-----------------------------------------------------------------------------
(***************************************************************************)
(* How a task leaves the link.  While a client is active its handler holds *)
(* a query, and it is that query alone that may have a transaction or a    *)
(* reply: a query still to be enqueued has neither, so the reply that      *)
(* finishes a query is its own and the last query of a task leaves nothing *)
(* behind.  A WifiQueryModule that gave up has Abandoned the link: it owns *)
(* twoWire1 until the core restarts, and nothing is enqueued by then.      *)
(***************************************************************************)
Abandoned == owner = "query" /\ core # "WifiQueryModule"

LinkInv ==
  /\ DriverInv
  /\ Abandoned => "giveup" \in Faults
  /\ ~Abandoned =>
       /\ ClientActive => HandlerBusy
       /\ hasReply => address = 0
       /\ pending # "none" => active = "none" /\ address = 0 /\ ~hasReply
       /\ IdleLink

\* A link that is driven is not abandoned.
LEMMA BusyLink ==
  ASSUME LinkInv, HandlerBusy
  PROVE /\ ~Abandoned /\ ClientActive
        /\ hasReply => address = 0
        /\ pending # "none" => active = "none" /\ address = 0 /\ ~hasReply
  BY DEF LinkInv, DriverInv, OwnerDrives, ClientActive, Abandoned

\* After a query is finished the link is as before it was enqueued.
LEMMA HandlerFinishesLink ==
  ASSUME LinkInv, NEW gather, HandlerFinishes(gather)
  PROVE address' = 0 /\ ~hasReply' /\ Current = active /\ active # "none"
<1>1. HandlerBusy
  BY HandlerFinishesBusy
<1> QED
  BY <1>1, BusyLink
  DEF HandlerFinishes, FinishesWithReply, FinishesWithout, Enqueue, Starts, Current,
      HandlerBusy

LEMMA LinkInvStep == LinkInv /\ TypeInv /\ [Next]_vars => LinkInv'
<1> SUFFICES ASSUME LinkInv, TypeInv, [Next]_vars PROVE LinkInv'
  OBVIOUS
<1>d. DriverInv'
  BY DriverStep DEF LinkInv
<1> USE DEF LinkInv, IdleLink, ClientActive, HandlerBusy, Abandoned
<1>1. CASE UNCHANGED <<handlerVars, commVars, core, gathering, owner>>
  BY <1>d, <1>1 DEF handlerVars, commVars
<1>2. CASE EnterTakeReadings \/ EnterLiveDataReading \/ CoreReinitializes
  BY <1>d, <1>2
  DEF EnterTakeReadings, EnterLiveDataReading, CoreReinitializes, handlerVars, commVars,
      DriverInv
<1>3. CASE EnterQueryModule
  BY <1>d, <1>3 DEF EnterQueryModule, Push, handlerVars, commVars, DriverInv
<1>4. CASE StartGather
  BY <1>d, <1>4 DEF StartGather, Push, handlerVars, commVars, DriverInv
<1>5. CASE GatherNothing
  BY <1>d, <1>5 DEF GatherNothing, GatherEnds, commVars, DriverInv
<1>6. CASE GatherEnqueues \/ QueryEnqueues
  <2>1. HandlerBusy /\ UNCHANGED clientVars
    BY <1>6 DEF GatherEnqueues, QueryEnqueues, HandlerEnqueues, Starts
  <2>2. ~Abandoned /\ ~Abandoned'
    BY <2>1, BusyLink DEF clientVars
  <2> QED
    BY <1>d, <1>6, <2>1, <2>2
    DEF GatherEnqueues, QueryEnqueues, HandlerEnqueues, Enqueue, Starts, ModuleAddress,
        clientVars
<1>8. CASE GatherContinues
  <2>1. HandlerBusy /\ ~Abandoned /\ ~Abandoned'
    BY <1>8, HandlerFinishesBusy, BusyLink DEF GatherContinues
  <2> QED
    BY <1>d, <1>8, <2>1, HandlerFinishesLink DEF GatherContinues, Push
<1>9. CASE GatherCompletes \/ GatherFails
  <2>1. HandlerBusy
    BY <1>9, HandlerFinishesBusy DEF GatherCompletes, GatherFails
  <2>2. owner = "gather"
    BY <1>9, <2>1 DEF GatherCompletes, GatherFails, DriverInv, OwnerDrives
  <2> QED
    BY <1>d, <1>9, <2>2, HandlerFinishesLink
    DEF GatherCompletes, GatherFails, GatherEnds, DriverInv
<1>10. CASE QueryFinishes
  BY <1>d, <1>10, HandlerFinishesLink DEF QueryFinishes, QueryEnds, DriverInv
<1>11. CASE QueryGivesUp
  <2>1. owner = "query"
    BY <1>11 DEF QueryGivesUp, DriverInv, OwnerDrives
  <2> QED
    BY <1>d, <1>11, <2>1 DEF QueryGivesUp, QueryEnds
<1>12. CASE CoreRestarts
  BY <1>d, <1>12 DEF CoreRestarts, CommReset
<1>13. CASE LinkStep
  <2>0. HandlerBusy /\ ~Abandoned
    BY <1>13, BusyLink DEF LinkStep
  <2>1. /\ address # 0 /\ ~hasReply /\ pending = "none" /\ active # "none"
        /\ UNCHANGED <<core, gathering, owner, active, pending>>
    BY <1>13, <2>0
    DEF LinkStep, CommTask, CommProgress, Prepare, Send, SendFails, Receive,
        EndOfStream, Poll, Missed, Timeout, Asks, TransactionOpen, handlerVars, clientVars
  <2>2. hasReply' => address' = 0
    <3>1. ASSUME NEW r, Complete(r) PROVE hasReply' => address' = 0
      <4>1. CASE r.kind \in {"busy", "retry", "garbled"}
        BY <2>1, <3>1, <4>1 DEF Complete
      <4>2. CASE r.kind \notin {"busy", "retry", "garbled"}
        BY <3>1, <4>2 DEF Complete, Close
      <4> QED
        BY <4>1, <4>2
    <3> QED
      BY <1>13, <2>1, <3>1
      DEF LinkStep, CommTask, CommProgress, Prepare, Send, SendFails, Receive,
          EndOfStream, Poll, Missed, Timeout, CloseWithoutReply
  <2> QED
    BY <1>d, <2>0, <2>1, <2>2
<1>14. CASE BoardStep \/ BoardEvent \/ UNCHANGED vars
  BY <1>1, <1>14 DEF BoardStep, BoardEvent, clientVars, vars
<1> QED
  BY <1>2, <1>3, <1>4, <1>5, <1>6, <1>8, <1>9, <1>10, <1>11, <1>12, <1>13, <1>14
  DEF Next, ClientStep, CoreIdles

LEMMA LinkInvInit == Init => LinkInv
  BY DEF Init, CommInit, LinkInv, DriverInv, HandlerBusy, OwnerDrives, ClientActive,
         IdleLink, Abandoned

\* Every task of GatherReadings and AppModuleQueryTask ends with the link idle,
\* no reply left and the bus released, if WifiQueryModule never gives up.
THEOREM IdleLinkSafe ==
  ASSUME "giveup" \notin Faults
  PROVE Spec => []IdleLink
<1>1. LinkInv => IdleLink
  BY DEF LinkInv
<1> QED
  BY <1>1, LinkInvInit, LinkInvStep, TypeInit, TypeStep, PTL DEF Spec

\* Whatever else goes wrong, leaving WifiQueryModule after its ten second break is the
\* only way to end a task with a query, a reply or the bus still held; then twoWire1 is
\* the query task's, which is what AppModuleQueryTask's assertion finds.
THEOREM OnlyGiveUpLeaks == Spec => [](IdleLink \/ Abandoned)
<1>1. LinkInv => IdleLink \/ Abandoned
  BY DEF LinkInv
<1> QED
  BY <1>1, LinkInvInit, LinkInvStep, TypeInit, TypeStep, PTL DEF Spec

-----------------------------------------------------------------------------
(***************************************************************************)
(* What the board keeps to by itself, whatever arrives: the servicer runs  *)
(* only with a message there; a reply is of a kind that some query has;    *)
(* all sensors have the values of one gather; a reading in outgoing_ comes *)
(* before every one that is left, and IDLE was said when none was.         *)
(***************************************************************************)
BoardInv ==
  /\ fsm = "ModuleServicer" => incoming # NoQuery
  /\ decoded # NoQuery => fsm = "ModuleServicer"
  /\ outgoing = NoReply \/ outgoing.kind \in {"begin", "done", "idle", "error"}
  /\ fsm = "TakeSensorReadings" => outgoing = NoReply \/ outgoing.kind = "begin"
  /\ \A i, j \in Sensors : sensors[i].gather = sensors[j].gather
  /\ outgoing.kind = "done" =>
       /\ \A i \in Sensors : outgoing.gather = sensors[i].gather
       /\ \A i \in Sensors : Done(i) => outgoing.sensor < i
  /\ outgoing.kind = "idle" => \A i \in Sensors : ~Done(i)

\* The kinds of the replies that are not readings.
LEMMA PlainKinds ==
  /\ NoReply.kind = "none" /\ NoReply.gather = 0
  /\ \A kind \in ReplyKinds \union {"none", "garbled"} :
       Plain(kind).kind = kind /\ Plain(kind).gather = 0
  BY DEF NoReply, Plain

LEMMA ReceiveKeepsBoardInv ==
  ASSUME BoardInv, NEW q, q # NoQuery, ReceiveInterrupt(q)
  PROVE BoardInv'
<1>1. incoming' # NoQuery
  BY DEF ReceiveInterrupt, NoQuery, GarbledQuery
<1>2. decoded' # NoQuery => decoded # NoQuery
  BY DEF ReceiveInterrupt
<1> QED
  BY <1>1, <1>2 DEF BoardInv, ReceiveInterrupt, Done

LEMMA ReplyKeepsBoardInv ==
  ASSUME BoardInv, ReplyInterrupt
  PROVE BoardInv'
  BY PlainKinds DEF BoardInv, ReplyInterrupt, Done

LEMMA RestartBoardInv ==
  ASSUME NEW state \in {"Booting", "ModuleIdle"}, Restart(state)
  PROVE BoardInv'
  BY PlainKinds DEF BoardInv, Restart, UninitialisedSensors

LEMMA UnchangedBoardInv ==
  ASSUME BoardInv, UNCHANGED boardVars
  PROVE BoardInv'
  BY DEF BoardInv, boardVars, Done

\* What one handled status query does to the readings: either none was done, or
\* the first that was is handed out and forgotten.
LEMMA HandleStatusReadings ==
  ASSUME BoardTypeOK, HandleStatus
  PROVE /\ \A i \in Sensors : sensors'[i].gather = sensors[i].gather
        /\ \A i \in Sensors : Done(i)' => Done(i)
        /\ \/ /\ UNCHANGED sensors /\ outgoing' = Plain("idle")
              /\ \A i \in Sensors : ~Done(i)
           \/ \E i \in Sensors :
                /\ Done(i) /\ ~Done(i)'
                /\ outgoing' = [kind |-> "done", sensor |-> i, gather |-> sensors[i].gather]
                /\ \A j \in Sensors : Done(j) => i <= j
                /\ \A j \in Sensors : Done(j) /\ j # i => Done(j)'
<1>1. CASE (\A i \in Sensors : ~Done(i)) /\ UNCHANGED sensors /\ outgoing' = Plain("idle")
  BY <1>1 DEF Done
<1>2. ASSUME NEW i \in Sensors, FirstDone(i), outgoing' = ReadingOf(i),
             sensors' = [sensors EXCEPT ![i].status = "Idle"]
      PROVE /\ \A j \in Sensors : sensors'[j].gather = sensors[j].gather
            /\ \A j \in Sensors : j # i => sensors'[j] = sensors[j]
            /\ Done(i) /\ ~Done(i)'
            /\ outgoing' = [kind |-> "done", sensor |-> i, gather |-> sensors[i].gather]
            /\ \A j \in Sensors : Done(j) => i <= j
  <2>1. sensors \in [Sensors -> SensorReading] /\ sensors[i] \in SensorReading
    BY DEF BoardTypeOK
  <2>2. /\ sensors'[i].status = "Idle" /\ sensors'[i].gather = sensors[i].gather
        /\ \A j \in Sensors : j # i => sensors'[j] = sensors[j]
    BY <1>2, <2>1 DEF SensorReading
  <2> QED
    BY <1>2, <2>2 DEF FirstDone, ReadingOf, Done
<1> QED
  BY <1>1, <1>2 DEF HandleStatus, Done

\* How the other steps of the board's loop leave the readings.
LEMMA TakeReadingsDone ==
  ASSUME BoardTypeOK, TakeSensorReadings
  PROVE \A i \in Sensors : Done(i)' /\ sensors'[i].gather = sensors[i].gather
<1>1. \A i \in Sensors : sensors[i] \in SensorReading
  BY DEF BoardTypeOK
<1> QED
  BY <1>1 DEF TakeSensorReadings, SensorReading, Done

LEMMA BoardLoopKeepsBoardInv ==
  ASSUME BoardTypeOK, BoardInv, BoardLoop \/ TakeSensorReadings \/ Reset
  PROVE BoardInv'
<1> USE DEF BoardInv
<1>1. CASE Notice \/ Decode \/ Boot \/ Configured
  BY <1>1 DEF Notice, Decode, Boot, Configured, Done
<1>2. CASE DropMalformed
  BY <1>2 DEF DropMalformed, Handled, Done
<1>3. CASE HandleBegin
  BY <1>3, PlainKinds DEF HandleBegin, Handled, Done, ReplyKinds
<1>4. CASE HandleStatus
  <2>1. incoming' = NoQuery /\ decoded' = NoQuery /\ fsm' = "ModuleIdle"
    BY <1>4 DEF HandleStatus, Handled
  <2>2. CASE UNCHANGED sensors /\ outgoing' = Plain("idle") /\ \A i \in Sensors : ~Done(i)
    BY <2>1, <2>2, PlainKinds DEF ReplyKinds, Done
  <2>3. ASSUME NEW i \in Sensors, Done(i), ~Done(i)',
               outgoing' = [kind |-> "done", sensor |-> i, gather |-> sensors[i].gather],
               \A j \in Sensors : Done(j) => i <= j
        PROVE BoardInv'
    <3>1. outgoing'.kind = "done" /\ outgoing'.sensor = i
          /\ outgoing'.gather = sensors[i].gather
      BY <2>3
    <3>2. \A j \in Sensors : Done(j)' => i < j
      BY <1>4, <2>3, HandleStatusReadings DEF Sensors
    <3> QED
      BY <1>4, <2>1, <3>1, <3>2, HandleStatusReadings
  <2> QED
    BY <1>4, <2>2, <2>3, HandleStatusReadings
<1>5. CASE HandleCustom
  BY <1>5, PlainKinds DEF HandleCustom, Handled, Done, ReplyKinds
<1>6. CASE TakeSensorReadings
  <2>1. /\ outgoing' = NoReply \/ outgoing'.kind = "begin"
        /\ outgoing'.kind \notin {"done", "idle"}
    BY <1>6, PlainKinds DEF TakeSensorReadings
  <2>2. fsm' = "ModuleIdle" /\ decoded' = NoQuery
    BY <1>6 DEF TakeSensorReadings
  <2>3. \A i, j \in Sensors : sensors'[i].gather = sensors'[j].gather
    BY <1>6, TakeReadingsDone
  <2> QED
    BY <2>1, <2>2, <2>3
<1>7. CASE Reset
  BY <1>7, RestartBoardInv DEF Reset
<1> QED
  BY <1>1, <1>2, <1>3, <1>4, <1>5, <1>6, <1>7 DEF BoardLoop

-----------------------------------------------------------------------------
(***************************************************************************)
(* The link as the readings see it: the reply that the core has from the   *)
(* board and that no client has had yet, and whether the gather is still   *)
(* Beginning, with a begin to be answered, or Asking for its readings.     *)
(***************************************************************************)
Held ==
  IF hasReply THEN reply
  ELSE IF TransactionOpen /\ wire = "eos" THEN received ELSE NoReply

Beginning == active = "begin" \/ pending = "begin"
Asking == active = "status" \/ pending = "status"

\* The kinds that a handled query can have as its reply.
Handed == {"begin", "done", "idle", "error"}

\* Whose query is in the transaction, and what may be in a reply.
QueryInv ==
  /\ gathering => active # "custom" /\ pending # "custom"
  /\ core = "WifiQueryModule" => ~Beginning /\ ~Asking
  /\ address # 0 /\ HandlerBusy =>
       query.type = active /\ query.gather = IF gathering THEN number ELSE 0
  /\ hasReply => reply.kind \in Handed
  /\ wire = "eos" => received.kind # "none"

\* A query in the handler is of the client that is active.
LEMMA WhoAsks ==
  ASSUME TypeInv, LinkInv, QueryInv
  PROVE /\ Beginning \/ Asking => gathering /\ owner = "gather" /\ HandlerBusy
        /\ HandlerBusy /\ ~gathering => ~Beginning /\ ~Asking
        /\ HandlerBusy => ~Abandoned
<1>1. HandlerBusy => ClientActive /\ OwnerDrives
  BY DEF LinkInv, DriverInv
<1>2. Beginning \/ Asking => HandlerBusy
  BY DEF Beginning, Asking, HandlerBusy
<1> QED
  BY <1>1, <1>2, BusyLink DEF ClientActive, OwnerDrives, QueryInv

\* What reaches the core is a reply, or says that there is none.
LEMMA AnswerKinds ==
  ASSUME BoardInv, NEW r \in Arrives
  PROVE /\ r.kind \in Handed \union {"busy", "retry", "garbled"}
        /\ \/ r = outgoing /\ r.kind \in Handed
           \/ r = Plain("garbled") /\ "corrupt" \in Faults
           \/ r \in {Plain("busy"), Plain("retry")} /\ outgoing = NoReply
<1>1. CASE r = Plain("garbled") /\ "corrupt" \in Faults
  BY <1>1, PlainKinds
<1>2. CASE r = Answer /\ outgoing # NoReply
  BY <1>2 DEF Answer, BoardInv, Handed
<1>3. CASE r = Answer /\ outgoing = NoReply
  BY <1>3, PlainKinds DEF Answer, ReplyKinds
<1> QED
  BY <1>1, <1>2, <1>3 DEF Arrives

\* Decoding: what the core holds afterwards, and that the rest of QueryInv stays.
LEMMA CompleteHeld ==
  ASSUME NEW r, Complete(r), TransactionOpen, ~hasReply,
         r.kind \in Handed \union {"busy", "retry", "garbled"}
  PROVE /\ hasReply' => reply'.kind \in Handed
        /\ wire' = "eos" => received'.kind # "none"
        /\ UNCHANGED query
        /\ Held' = IF r.kind \in Handed THEN r ELSE NoReply
<1>1. CASE r.kind = "busy"
  BY <1>1 DEF Complete, Held, NoReply, Plain, Handed
<1>2. CASE r.kind = "retry"
  BY <1>2 DEF Complete, Held, TransactionOpen, Handed
<1>3. CASE r.kind = "garbled"
  BY <1>3 DEF Complete, Close, Held, TransactionOpen, Handed
<1>4. CASE r.kind \in Handed
  BY <1>4 DEF Complete, Close, Held, TransactionOpen, Handed
<1> QED
  BY <1>1, <1>2, <1>3, <1>4

\* The last two parts of QueryInv, which the steps of the link must keep.
ReplyParts ==
  /\ hasReply => reply.kind \in Handed
  /\ wire = "eos" => received.kind # "none"

Exact == Faults \subseteq {"noise"}

(***************************************************************************)
(* Every step of ModuleCommunications::task sends the query, fetches what  *)
(* is in outgoing_, or leaves the board alone.  Without other faults than  *)
(* noise no reply is lost on the way.                                      *)
(***************************************************************************)
LEMMA LinkKinds ==
  ASSUME TypeInv, LinkInv, BoardInv, QueryInv, HandlerBusy, CommTask
  PROVE /\ \/ /\ \E q \in {query, GarbledQuery} : ReceiveInterrupt(q)
              /\ Held = NoReply /\ Held' = NoReply
              /\ UNCHANGED early
           \/ /\ ReplyInterrupt
              /\ Held = NoReply
              /\ early' \in {early, TRUE}
              /\ \/ Held' = outgoing
                 \/ /\ Held' \in {Plain(kind) : kind \in {"none", "busy", "retry", "garbled"}}
                    /\ Exact => outgoing = NoReply
           \/ /\ UNCHANGED <<boardVars, early>>
              /\ Held' = Held \/ (Held' = NoReply /\ (Exact => Held.kind \notin Handed))
        /\ ReplyParts' /\ UNCHANGED query
        /\ address # 0
<1>1. ~hasReply /\ address # 0
  BY BusyLink
  DEF CommTask, CommProgress, Prepare, Send, SendFails, Receive, EndOfStream, Poll,
      Missed, Timeout, Asks, TransactionOpen
<1>2. NoReply.kind \notin Handed /\ NoReply = Plain("none")
  BY PlainKinds DEF Handed, NoReply
<1>e. early' = (early \/ AsksTooEarly) => early' \in {early, TRUE}
  BY DEF TypeInv, TypeOK, CommTypeOK
<1> USE DEF TransactionOpen
<1>3. CASE Prepare
  BY <1>1, <1>2, <1>3 DEF Prepare, Held, ReplyParts, QueryInv
<1>4. CASE Send
  BY <1>1, <1>4 DEF Send, Held, ReplyParts, QueryInv
<1>5. CASE SendFails
  BY <1>1, <1>2, <1>5
  DEF SendFails, Held, ReplyParts, QueryInv, CloseWithoutReply, Close
<1>6. CASE Receive
  <2>1. received' \in Arrives /\ ReplyInterrupt /\ wire \in {"wait", "late"}
        /\ wire' = "eos" /\ early' \in {early, TRUE}
        /\ UNCHANGED <<address, query, hasQuery, hasReply, reply>> /\ ~hasQuery
    BY <1>e, <1>6 DEF Receive, Asks
  <2>2. Held = NoReply /\ Held' = received'
    BY <1>1, <2>1 DEF Held
  <2>3. /\ received'.kind \in Handed \union {"busy", "retry", "garbled"}
        /\ \/ received' = outgoing
           \/ received' = Plain("garbled") /\ "corrupt" \in Faults
           \/ received' \in {Plain("busy"), Plain("retry")} /\ outgoing = NoReply
    BY <2>1, AnswerKinds
  <2>4. ReplyParts'
    BY <1>1, <2>1, <2>3 DEF ReplyParts, QueryInv, Handed
  <2> QED
    BY <1>1, <2>1, <2>2, <2>3, <2>4 DEF Exact
<1>7. CASE EndOfStream
  <2>1. Held = received /\ received.kind \in Handed \union {"busy", "retry", "garbled"}
    <3>1. received.kind \in ReplyKinds \union {"none", "garbled"}
      BY DEF TypeInv, TypeOK, CommTypeOK, Reply
    <3> QED
      BY <1>1, <1>7, <3>1 DEF EndOfStream, Held, QueryInv, ReplyKinds, Handed
  <2>2. Held' = (IF received.kind \in Handed THEN received ELSE NoReply)
        /\ ReplyParts' /\ UNCHANGED query
    BY <1>1, <1>7, <2>1, CompleteHeld DEF EndOfStream, ReplyParts
  <2> QED
    BY <1>1, <1>7, <2>1, <2>2 DEF EndOfStream
<1>8. CASE Poll
  <2>1. PICK r \in Arrives : Complete(r)
    BY <1>8 DEF Poll
  <2>2. ReplyInterrupt /\ Held = NoReply /\ TransactionOpen /\ early' \in {early, TRUE}
    BY <1>1, <1>e, <1>8 DEF Poll, Asks, Held
  <2>3. Held' = (IF r.kind \in Handed THEN r ELSE NoReply)
        /\ ReplyParts' /\ UNCHANGED query
    BY <1>1, <2>1, <2>2, AnswerKinds, CompleteHeld DEF ReplyParts
  <2>4. r.kind \in Handed => r = outgoing
    BY <2>1, AnswerKinds, PlainKinds DEF Handed, ReplyKinds
  <2>5. r.kind \notin Handed /\ Exact => outgoing = NoReply
    BY <2>1, AnswerKinds DEF Exact
  <2> QED
    BY <1>1, <1>2, <2>2, <2>3, <2>4, <2>5
<1>9. CASE Missed
  BY <1>1, <1>2, <1>9 DEF Missed, Held, ReplyParts, QueryInv, CloseWithoutReply, Close
<1>10. CASE Timeout
  BY <1>1, <1>2, <1>10
  DEF Timeout, Held, ReplyParts, QueryInv, CloseWithoutReply, Close, Exact
<1> QED
  BY <1>3, <1>4, <1>5, <1>6, <1>7, <1>8, <1>9, <1>10 DEF CommTask, CommProgress

LEMMA QueryInvInit == Init => QueryInv
  BY PlainKinds
  DEF Init, CommInit, QueryInv, Beginning, Asking, HandlerBusy

LEMMA QueryInvStep ==
  TypeInv /\ LinkInv /\ BoardInv /\ QueryInv /\ [Next]_vars => QueryInv'
<1> SUFFICES ASSUME TypeInv, LinkInv, BoardInv, QueryInv, [Next]_vars PROVE QueryInv'
  OBVIOUS
<1> USE DEF Beginning, Asking, HandlerBusy
<1>1. CASE UNCHANGED <<commVars, handlerVars, core, gathering, number>>
  BY <1>1 DEF QueryInv, commVars, handlerVars
<1>2. CASE EnterTakeReadings \/ EnterLiveDataReading \/ CoreReinitializes
  BY <1>2
  DEF EnterTakeReadings, EnterLiveDataReading, CoreReinitializes, QueryInv, commVars,
      handlerVars
<1>3. CASE EnterQueryModule
  <2>1. ~gathering /\ ~HandlerBusy
    BY <1>3 DEF EnterQueryModule, LinkInv, DriverInv, ClientActive
  <2>2. CASE owner = "none"
    <3>1. address' = 0
      BY <1>3, <2>1, <2>2
      DEF EnterQueryModule, LinkInv, IdleLink, ClientActive, Abandoned, commVars
    <3> QED
      BY <1>3, <2>1, <2>2, <3>1 DEF EnterQueryModule, Push, QueryInv, commVars
  <2>3. CASE owner # "none"
    BY <1>3, <2>1, <2>3 DEF EnterQueryModule, QueryInv, commVars, handlerVars
  <2> QED
    BY <2>2, <2>3
<1>4. CASE StartGather
  <2>1. ~HandlerBusy /\ core # "WifiQueryModule"
    BY <1>4 DEF StartGather, LinkInv, DriverInv, ClientActive
  <2>2. CASE owner = "none"
    <3>1. address' = 0
      BY <1>4, <2>1, <2>2
      DEF StartGather, LinkInv, IdleLink, ClientActive, Abandoned
    <3> QED
      BY <1>4, <2>1, <2>2, <3>1 DEF StartGather, Push, QueryInv
  <2>3. CASE owner # "none"
    BY <1>4, <2>1, <2>3 DEF StartGather, QueryInv, handlerVars
  <2> QED
    BY <2>2, <2>3
<1>5. CASE GatherNothing
  BY <1>5 DEF GatherNothing, GatherEnds, QueryInv, commVars
<1>6. CASE GatherEnqueues
  BY <1>6
  DEF GatherEnqueues, HandlerEnqueues, Enqueue, Starts, QueryInv, clientVars
<1>7. CASE GatherContinues
  <2>1. core # "WifiQueryModule"
    BY <1>7 DEF GatherContinues, LinkInv, DriverInv
  <2> QED
    BY <1>7, <2>1, HandlerFinishesLink DEF GatherContinues, HandlerFinishes, Push, QueryInv
<1>8. CASE GatherCompletes \/ GatherFails
  BY <1>8, HandlerFinishesLink
  DEF GatherCompletes, GatherFails, HandlerFinishes, GatherEnds, QueryInv
<1>9. CASE QueryEnqueues
  <2>1. ~gathering
    BY <1>9 DEF QueryEnqueues, LinkInv, DriverInv
  <2> QED
    BY <1>9, <2>1
    DEF QueryEnqueues, HandlerEnqueues, Enqueue, Starts, QueryInv, clientVars
<1>10. CASE QueryFinishes
  BY <1>10, HandlerFinishesLink DEF QueryFinishes, HandlerFinishes, QueryEnds, QueryInv
<1>11. CASE QueryGivesUp
  BY <1>11 DEF QueryGivesUp, QueryEnds, QueryInv, commVars
<1>12. CASE CoreRestarts
  BY <1>12 DEF CoreRestarts, CommReset, QueryInv
<1>13. CASE LinkStep
  BY <1>13, LinkKinds DEF LinkStep, QueryInv, ReplyParts, handlerVars, clientVars
<1>14. CASE BoardStep \/ BoardEvent \/ UNCHANGED vars
  BY <1>1, <1>14 DEF BoardStep, BoardEvent, clientVars, vars
<1> QED
  BY <1>2, <1>3, <1>4, <1>5, <1>6, <1>7, <1>8, <1>9, <1>10, <1>11, <1>12, <1>13, <1>14
  DEF Next, ClientStep, CoreIdles

LEMMA BoardInvInit == Init => BoardInv
  BY PlainKinds DEF Init, BoardInit, BoardInv, UninitialisedSensors

\* The query in a transaction is one that the client pushed.
LEMMA SentQuery ==
  ASSUME TypeInv, LinkInv, QueryInv, HandlerBusy, address # 0
  PROVE /\ query.type = active /\ active \in QueryTypes /\ query # NoQuery
        /\ query.gather = IF gathering THEN number ELSE 0
<1>1. active \in QueryTypes
  BY BusyLink DEF HandlerBusy, TypeInv, TypeOK, CommTypeOK
<1> QED
  BY <1>1 DEF QueryInv, NoQuery, QueryTypes

LEMMA BoardInvStep ==
  TypeInv /\ LinkInv /\ BoardInv /\ QueryInv /\ [Next]_vars => BoardInv'
<1> SUFFICES ASSUME TypeInv, LinkInv, BoardInv, QueryInv, [Next]_vars PROVE BoardInv'
  OBVIOUS
<1>1. CASE UNCHANGED boardVars
  BY <1>1, UnchangedBoardInv
<1>2. CASE LinkStep
  <2>1. HandlerBusy /\ CommTask
    BY <1>2 DEF LinkStep
  <2>2. query # NoQuery /\ GarbledQuery # NoQuery
    BY <2>1, LinkKinds, SentQuery DEF GarbledQuery, NoQuery
  <2> QED
    BY <2>1, <2>2, LinkKinds, ReceiveKeepsBoardInv, ReplyKeepsBoardInv, UnchangedBoardInv
<1>3. CASE BoardStep \/ BoardEvent
  BY <1>3, BoardLoopKeepsBoardInv DEF BoardStep, BoardEvent, TypeInv, TypeOK
<1>4. CASE CoreRestarts
  BY <1>4, RestartBoardInv DEF CoreRestarts
<1>5. CASE Next /\ ~LinkStep /\ ~BoardStep /\ ~BoardEvent /\ ~CoreRestarts
  BY <1>1, <1>5
  DEF Next, ClientStep, CoreIdles, EnterTakeReadings, EnterLiveDataReading,
      EnterQueryModule, StartGather, GatherNothing, GatherEnqueues, GatherContinues,
      GatherCompletes, GatherFails, QueryEnqueues, QueryFinishes, QueryEnds,
      QueryGivesUp, CoreReinitializes, vars
<1> QED
  BY <1>1, <1>2, <1>3, <1>4, <1>5 DEF vars

\* What is known of the link, the board and the clients' queries, under any faults.
BaseInv == TypeInv /\ LinkInv /\ BoardInv /\ QueryInv

LEMMA BaseInvariant == Spec => []BaseInv
<1>1. Init => BaseInv
  BY TypeInit, LinkInvInit, BoardInvInit, QueryInvInit DEF BaseInv
<1>2. BaseInv /\ [Next]_vars => BaseInv'
  BY TypeStep, LinkInvStep, BoardInvStep, QueryInvStep DEF BaseInv
<1> QED
  BY <1>1, <1>2, PTL DEF Spec

-----------------------------------------------------------------------------
(***************************************************************************)
(* The steps as the readings see them.  The invariants about readings are  *)
(* over the board, what the core Held, whether the gather is Beginning or  *)
(* Asking, and the log; every step of the system is one of these kinds.    *)
(***************************************************************************)
Open == gathering /\ owner = "gather"

\* A query arrives at the board: the client's, or garbled.
Sends ==
  /\ \E q \in Query :
       /\ ReceiveInterrupt(q)
       /\ q.type \in {"begin", "status"} => Open /\ q.gather = number
       /\ q.type = "begin" => Beginning
       /\ q.type = "status" => Asking
       /\ q.type = "custom" => ~Beginning /\ ~Asking
       /\ q.type \notin {"begin", "status"} => q.gather = 0
  /\ Held = NoReply /\ Held' = NoReply
  /\ UNCHANGED <<early, handlerVars, clientVars>>

\* The core asks for the reply.
Fetches ==
  /\ ReplyInterrupt
  /\ Held = NoReply
  /\ \/ Held' = outgoing
     \/ /\ Held' \in {Plain(kind) : kind \in {"none", "busy", "retry", "garbled"}}
        /\ Exact => outgoing = NoReply
  /\ early' \in {early, TRUE}
  /\ UNCHANGED <<handlerVars, clientVars>>

BoardMoves ==
  /\ BoardLoop \/ TakeSensorReadings \/ Reset
  /\ Held' = Held
  /\ UNCHANGED <<commVars, handlerVars, clientVars>>

\* Nothing happens to a reading, but for one in a reply that a fault drops.
Waits ==
  /\ UNCHANGED <<boardVars, early, number, log, complete>>
  /\ Held' = Held \/ (Held' = NoReply /\ (Exact /\ Asking' => Held.kind # "done"))
  /\ Asking' => Asking
  /\ Beginning' => Beginning
  /\ Open' => Open

\* GatherReadings::enqueued, with the bus.
Begins ==
  /\ UNCHANGED <<boardVars, log, complete>>
  /\ number' = number + 1
  /\ early' = FALSE
  /\ Held = NoReply /\ Held' = NoReply
  /\ Beginning' /\ ~Asking'
  /\ ~HandlerBusy
  /\ ~Open /\ Open'

\* The reply to the begin, whatever it is.
Turns ==
  /\ UNCHANGED <<boardVars, early, number, log, complete>>
  /\ active = "begin" /\ Held.kind \in Handed /\ Held' = NoReply
  /\ Asking' /\ ~Beginning'
  /\ Open /\ Open'

\* A reading is merged.
Records ==
  /\ UNCHANGED <<boardVars, early, number, complete>>
  /\ Asking /\ Held.kind = "done" /\ Held' = NoReply
  /\ Merge(Held)
  /\ Asking' /\ ~Beginning'
  /\ Open /\ Open'

\* The module has no reading left, or so its reply says.
Completes ==
  /\ UNCHANGED <<boardVars, early, number, log>>
  /\ Asking /\ Held.kind \in {"idle", "error"} /\ Held' = NoReply
  /\ complete' = complete \union {number}
  /\ ~Asking' /\ ~Beginning'
  /\ Open /\ ~Open'

Restarts ==
  /\ Restart("ModuleIdle")
  /\ UNCHANGED <<early, number, log, complete>>
  /\ Held' = NoReply
  /\ ~Asking' /\ ~Beginning'
  /\ ~Open /\ ~Open'

LEMMA LinkStepKinds == BaseInv /\ LinkStep => Sends \/ Fetches \/ Waits
<1> SUFFICES ASSUME BaseInv, LinkStep PROVE Sends \/ Fetches \/ Waits
  OBVIOUS
<1> USE DEF BaseInv
<1>1. HandlerBusy /\ CommTask /\ UNCHANGED <<handlerVars, clientVars>>
  BY DEF LinkStep
<1>2. address # 0
  BY <1>1, LinkKinds
<1>3. ASSUME NEW q \in {query, GarbledQuery}, ReceiveInterrupt(q),
             Held = NoReply, Held' = NoReply, UNCHANGED early
      PROVE Sends
  <2>1. q \in Query
    BY QueryConstants DEF TypeInv, TypeOK, CommTypeOK
  <2>2. CASE q = query
    <3>1. /\ query.type = active /\ active \in QueryTypes
          /\ query.gather = IF gathering THEN number ELSE 0
      BY <1>1, <1>2, SentQuery
    <3>2. /\ active \in {"begin", "status"} => Open
          /\ active = "custom" => ~gathering /\ ~Beginning /\ ~Asking
      BY <1>1, WhoAsks DEF Open, Beginning, Asking, QueryInv
    <3>3. active \in {"begin", "status"} => query.gather = number
      BY <3>1, <3>2 DEF Open
    <3>4. active \notin {"begin", "status"} => query.gather = 0
      BY <3>1, <3>2 DEF QueryTypes
    <3> QED
      BY <1>1, <1>3, <2>1, <2>2, <3>1, <3>2, <3>3, <3>4 DEF Sends, Beginning, Asking
  <2>3. CASE q = GarbledQuery
    BY <1>1, <1>3, <2>1, <2>3 DEF Sends, GarbledQuery
  <2> QED
    BY <2>2, <2>3
<1>4. CASE /\ ReplyInterrupt
           /\ Held = NoReply
           /\ early' \in {early, TRUE}
           /\ \/ Held' = outgoing
              \/ /\ Held' \in {Plain(kind) : kind \in {"none", "busy", "retry", "garbled"}}
                 /\ Exact => outgoing = NoReply
  BY <1>1, <1>4 DEF Fetches
<1>5. CASE /\ UNCHANGED <<boardVars, early>>
           /\ Held' = Held \/ (Held' = NoReply /\ (Exact => Held.kind \notin Handed))
  BY <1>1, <1>5 DEF Waits, Handed, handlerVars, clientVars, Asking, Beginning, Open
<1> QED
  BY <1>1, <1>3, <1>4, <1>5, LinkKinds

\* What the clients' steps do to the reply that is held.
LEMMA HeldUnchanged ==
  ASSUME UNCHANGED commVars
  PROVE Held' = Held /\ early' = early
  BY DEF commVars, Held, TransactionOpen

LEMMA HeldIdle ==
  ASSUME address = 0, ~hasReply
  PROVE Held = NoReply
  BY DEF Held, TransactionOpen

LEMMA FinishHeld ==
  ASSUME BaseInv, NEW gather, HandlerFinishes(gather)
  PROVE /\ Held' = NoReply /\ Current = active /\ early' = early
        /\ FinishesWithReply => Held = reply /\ Held.kind \in Handed
        /\ ~Abandoned
<1>1. Held' = NoReply
  BY HandlerFinishesLink DEF BaseInv, Held, TransactionOpen
<1>2. FinishesWithReply => Held = reply /\ Held.kind \in Handed
  BY DEF FinishesWithReply, Held, BaseInv, QueryInv
<1>3. early' = early
  BY DEF HandlerFinishes
<1> QED
  BY <1>1, <1>2, <1>3, HandlerFinishesLink, HandlerFinishesBusy, BusyLink DEF BaseInv

LEMMA StartKinds == BaseInv /\ StartGather => Begins \/ Waits
<1> SUFFICES ASSUME BaseInv, StartGather PROVE Begins \/ Waits
  OBVIOUS
<1>1. ~HandlerBusy /\ ~ClientActive
  BY DEF StartGather, BaseInv, LinkInv, DriverInv, ClientActive
<1>2. Held' = Held
  BY DEF StartGather, Held, TransactionOpen
<1>3. CASE owner = "none"
  <2>1. address = 0 /\ ~hasReply
    BY <1>1, <1>3 DEF BaseInv, LinkInv, IdleLink, Abandoned
  <2> QED
    BY <1>1, <1>2, <1>3, <2>1, HeldIdle
    DEF StartGather, Begins, Push, Beginning, Asking, Open
<1>4. CASE owner # "none"
  <2>1. owner # "gather"
    BY <1>1, <1>4 DEF BaseInv, LinkInv, IdleLink, Abandoned
  <2> QED
    BY <1>1, <1>2, <1>4, <2>1
    DEF StartGather, Waits, handlerVars, Beginning, Asking, Open
<1> QED
  BY <1>3, <1>4

LEMMA ContinueKinds == BaseInv /\ GatherContinues => Turns \/ Records \/ Waits
<1> SUFFICES ASSUME BaseInv, GatherContinues PROVE Turns \/ Records \/ Waits
  OBVIOUS
<1>1. /\ HandlerFinishes(number) /\ FinishesWithReply
      /\ Held' = NoReply /\ early' = early /\ Current = active /\ Held = reply /\ Held.kind \in Handed
  BY FinishHeld DEF GatherContinues
<1>2. Asking' /\ ~Beginning'
  BY DEF GatherContinues, Push, Asking, Beginning
<1>3. Open /\ Open'
  <2>1. HandlerBusy /\ gathering
    BY <1>1, HandlerFinishesBusy DEF GatherContinues
  <2> QED
    BY <2>1 DEF GatherContinues, BaseInv, LinkInv, DriverInv, OwnerDrives, Open
<1>4. CASE Current = "begin" /\ UNCHANGED log
  BY <1>1, <1>2, <1>3, <1>4 DEF GatherContinues, Turns
<1>5. CASE Current = "status" /\ reply.kind = "begin" /\ UNCHANGED log
  BY <1>1, <1>2, <1>3, <1>5 DEF GatherContinues, Waits, Asking
<1>6. CASE Current = "status" /\ reply.kind = "done" /\ Merge(reply)
  BY <1>1, <1>2, <1>3, <1>6 DEF GatherContinues, Records, Asking
<1> QED
  BY <1>4, <1>5, <1>6 DEF GatherContinues

LEMMA GatherEndKinds ==
  BaseInv /\ (GatherNothing \/ GatherCompletes \/ GatherFails) => Completes \/ Waits
<1> SUFFICES ASSUME BaseInv, GatherNothing \/ GatherCompletes \/ GatherFails
             PROVE Completes \/ Waits
  OBVIOUS
<1>1. ASSUME NEW ok, GatherEnds(ok) PROVE ~Asking' /\ ~Beginning' /\ ~Open'
  BY <1>1 DEF GatherEnds, Asking, Beginning, Open
<1>2. CASE GatherNothing
  BY <1>1, <1>2, HeldUnchanged DEF GatherNothing, GatherEnds, Waits
<1>3. CASE GatherCompletes
  <2>1. /\ FinishesWithReply /\ HandlerFinishes(number)
        /\ Held' = NoReply /\ early' = early /\ active = "status" /\ Held = reply /\ Held.kind \in Handed
    BY <1>3, FinishHeld DEF GatherCompletes
  <2>2. Held.kind \in {"idle", "error"}
    BY <1>3, <2>1 DEF GatherCompletes, Handed
  <2>3. Asking /\ Open
    BY <2>1, WhoAsks DEF Asking, Open, BaseInv
  <2> QED
    BY <1>1, <1>3, <2>1, <2>2, <2>3 DEF GatherCompletes, GatherEnds, Completes
<1>4. CASE GatherFails
  BY <1>1, <1>4, FinishHeld DEF GatherFails, GatherEnds, Waits
<1> QED
  BY <1>2, <1>3, <1>4

LEMMA EnqueueKinds ==
  ASSUME BaseInv, NEW gather, HandlerEnqueues(gather), UNCHANGED <<boardVars, clientVars>>
  PROVE Waits
<1>1. Held' = NoReply /\ early' = early
  BY DEF HandlerEnqueues, Enqueue, Held, TransactionOpen
<1>2. Held = NoReply
  BY HeldIdle DEF HandlerEnqueues, Starts
<1>3. (Asking' => Asking) /\ (Beginning' => Beginning)
  BY DEF HandlerEnqueues, Asking, Beginning
<1> QED
  BY <1>1, <1>2, <1>3 DEF Waits, clientVars, Open

LEMMA StepKinds ==
  BaseInv /\ [Next]_vars =>
    \/ Sends \/ Fetches \/ BoardMoves \/ Waits
    \/ Begins \/ Turns \/ Records \/ Completes \/ Restarts
<1> SUFFICES ASSUME BaseInv, [Next]_vars
             PROVE \/ Sends \/ Fetches \/ BoardMoves \/ Waits
                   \/ Begins \/ Turns \/ Records \/ Completes \/ Restarts
  OBVIOUS
<1>1. CASE UNCHANGED <<boardVars, commVars, handlerVars, number, log, complete,
                       gathering, owner>>
  BY <1>1, HeldUnchanged DEF Waits, handlerVars, Asking, Beginning, Open
<1>2. CASE EnterTakeReadings \/ EnterLiveDataReading \/ CoreReinitializes
  BY <1>1, <1>2 DEF EnterTakeReadings, EnterLiveDataReading, CoreReinitializes
<1>3. CASE EnterQueryModule
  <2>1. Held' = Held /\ early' = early
    BY <1>3, HeldUnchanged DEF EnterQueryModule
  <2>2. (Asking' => Asking) /\ (Beginning' => Beginning) /\ (Open' => Open)
    BY <1>3 DEF EnterQueryModule, Push, Asking, Beginning, Open, handlerVars
  <2> QED
    BY <1>3, <2>1, <2>2 DEF EnterQueryModule, Waits
<1>4. CASE QueryEnqueues \/ GatherEnqueues
  BY <1>4, EnqueueKinds DEF QueryEnqueues, GatherEnqueues
<1>5. CASE QueryFinishes
  BY <1>5, FinishHeld
  DEF QueryFinishes, QueryEnds, Waits, Asking, Beginning, Open
<1>6. CASE QueryGivesUp
  BY <1>6, HeldUnchanged
  DEF QueryGivesUp, QueryEnds, Waits, Asking, Beginning, Open
<1>7. CASE CoreRestarts
  <2>1. Held' = NoReply /\ early' = early
    BY <1>7 DEF CoreRestarts, CommReset, Held, TransactionOpen
  <2>2. ~Open
    BY <1>7 DEF CoreRestarts, Open, BaseInv, LinkInv, DriverInv
  <2> QED
    BY <1>7, <2>1, <2>2 DEF CoreRestarts, Restarts, Asking, Beginning, Open
<1>8. CASE BoardStep \/ BoardEvent
  BY <1>8, HeldUnchanged DEF BoardStep, BoardEvent, BoardMoves
<1>9. CASE UNCHANGED vars
  BY <1>1, <1>9 DEF vars, clientVars
<1> QED
  BY <1>2, <1>3, <1>4, <1>5, <1>6, <1>7, <1>8, <1>9, StartKinds, ContinueKinds,
     GatherEndKinds, LinkStepKinds
  DEF Next, ClientStep, CoreIdles

-----------------------------------------------------------------------------
(* What the kinds of steps do, for the lemmas about readings. *)

\* The board's steps that leave its readings and outgoing_ alone.
Reads ==
  /\ incoming' \in {incoming, NoQuery}
  /\ decoded' \in {decoded, incoming, NoQuery}
  /\ fsm # "TakeSensorReadings" /\ fsm' # "TakeSensorReadings"
  /\ UNCHANGED <<outgoing, sensors>>

LEMMA BoardCases ==
  ASSUME BoardMoves
  PROVE Reads \/ HandleBegin \/ HandleStatus \/ HandleCustom \/ TakeSensorReadings \/ Reset
<1>1. Notice \/ Decode \/ DropMalformed \/ Boot \/ Configured => Reads
  BY DEF Notice, Decode, DropMalformed, Handled, Boot, Configured, Reads
<1> QED
  BY <1>1 DEF BoardMoves, BoardLoop

LEMMA HeldType ==
  ASSUME TypeInv
  PROVE Held \in Reply
  BY NoReplyType DEF Held, TypeInv, TypeOK, CommTypeOK

LEMMA OnePhase ==
  ASSUME BaseInv
  PROVE ~(Beginning /\ Asking)
  BY BusyLink DEF BaseInv, Beginning, Asking, HandlerBusy

\* A merged reading is the last of the log.
LEMMA MergeLog ==
  ASSUME TypeInv, NEW r, Merge(r), r \in Reply
  PROVE /\ Len(log) + 1 \in DOMAIN log'
        /\ \A k \in DOMAIN log : k \in DOMAIN log' /\ log'[k] = log[k] /\ k < Len(log) + 1
        /\ \A k \in DOMAIN log' : k \in Nat /\ (k \in DOMAIN log \/ k = Len(log) + 1)
        /\ log'[Len(log) + 1].number = number
        /\ log'[Len(log) + 1].sensor = r.sensor
        /\ log'[Len(log) + 1].gather = r.gather
<1> DEFINE entry == [number |-> number, sensor |-> r.sensor, gather |-> r.gather]
<1>1. entry \in LogEntry /\ log \in Seq(LogEntry)
  BY DEF TypeInv, TypeOK, GatherTypeOK, LogEntry, Reply
<1>2. log' = Append(log, entry)
  BY DEF Merge
<1> QED
  BY <1>1, <1>2

LEMMA LogEntryType ==
  ASSUME TypeInv, NEW k \in DOMAIN log
  PROVE log[k].number \in Nat /\ log[k].gather \in Nat /\ log[k].sensor \in Sensors
        /\ k \in Nat
<1>1. log \in Seq(LogEntry)
  BY DEF TypeInv, TypeOK, GatherTypeOK
<1>2. log[k] \in LogEntry /\ k \in Nat
  BY <1>1
<1> QED
  BY <1>2 DEF LogEntry

(***************************************************************************)
(* Nothing carries a number that no gather had yet, and the gather that    *)
(* runs has its number to itself: it is not complete, and before it asks   *)
(* for readings nothing is filed under it.                                 *)
(***************************************************************************)
NumberInv ==
  /\ \A i \in Sensors : sensors[i].gather <= number
  /\ incoming.gather <= number /\ decoded.gather <= number
  /\ outgoing.gather <= number /\ Held.gather <= number
  /\ complete \subseteq 1 .. number
  /\ \A k \in DOMAIN log : log[k].gather <= log[k].number /\ log[k].number <= number
  /\ Beginning \/ Asking => number \notin complete /\ number > 0
  /\ Beginning => \A k \in DOMAIN log : log[k].number # number

LEMMA NumberTypes ==
  ASSUME TypeInv
  PROVE /\ number \in Nat /\ Held.gather \in Nat
        /\ incoming.gather \in Nat /\ decoded.gather \in Nat /\ outgoing.gather \in Nat
        /\ \A i \in Sensors : sensors[i].gather \in Nat
        /\ NoQuery.gather = 0 /\ GarbledQuery.gather = 0
<1>1. Held.gather \in Nat
  BY HeldType DEF Reply
<1>2. \A i \in Sensors : sensors[i] \in SensorReading
  BY DEF TypeInv, TypeOK, BoardTypeOK
<1> QED
  BY <1>1, <1>2
  DEF TypeInv, TypeOK, BoardTypeOK, GatherTypeOK, Query, Reply, SensorReading, NoQuery,
      GarbledQuery

LEMMA NumberInvStep == BaseInv /\ NumberInv /\ [Next]_vars => NumberInv'
<1> SUFFICES ASSUME BaseInv, NumberInv, [Next]_vars PROVE NumberInv'
  OBVIOUS
<1> TypeInv
  BY DEF BaseInv
<1>t. /\ number \in Nat /\ Held.gather \in Nat
      /\ incoming.gather \in Nat /\ decoded.gather \in Nat /\ outgoing.gather \in Nat
      /\ \A i \in Sensors : sensors[i].gather \in Nat
      /\ NoQuery.gather = 0 /\ GarbledQuery.gather = 0
  BY NumberTypes
<1>p. \A kind \in ReplyKinds \union {"none", "garbled"} : Plain(kind).gather = 0
  BY PlainKinds
<1>n. NoReply.gather = 0
  BY PlainKinds
<1> DEFINE BoardPart == /\ \A i \in Sensors : sensors[i].gather <= number
                        /\ incoming.gather <= number /\ decoded.gather <= number
                        /\ outgoing.gather <= number
           LogPart == /\ complete \subseteq 1 .. number
                      /\ \A k \in DOMAIN log :
                           log[k].gather <= log[k].number /\ log[k].number <= number
           PhasePart == /\ Beginning \/ Asking => number \notin complete /\ number > 0
                        /\ Beginning => \A k \in DOMAIN log : log[k].number # number
<1>k. ASSUME UNCHANGED <<number, log, complete>>, Asking' => Asking, Beginning' => Beginning
      PROVE LogPart' /\ PhasePart'
  BY <1>k DEF NumberInv
<1>u. ASSUME UNCHANGED boardVars, number' \in Nat, number <= number'
      PROVE BoardPart'
  BY <1>u, <1>t DEF boardVars, NumberInv
<1>h. UNCHANGED <<handlerVars, clientVars>> => LogPart' /\ PhasePart' /\ UNCHANGED number
  BY <1>k DEF handlerVars, clientVars, Asking, Beginning
<1>1. CASE Sends
  <2>1. PICK q \in Query : /\ ReceiveInterrupt(q)
                           /\ q.type \in {"begin", "status"} => q.gather = number
                           /\ q.type \notin {"begin", "status"} => q.gather = 0
    BY <1>1 DEF Sends
  <2>2. q.gather <= number
    BY <1>t, <2>1
  <2>3. BoardPart'
    BY <1>1, <1>h, <1>t, <2>1, <2>2 DEF Sends, ReceiveInterrupt, NumberInv
  <2> QED
    BY <1>1, <1>h, <1>t, <1>n, <2>3 DEF Sends, NumberInv
<1>2. CASE Fetches
  <2>1. Held'.gather <= number
    BY <1>2, <1>t, <1>p DEF Fetches, NumberInv, ReplyKinds
  <2>2. BoardPart'
    BY <1>2, <1>h, <1>t, <1>n DEF Fetches, ReplyInterrupt, NumberInv
  <2> QED
    BY <1>2, <1>h, <2>1, <2>2 DEF Fetches, NumberInv
<1>3. CASE BoardMoves
  <2>1. UNCHANGED number /\ LogPart' /\ PhasePart' /\ Held' = Held
    BY <1>3, <1>h DEF BoardMoves
  <2>2. CASE Reads
    BY <2>1, <2>2, <1>t DEF Reads, NumberInv
  <2>3. CASE HandleBegin
    BY <2>1, <2>3, <1>t, <1>p DEF HandleBegin, Handled, NumberInv, ReplyKinds
  <2>4. CASE HandleStatus
    <3>1. \A i \in Sensors : sensors'[i].gather = sensors[i].gather
      BY <2>4, HandleStatusReadings DEF TypeInv, TypeOK
    <3>2. outgoing'.gather <= number
      BY <2>4, <1>t, <1>p, HandleStatusReadings
      DEF TypeInv, TypeOK, NumberInv, ReplyKinds
    <3> QED
      BY <2>1, <2>4, <3>1, <3>2, <1>t DEF HandleStatus, Handled, NumberInv
  <2>5. CASE HandleCustom
    BY <2>1, <2>5, <1>t, <1>p DEF HandleCustom, Handled, NumberInv, ReplyKinds
  <2>6. CASE TakeSensorReadings
    <3>1. \A i \in Sensors : sensors'[i].gather = sensors[i].gather
      BY <2>6, TakeReadingsDone DEF TypeInv, TypeOK
    <3> QED
      BY <2>1, <2>6, <3>1 DEF TakeSensorReadings, NumberInv
  <2>7. CASE Reset
    BY <2>1, <2>7, <1>t, <1>n DEF Reset, Restart, UninitialisedSensors, NumberInv
  <2> QED
    BY <1>3, <2>2, <2>3, <2>4, <2>5, <2>6, <2>7, BoardCases
<1>4. CASE Waits
  BY <1>4, <1>k, <1>u, <1>t, <1>n DEF Waits, NumberInv
<1>5. CASE Begins
  <2>1. number' \in Nat /\ number < number' /\ number' > 0 /\ number' \notin complete
    BY <1>5, <1>t DEF Begins, NumberInv
  <2>2. BoardPart'
    BY <1>5, <1>u, <1>t, <2>1 DEF Begins
  <2>3. LogPart' /\ PhasePart'
    BY <1>5, <1>t, <2>1, LogEntryType DEF Begins, NumberInv
  <2> QED
    BY <1>5, <1>n, <2>1, <2>2, <2>3 DEF Begins, NumberInv
<1>6. CASE Turns
  BY <1>6, <1>u, <1>t, <1>n DEF Turns, NumberInv, Beginning
<1>7. CASE Records
  <2>1. Merge(Held) /\ Held \in Reply
    BY <1>7, HeldType DEF Records
  <2>2. LogPart'
    BY <1>7, <1>t, <2>1, MergeLog DEF Records, NumberInv
  <2> QED
    BY <1>7, <1>u, <1>t, <1>n, <2>2 DEF Records, NumberInv
<1>8. CASE Completes
  BY <1>8, <1>u, <1>t, <1>n DEF Completes, NumberInv
<1>9. CASE Restarts
  BY <1>9, <1>k, <1>t, <1>n DEF Restarts, Restart, UninitialisedSensors, NumberInv
<1> QED
  BY <1>1, <1>2, <1>3, <1>4, <1>5, <1>6, <1>7, <1>8, <1>9, StepKinds

LEMMA NumberInvInit == Init => NumberInv
<1> SUFFICES ASSUME Init PROVE NumberInv
  OBVIOUS
<1>1. Held = NoReply
  BY HeldIdle DEF Init, CommInit
<1>2. \A i \in Sensors : sensors[i].gather = 0
  BY DEF Init, BoardInit, UninitialisedSensors
<1> QED
  BY <1>1, <1>2, PlainKinds
  DEF Init, BoardInit, CommInit, NumberInv, Beginning, Asking, NoQuery

-----------------------------------------------------------------------------
(***************************************************************************)
(* The queries that can still change what the module has taken.  A begin   *)
(* on the board is the gather's own and not yet answered, or a stale one   *)
(* that the next query overtakes: once the gather asks for readings and    *)
(* something other than the reply to a begin is on its way to it, or is    *)
(* already filed, no begin is left that could have them taken again.       *)
(***************************************************************************)
BeginWaits == incoming.type = "begin" \/ decoded.type = "begin"
BeginAhead == BeginWaits \/ fsm = "TakeSensorReadings"
Final(r) == r.kind \in {"done", "idle", "error"}
Filed == \E k \in DOMAIN log : log[k].number = number

BeginInv ==
  /\ Asking \/ Held # NoReply => outgoing = NoReply \/ ~BeginWaits
  /\ Asking /\ (Final(outgoing) \/ Final(Held) \/ Filed) => ~BeginAhead

\* After a query was handled, none waits.
LEMMA HandledClears ==
  ASSUME HandleBegin \/ HandleStatus \/ HandleCustom
  PROVE /\ ~BeginWaits'
        /\ HandleStatus \/ HandleCustom => ~BeginAhead'
        /\ fsm = "ModuleServicer"
  BY DEF HandleBegin, HandleStatus, HandleCustom, Handled, BeginWaits, BeginAhead, NoQuery

LEMMA BeginInvStep == BaseInv /\ NumberInv /\ BeginInv /\ [Next]_vars => BeginInv'
<1> SUFFICES ASSUME BaseInv, NumberInv, BeginInv, [Next]_vars PROVE BeginInv'
  OBVIOUS
<1>n. /\ ~Final(NoReply)
      /\ \A kind \in {"none", "begin", "busy", "retry", "garbled"} : ~Final(Plain(kind))
  BY PlainKinds DEF Final, ReplyKinds
<1>h. UNCHANGED <<handlerVars, clientVars>> => /\ Asking' = Asking
                                               /\ Filed' = Filed
  BY DEF handlerVars, clientVars, Asking, Filed
<1>1. CASE Sends
  <2>1. PICK q \in Query : ReceiveInterrupt(q) /\ (q.type = "begin" => Beginning)
    BY <1>1 DEF Sends
  <2>2. Asking => q.type # "begin"
    BY <2>1, OnePhase
  <2>3. Asking /\ BeginWaits' => BeginWaits
    BY <2>1, <2>2 DEF ReceiveInterrupt, BeginWaits, GarbledQuery
  <2> QED
    BY <1>1, <1>h, <1>n, <2>1, <2>3 DEF Sends, ReceiveInterrupt, BeginInv, BeginAhead
<1>2. CASE Fetches
  <2>1. Final(Held') => Final(outgoing)
    BY <1>2, <1>n DEF Fetches
  <2>2. BeginAhead' = BeginAhead /\ outgoing' = NoReply
    BY <1>2 DEF Fetches, ReplyInterrupt, BeginAhead, BeginWaits
  <2> QED
    BY <1>2, <1>h, <1>n, <2>1, <2>2 DEF Fetches, BeginInv
<1>3. CASE BoardMoves
  <2>1. Held' = Held /\ Asking' = Asking /\ Filed' = Filed
    BY <1>3, <1>h DEF BoardMoves
  <2>2. CASE Reads
    <3>1. (BeginWaits' => BeginWaits) /\ (BeginAhead' => BeginWaits)
      BY <2>2 DEF Reads, BeginWaits, BeginAhead, NoQuery
    <3> QED
      BY <2>1, <2>2, <3>1 DEF Reads, BeginInv, BeginAhead
  <2>3. CASE HandleBegin
    <3>1. BeginWaits /\ ~BeginWaits' /\ ~Final(outgoing')
      BY <2>3, <1>n, HandledClears DEF HandleBegin, BeginWaits
    <3> QED
      BY <2>1, <3>1 DEF BeginInv, BeginAhead
  <2>4. CASE HandleStatus \/ HandleCustom
    BY <2>4, HandledClears DEF BeginInv, BeginAhead
  <2>5. CASE TakeSensorReadings
    <3>1. BeginWaits' = BeginWaits /\ BeginAhead' = BeginWaits /\ UNCHANGED outgoing
      BY <2>5 DEF TakeSensorReadings, BeginWaits, BeginAhead
    <3> QED
      BY <2>1, <3>1 DEF BeginInv, BeginAhead
  <2>6. CASE Reset
    BY <2>6 DEF Reset, Restart, BeginInv, BeginAhead, BeginWaits, NoQuery
  <2> QED
    BY <1>3, <2>2, <2>3, <2>4, <2>5, <2>6, BoardCases
<1>u. UNCHANGED boardVars => /\ BeginWaits' = BeginWaits /\ BeginAhead' = BeginAhead
                             /\ UNCHANGED outgoing
  BY DEF boardVars, BeginWaits, BeginAhead
<1>4. CASE Waits
  BY <1>4, <1>u, <1>n DEF Waits, BeginInv, Filed
<1>5. CASE Begins \/ Completes
  BY <1>5 DEF Begins, Completes, BeginInv
<1>6. CASE Turns
  <2>1. Held # NoReply /\ Beginning
    BY <1>6, PlainKinds DEF Turns, Handed, Beginning
  <2>2. ~Filed'
    BY <1>6, <2>1 DEF Turns, NumberInv, Filed
  <2>3. Final(outgoing) => outgoing # NoReply /\ fsm # "TakeSensorReadings"
    BY <1>n DEF Final, BaseInv, BoardInv
  <2> QED
    BY <1>6, <1>u, <1>n, <2>1, <2>2, <2>3 DEF Turns, BeginInv, BeginAhead
<1>7. CASE Records
  <2>1. Asking /\ Final(Held)
    BY <1>7 DEF Records, Final
  <2> QED
    BY <1>7, <1>u, <2>1 DEF Records, BeginInv
<1>9. CASE Restarts
  BY <1>9 DEF Restarts, BeginInv
<1> QED
  BY <1>1, <1>2, <1>3, <1>4, <1>5, <1>6, <1>7, <1>9, StepKinds

LEMMA BeginInvInit == Init => BeginInv
<1> SUFFICES ASSUME Init PROVE BeginInv
  OBVIOUS
<1>1. ~Asking /\ outgoing = NoReply
  BY DEF Init, CommInit, BoardInit, Asking
<1> QED
  BY <1>1 DEF BeginInv

-----------------------------------------------------------------------------
(***************************************************************************)
(* The order of the readings of one gather: what is filed comes before     *)
(* what is Held, that before what is in outgoing_, and that before what    *)
(* the sensors still have.  A reset of the board puts other values there,  *)
(* which no gather has taken; those are in no order and do not count.      *)
(***************************************************************************)
Counts(gather) == "reset" \notin Faults \/ gather # 0

Behind(s) ==
  /\ \A i \in Sensors : Done(i) /\ Counts(sensors[i].gather) => s < i
  /\ outgoing.kind = "done" /\ Counts(outgoing.gather) => s < outgoing.sensor

FiledInOrder ==
  \A i, j \in DOMAIN log :
    i < j /\ log[i].number = log[j].number /\ Counts(log[j].gather)
      => log[i].sensor < log[j].sensor

OrderInv ==
  /\ Asking /\ Held.kind = "done" => Behind(Held.sensor)
  /\ Asking => \A k \in DOMAIN log : log[k].number = number =>
       /\ Behind(log[k].sensor)
       /\ Held.kind = "done" /\ Counts(Held.gather) => log[k].sensor < Held.sensor
  /\ FiledInOrder

LEMMA BehindStays ==
  ASSUME TypeInv, BoardInv, NEW s, Behind(s), ~BeginAhead,
         \/ BoardMoves \/ ReplyInterrupt \/ UNCHANGED boardVars
         \/ \E q \in Query : ReceiveInterrupt(q)
  PROVE Behind(s)'
<1>1. CASE UNCHANGED sensors /\ (outgoing' = outgoing \/ outgoing'.kind # "done")
  BY <1>1 DEF Behind, Done, Counts
<1>2. CASE ReplyInterrupt
  BY <1>1, <1>2, PlainKinds DEF ReplyInterrupt
<1>3. CASE UNCHANGED boardVars \/ \E q \in Query : ReceiveInterrupt(q)
  BY <1>1, <1>3 DEF boardVars, ReceiveInterrupt
<1>4. CASE BoardMoves
  <2>1. CASE Reads \/ HandleCustom
    BY <1>1, <2>1, PlainKinds DEF Reads, HandleCustom, ReplyKinds
  <2>2. CASE HandleBegin \/ TakeSensorReadings
    BY <2>2 DEF HandleBegin, TakeSensorReadings, BeginAhead, BeginWaits
  <2>3. CASE HandleStatus
    <3>1. \A i \in Sensors : Done(i)' /\ Counts(sensors'[i].gather) => s < i
      BY <2>3, HandleStatusReadings DEF TypeInv, TypeOK, Behind
    <3>2. outgoing'.kind = "done" /\ Counts(outgoing'.gather) => s < outgoing'.sensor
      <4>1. CASE outgoing' = Plain("idle")
        BY <4>1, PlainKinds DEF ReplyKinds
      <4>2. ASSUME NEW i \in Sensors, Done(i),
                   outgoing' = [kind |-> "done", sensor |-> i, gather |-> sensors[i].gather]
            PROVE Counts(outgoing'.gather) => s < outgoing'.sensor
        BY <4>2 DEF Behind
      <4> QED
        BY <2>3, <4>1, <4>2, HandleStatusReadings DEF TypeInv, TypeOK
    <3> QED
      BY <3>1, <3>2 DEF Behind, Counts
  <2>4. CASE Reset
    <3>1. outgoing'.kind # "done" /\ \A i \in Sensors : sensors'[i].gather = 0
      BY <2>4, PlainKinds DEF Reset, Restart, UninitialisedSensors
    <3>2. ~Counts(0)
      BY <2>4 DEF Reset, Counts
    <3> QED
      BY <3>1, <3>2 DEF Behind, Counts
  <2> QED
    BY <1>4, <2>1, <2>2, <2>3, <2>4, BoardCases
<1> QED
  BY <1>2, <1>3, <1>4

LEMMA OrderInvStep ==
  BaseInv /\ NumberInv /\ BeginInv /\ OrderInv /\ [Next]_vars => OrderInv'
<1> SUFFICES ASSUME BaseInv, NumberInv, BeginInv, OrderInv, [Next]_vars PROVE OrderInv'
  OBVIOUS
<1> TypeInv /\ BoardInv
  BY DEF BaseInv
<1>n. /\ NoReply.kind # "done"
      /\ \A kind \in {"none", "busy", "retry", "garbled"} : Plain(kind).kind # "done"
  BY PlainKinds DEF ReplyKinds
<1>a. Asking /\ (Held.kind = "done" \/ Filed) => ~BeginAhead
  BY DEF BeginInv, Final
<1>b. ASSUME Asking,
             \/ BoardMoves \/ ReplyInterrupt \/ UNCHANGED boardVars
             \/ \E q \in Query : ReceiveInterrupt(q),
             NEW s,
             \/ Held.kind = "done" /\ s = Held.sensor
             \/ \E k \in DOMAIN log : log[k].number = number /\ s = log[k].sensor
      PROVE Behind(s)'
  <2>1. Behind(s) /\ ~BeginAhead
    BY <1>a, <1>b DEF OrderInv, Filed
  <2> QED
    BY <1>b, <2>1, BehindStays
<1>c. ASSUME UNCHANGED <<number, log>>, Asking' => Asking, Held' \in {Held, NoReply},
             \/ BoardMoves \/ ReplyInterrupt \/ UNCHANGED boardVars
             \/ \E q \in Query : ReceiveInterrupt(q)
      PROVE OrderInv'
  <2>1. ASSUME Asking', Held'.kind = "done" PROVE Behind(Held.sensor)'
    BY <1>b, <1>c, <1>n, <2>1
  <2>2. ASSUME Asking', NEW k \in DOMAIN log', log'[k].number = number'
        PROVE /\ Behind(log[k].sensor)'
              /\ Held'.kind = "done" /\ Counts(Held'.gather) => log'[k].sensor < Held'.sensor
    BY <1>b, <1>c, <1>n, <2>2 DEF OrderInv
  <2> QED
    BY <1>c, <2>1, <2>2 DEF OrderInv, FiledInOrder, Counts
<1>1. CASE Sends
  BY <1>1, <1>c DEF Sends, handlerVars, clientVars, Asking
<1>2. CASE Fetches
  <2>1. UNCHANGED <<number, log>> /\ Asking' = Asking /\ ReplyInterrupt /\ Held = NoReply
    BY <1>2 DEF Fetches, handlerVars, clientVars, Asking
  <2>2. CASE Held'.kind # "done"
    <3>1. ASSUME Asking', NEW k \in DOMAIN log', log'[k].number = number'
          PROVE Behind(log[k].sensor)'
      BY <1>b, <2>1, <3>1
    <3> QED
      BY <2>1, <2>2, <3>1 DEF OrderInv, FiledInOrder, Counts
  <2>3. CASE Held' = outgoing /\ outgoing.kind = "done"
    <3>1. outgoing' = NoReply /\ UNCHANGED sensors
      BY <2>1 DEF ReplyInterrupt
    <3>2. Behind(Held.sensor)'
      BY <1>n, <2>3, <3>1 DEF Behind, BoardInv, Done
    <3>3. ASSUME Asking', NEW k \in DOMAIN log', log'[k].number = number'
          PROVE /\ Behind(log[k].sensor)'
                /\ Counts(Held'.gather) => log'[k].sensor < Held'.sensor
      <4>1. Behind(log[k].sensor)
        BY <2>1, <3>3 DEF OrderInv
      <4> QED
        BY <1>b, <2>1, <2>3, <3>3, <4>1 DEF Behind, Counts
    <3> QED
      BY <2>1, <3>2, <3>3 DEF OrderInv, FiledInOrder, Counts
  <2> QED
    BY <1>2, <1>n, <2>2, <2>3 DEF Fetches
<1>3. CASE BoardMoves
  BY <1>3, <1>c DEF BoardMoves, handlerVars, clientVars, Asking
<1>4. CASE Waits
  BY <1>4, <1>c DEF Waits
<1>5. CASE Begins \/ Completes \/ Restarts
  BY <1>5 DEF Begins, Completes, Restarts, OrderInv, FiledInOrder, Counts
<1>6. CASE Turns
  BY <1>6, <1>n DEF Turns, OrderInv, FiledInOrder, Counts, NumberInv, Beginning
<1>7. CASE Records
  <2>1. /\ UNCHANGED <<boardVars, number>> /\ Asking /\ Held.kind = "done"
        /\ Held' = NoReply /\ Merge(Held) /\ Held \in Reply
    BY <1>7, HeldType DEF Records
  <2>2. /\ \A k \in DOMAIN log : k \in DOMAIN log' /\ log'[k] = log[k] /\ k < Len(log) + 1
        /\ \A k \in DOMAIN log' : k \in Nat /\ (k \in DOMAIN log \/ k = Len(log) + 1)
        /\ log'[Len(log) + 1].number = number
        /\ log'[Len(log) + 1].sensor = Held.sensor
        /\ log'[Len(log) + 1].gather = Held.gather
        /\ Len(log) \in Nat
    <3>1. log \in Seq(LogEntry)
      BY DEF TypeInv, TypeOK, GatherTypeOK
    <3> QED
      BY <2>1, <3>1, MergeLog
  <2>3. ASSUME NEW k \in DOMAIN log', log'[k].number = number' PROVE Behind(log[k].sensor)'
    <3>1. CASE k = Len(log) + 1
      BY <1>b, <2>1, <2>2, <3>1
    <3>2. CASE k \in DOMAIN log
      BY <1>b, <2>1, <2>2, <2>3, <3>2
    <3> QED
      BY <2>2, <3>1, <3>2
  <2>4. FiledInOrder'
    <3> SUFFICES ASSUME NEW i \in DOMAIN log', NEW j \in DOMAIN log', i < j,
                        log'[i].number = log'[j].number, Counts(log'[j].gather)
                 PROVE log'[i].sensor < log'[j].sensor
      BY DEF FiledInOrder, Counts
    <3>1. i \in DOMAIN log
      BY <2>2
    <3>2. CASE j \in DOMAIN log
      BY <2>2, <3>1, <3>2 DEF OrderInv, FiledInOrder
    <3>3. CASE j = Len(log) + 1
      BY <2>1, <2>2, <3>1, <3>3 DEF OrderInv
    <3> QED
      BY <2>2, <3>2, <3>3
  <2> QED
    BY <1>n, <2>1, <2>3, <2>4 DEF OrderInv
<1> QED
  BY <1>1, <1>2, <1>3, <1>4, <1>5, <1>6, <1>7, StepKinds

LEMMA OrderInvInit == Init => OrderInv
<1> SUFFICES ASSUME Init PROVE OrderInv
  OBVIOUS
<1>1. ~Asking /\ log = <<>>
  BY DEF Init, CommInit, Asking
<1> QED
  BY <1>1 DEF OrderInv, FiledInOrder

(***************************************************************************)
(* What makes the order say that no reading is filed twice.                *)
(***************************************************************************)
LEMMA InOrderOnce == TypeInv /\ FiledInOrder => RecordedOnce
<1> SUFFICES ASSUME TypeInv, FiledInOrder,
                    NEW i \in DOMAIN log, NEW j \in DOMAIN log, i # j,
                    log[i].gather # 0, log[j].gather # 0,
                    log[i].sensor = log[j].sensor, log[i].number = log[j].number
             PROVE FALSE
  BY DEF RecordedOnce
<1>1. /\ i \in Nat /\ j \in Nat
      /\ log[i].sensor \in Nat /\ log[j].sensor \in Nat
  BY LogEntryType DEF Sensors
<1>2. CASE i < j
  BY <1>1, <1>2 DEF FiledInOrder, Counts
<1>3. CASE j < i
  BY <1>1, <1>3 DEF FiledInOrder, Counts
<1> QED
  BY <1>1, <1>2, <1>3

-----------------------------------------------------------------------------
(***************************************************************************)
(* What a complete gather leaves behind.  A gather completes on IDLE, or   *)
(* on the error of a custom query that an earlier task left on the board.  *)
(* Then its begin is not on the board any more, and of the values it had   *)
(* taken, if any, none is on the board or on its way: IDLE is said when no *)
(* sensor has one, and a custom query that is still to be handled, or      *)
(* whose error is, was there before the gather's begin could be.           *)
(***************************************************************************)
CustomFirst ==
  /\ Beginning \/ Asking
  /\ incoming.type = "custom" \/ decoded.type = "custom" \/ outgoing.kind = "error"
  => \A i \in Sensors : sensors[i].gather # number

NothingLeft ==
  Asking /\ Held.kind \in {"idle", "error"} =>
    /\ \A i \in Sensors : Done(i) => sensors[i].gather # number
    /\ outgoing.kind = "done" => outgoing.gather # number

CompleteIsOver ==
  /\ incoming.type = "begin" => incoming.gather \notin complete
  /\ decoded.type = "begin" => decoded.gather \notin complete
  /\ \A i \in Sensors :
       Done(i) \/ fsm = "TakeSensorReadings" => sensors[i].gather \notin complete
  /\ outgoing.kind = "done" => outgoing.gather \notin complete
  /\ Held.kind = "done" => Held.gather \notin complete

CompleteInv == CustomFirst /\ NothingLeft /\ CompleteIsOver /\ NeverTakenFromComplete

LEMMA CustomFirstStep ==
  BaseInv /\ NumberInv /\ CustomFirst /\ [Next]_vars => CustomFirst'
<1> SUFFICES ASSUME BaseInv, NumberInv, CustomFirst, [Next]_vars PROVE CustomFirst'
  OBVIOUS
<1> TypeInv
  BY DEF BaseInv
<1>n. /\ NoReply.kind # "error"
      /\ \A kind \in {"begin", "idle"} : Plain(kind).kind # "error"
      /\ NoQuery.type # "custom" /\ GarbledQuery.type # "custom"
  BY PlainKinds DEF ReplyKinds, NoQuery, GarbledQuery
<1>h. UNCHANGED <<handlerVars, clientVars>> =>
        UNCHANGED number /\ (Beginning \/ Asking <=> (Beginning \/ Asking)')
  BY DEF handlerVars, clientVars, Beginning, Asking
<1>1. CASE Sends
  BY <1>1, <1>h, <1>n DEF Sends, ReceiveInterrupt, CustomFirst
<1>2. CASE Fetches
  BY <1>2, <1>h, <1>n DEF Fetches, ReplyInterrupt, CustomFirst
<1>3. CASE BoardMoves
  <2>h. UNCHANGED number /\ (Beginning \/ Asking <=> (Beginning \/ Asking)')
    BY <1>3, <1>h DEF BoardMoves
  <2>1. CASE Reads
    BY <2>1, <2>h, <1>n DEF Reads, CustomFirst
  <2>2. CASE HandleBegin
    BY <2>2, <1>n DEF HandleBegin, Handled, CustomFirst
  <2>3. CASE HandleStatus
    <3>1. outgoing'.kind # "error"
      BY <2>3, <1>n, HandleStatusReadings DEF TypeInv, TypeOK
    <3> QED
      BY <2>3, <3>1, <1>n DEF HandleStatus, Handled, CustomFirst
  <2>4. CASE HandleCustom
    BY <2>4, <2>h DEF HandleCustom, Handled, CustomFirst
  <2>5. CASE TakeSensorReadings
    <3>1. \A i \in Sensors : sensors'[i].gather = sensors[i].gather
      BY <2>5, TakeReadingsDone DEF TypeInv, TypeOK
    <3> QED
      BY <2>5, <2>h, <3>1 DEF TakeSensorReadings, CustomFirst
  <2>6. CASE Reset
    BY <2>6, <1>n DEF Reset, Restart, CustomFirst
  <2> QED
    BY <1>3, <2>1, <2>2, <2>3, <2>4, <2>5, <2>6, BoardCases
<1>4. CASE Waits \/ Turns \/ Records
  BY <1>4 DEF Waits, Turns, Records, boardVars, Beginning, CustomFirst
<1>5. CASE Begins
  <2>1. \A i \in Sensors : sensors[i].gather # number + 1
    BY NumberTypes DEF NumberInv
  <2> QED
    BY <1>5, <2>1 DEF Begins, boardVars, CustomFirst
<1>6. CASE Completes \/ Restarts
  BY <1>6 DEF Completes, Restarts, CustomFirst
<1> QED
  BY <1>1, <1>2, <1>3, <1>4, <1>5, <1>6, StepKinds

LEMMA NothingLeftStep ==
  BaseInv /\ NumberInv /\ BeginInv /\ CustomFirst /\ NothingLeft /\ [Next]_vars
    => NothingLeft'
<1> SUFFICES ASSUME BaseInv, NumberInv, BeginInv, CustomFirst, NothingLeft, [Next]_vars
             PROVE NothingLeft'
  OBVIOUS
<1> TypeInv /\ BoardInv
  BY DEF BaseInv
<1>n. /\ NoReply.kind \notin {"done", "idle", "error"}
      /\ \A kind \in {"none", "busy", "retry", "garbled"} :
           Plain(kind).kind \notin {"idle", "error"}
      /\ Plain("idle").kind # "done" /\ Plain("error").kind # "done"
  BY PlainKinds DEF ReplyKinds
<1>1. CASE Sends \/ Begins \/ Turns \/ Records \/ Completes \/ Restarts
  BY <1>1, <1>n DEF Sends, Begins, Turns, Records, Completes, Restarts, NothingLeft
<1>2. CASE Fetches
  <2>1. UNCHANGED <<sensors, number>> /\ outgoing' = NoReply /\ Asking' = Asking
    BY <1>2 DEF Fetches, ReplyInterrupt, handlerVars, clientVars, Asking
  <2>2. CASE Held'.kind \in {"idle", "error"} /\ Asking
    <3>1. outgoing.kind \in {"idle", "error"}
      BY <1>2, <1>n, <2>2 DEF Fetches
    <3>2. \A i \in Sensors : Done(i) => sensors[i].gather # number
      BY <2>2, <3>1 DEF BoardInv, CustomFirst
    <3> QED
      BY <1>n, <2>1, <3>2 DEF NothingLeft, Done
  <2> QED
    BY <2>1, <2>2 DEF NothingLeft
<1>3. CASE BoardMoves
  <2>1. Held' = Held /\ Asking' = Asking /\ UNCHANGED number
    BY <1>3 DEF BoardMoves, handlerVars, clientVars, Asking
  <2> SUFFICES ASSUME Asking, Held.kind \in {"idle", "error"} PROVE NothingLeft'
    BY <2>1 DEF NothingLeft
  <2>2. ~BeginAhead
    BY DEF BeginInv, Final
  <2>3. CASE Reads \/ HandleCustom
    BY <2>1, <2>3, <1>n DEF Reads, HandleCustom, NothingLeft, Done
  <2>4. CASE HandleBegin \/ TakeSensorReadings
    BY <2>2, <2>4 DEF HandleBegin, TakeSensorReadings, BeginAhead, BeginWaits
  <2>5. CASE HandleStatus
    <3>1. \A i \in Sensors : Done(i)' => sensors'[i].gather # number
      BY <2>5, HandleStatusReadings DEF TypeInv, TypeOK, NothingLeft
    <3>2. outgoing'.kind = "done" => outgoing'.gather # number
      BY <1>n, <2>5, HandleStatusReadings DEF TypeInv, TypeOK, NothingLeft
    <3> QED
      BY <2>1, <3>1, <3>2 DEF NothingLeft
  <2>6. CASE Reset
    <3>1. number # 0
      BY DEF NumberInv
    <3> QED
      BY <1>n, <2>1, <2>6, <3>1 DEF Reset, Restart, UninitialisedSensors, NothingLeft
  <2> QED
    BY <1>3, <2>3, <2>4, <2>5, <2>6, BoardCases
<1>4. CASE Waits
  BY <1>4, <1>n DEF Waits, boardVars, NothingLeft, Done
<1> QED
  BY <1>1, <1>2, <1>3, <1>4, StepKinds

LEMMA CompleteIsOverStep ==
  BaseInv /\ NumberInv /\ BeginInv /\ NothingLeft /\ CompleteIsOver /\ [Next]_vars
    => CompleteIsOver'
<1> SUFFICES ASSUME BaseInv, NumberInv, BeginInv, NothingLeft, CompleteIsOver, [Next]_vars
             PROVE CompleteIsOver'
  OBVIOUS
<1> TypeInv
  BY DEF BaseInv
<1>n. /\ NoReply.kind # "done" /\ NoQuery.type # "begin" /\ GarbledQuery.type # "begin"
      /\ \A kind \in {"none", "begin", "busy", "retry", "garbled", "idle", "error"} :
           Plain(kind).kind # "done"
      /\ 0 \notin complete
  BY PlainKinds DEF ReplyKinds, NumberInv, NoQuery, GarbledQuery
<1>1. CASE Sends
  <2>1. PICK q \in Query : /\ ReceiveInterrupt(q)
                           /\ q.type = "begin" => q.gather = number /\ Beginning
    BY <1>1 DEF Sends
  <2>2. q.type = "begin" => q.gather \notin complete
    BY <2>1 DEF NumberInv
  <2> QED
    BY <1>1, <1>n, <2>1, <2>2
    DEF Sends, clientVars, ReceiveInterrupt, CompleteIsOver, Done
<1>2. CASE Fetches
  BY <1>2, <1>n DEF Fetches, clientVars, ReplyInterrupt, CompleteIsOver, Done
<1>3. CASE BoardMoves
  <2>h. UNCHANGED complete /\ Held' = Held
    BY <1>3 DEF BoardMoves, clientVars
  <2>1. CASE Reads
    BY <2>1, <2>h, <1>n DEF Reads, CompleteIsOver, Done
  <2>2. CASE HandleBegin
    BY <2>2, <2>h, <1>n DEF HandleBegin, Handled, CompleteIsOver, Done
  <2>3. CASE HandleStatus
    <3>1. \A i \in Sensors : Done(i)' => sensors'[i].gather \notin complete
      BY <2>3, HandleStatusReadings DEF TypeInv, TypeOK, CompleteIsOver
    <3>2. outgoing'.kind = "done" => outgoing'.gather \notin complete
      BY <1>n, <2>3, HandleStatusReadings DEF TypeInv, TypeOK, CompleteIsOver
    <3> QED
      BY <2>3, <2>h, <1>n, <3>1, <3>2 DEF HandleStatus, Handled, CompleteIsOver
  <2>4. CASE HandleCustom
    BY <2>4, <2>h, <1>n DEF HandleCustom, Handled, CompleteIsOver, Done
  <2>5. CASE TakeSensorReadings
    <3>1. \A i \in Sensors : sensors'[i].gather = sensors[i].gather
      BY <2>5, TakeReadingsDone DEF TypeInv, TypeOK
    <3>2. \A i \in Sensors : sensors'[i].gather \notin complete
      BY <2>5, <3>1 DEF TakeSensorReadings, CompleteIsOver
    <3>3. UNCHANGED <<incoming, decoded, outgoing>>
      BY <2>5 DEF TakeSensorReadings
    <3> QED
      BY <2>h, <3>2, <3>3 DEF CompleteIsOver
  <2>6. CASE Reset
    BY <2>6, <2>h, <1>n DEF Reset, Restart, UninitialisedSensors, CompleteIsOver
  <2> QED
    BY <1>3, <2>1, <2>2, <2>3, <2>4, <2>5, <2>6, BoardCases
<1>4. CASE Waits \/ Begins \/ Turns \/ Records
  BY <1>4, <1>n DEF Waits, Begins, Turns, Records, boardVars, CompleteIsOver, Done
<1>5. CASE Completes
  <2>1. ~BeginAhead
    BY <1>5 DEF Completes, BeginInv, Final
  <2> QED
    BY <1>5, <1>n, <2>1
    DEF Completes, boardVars, NothingLeft, CompleteIsOver, BeginAhead, BeginWaits, Done
<1>6. CASE Restarts
  BY <1>6, <1>n DEF Restarts, Restart, UninitialisedSensors, CompleteIsOver
<1> QED
  BY <1>1, <1>2, <1>3, <1>4, <1>5, <1>6, StepKinds

LEMMA NeverTakenStep ==
  BaseInv /\ NumberInv /\ CompleteIsOver /\ NeverTakenFromComplete /\ [Next]_vars
    => NeverTakenFromComplete'
<1> SUFFICES ASSUME BaseInv, NumberInv, CompleteIsOver, NeverTakenFromComplete, [Next]_vars
             PROVE NeverTakenFromComplete'
  OBVIOUS
<1> TypeInv
  BY DEF BaseInv
<1>1. CASE UNCHANGED <<log, complete>>
  BY <1>1 DEF NeverTakenFromComplete
<1>2. CASE Records
  <2>1. Merge(Held) /\ Held \in Reply /\ Held.gather \notin complete /\ UNCHANGED complete
    BY <1>2, HeldType DEF Records, CompleteIsOver
  <2> QED
    BY <2>1, MergeLog DEF NeverTakenFromComplete
<1>3. CASE Completes
  <2>1. complete' = complete \union {number} /\ UNCHANGED log /\ number \in Nat
    BY <1>3, NumberTypes DEF Completes
  <2>2. \A k \in DOMAIN log : log[k].gather = number => log[k].number = number
    BY <2>1, LogEntryType DEF NumberInv
  <2> QED
    BY <2>1, <2>2 DEF NeverTakenFromComplete
<1> QED
  BY <1>1, <1>2, <1>3, StepKinds
  DEF Sends, Fetches, BoardMoves, Waits, Begins, Turns, Restarts, clientVars

(***************************************************************************)
(* All that is known of the readings, under any faults.                    *)
(***************************************************************************)
ReadingsInv == BaseInv /\ NumberInv /\ BeginInv /\ OrderInv /\ CompleteInv

LEMMA ReadingsInvInit == Init => ReadingsInv
<1> SUFFICES ASSUME Init PROVE ReadingsInv
  OBVIOUS
<1>1. BaseInv
  BY TypeInit, LinkInvInit, BoardInvInit, QueryInvInit DEF BaseInv
<1>2. Held = NoReply
  BY HeldIdle DEF Init, CommInit
<1>3. CompleteInv
  BY <1>2, PlainKinds
  DEF Init, BoardInit, CommInit, CompleteInv, CustomFirst, NothingLeft, CompleteIsOver,
      NeverTakenFromComplete, Beginning, Asking, NoQuery
<1> QED
  BY <1>1, <1>3, NumberInvInit, BeginInvInit, OrderInvInit DEF ReadingsInv

LEMMA ReadingsInvStep == ReadingsInv /\ [Next]_vars => ReadingsInv'
<1> SUFFICES ASSUME ReadingsInv, [Next]_vars PROVE ReadingsInv'
  OBVIOUS
<1>1. BaseInv'
  BY TypeStep, LinkInvStep, BoardInvStep, QueryInvStep DEF ReadingsInv, BaseInv
<1>2. NumberInv' /\ BeginInv' /\ OrderInv'
  BY NumberInvStep, BeginInvStep, OrderInvStep DEF ReadingsInv
<1>3. CompleteInv'
  BY CustomFirstStep, NothingLeftStep, CompleteIsOverStep, NeverTakenStep
  DEF ReadingsInv, CompleteInv
<1> QED
  BY <1>1, <1>2, <1>3 DEF ReadingsInv

LEMMA ReadingsInvariant == Spec => []ReadingsInv
  BY ReadingsInvInit, ReadingsInvStep, PTL DEF Spec

\* No reading number ever holds two values of one sensor that a gather had taken,
\* for any number of sensors and readings, whatever the link, the board and the
\* core's retries, time-outs, give-ups and restarts do.
THEOREM RecordedOnceSafe == Spec => []RecordedOnce
<1>1. ReadingsInv => RecordedOnce
  BY InOrderOnce DEF ReadingsInv, BaseInv, OrderInv
<1> QED
  BY <1>1, ReadingsInvariant, PTL

\* A value filed under another number than that of the gather that had it taken
\* never comes from a gather that completed, under any combination of faults.
THEOREM NeverTakenFromCompleteSafe == Spec => []NeverTakenFromComplete
<1>1. ReadingsInv => NeverTakenFromComplete
  BY DEF ReadingsInv, CompleteInv
<1> QED
  BY <1>1, ReadingsInvariant, PTL

\* The log grows by readings of the latest number, and of none that is complete.
LogGrows ==
  /\ \A k \in DOMAIN log : k \in DOMAIN log' /\ log'[k] = log[k]
  /\ \A k \in DOMAIN log' \ DOMAIN log : log'[k].number = number /\ number \notin complete

\* A gather that has ended with IDLE is over: no reply that comes late, twice or from
\* a board that was reset adds to its record or changes it, whatever the faults.
THEOREM CompleteIsFinal == Spec => [][LogGrows]_vars
<1>1. ReadingsInv /\ [Next]_vars => LogGrows
  <2> SUFFICES ASSUME ReadingsInv, [Next]_vars PROVE LogGrows
    OBVIOUS
  <2> BaseInv /\ TypeInv
    BY DEF ReadingsInv, BaseInv
  <2>1. CASE UNCHANGED log
    BY <2>1 DEF LogGrows
  <2>2. CASE Records
    <3>1. Merge(Held) /\ Held \in Reply /\ Asking
      BY <2>2, HeldType DEF Records
    <3>2. number \notin complete
      BY <3>1 DEF ReadingsInv, NumberInv
    <3> QED
      BY <3>1, <3>2, MergeLog DEF LogGrows
  <2> QED
    BY <2>1, <2>2, StepKinds
    DEF Sends, Fetches, BoardMoves, Waits, Begins, Turns, Completes, Restarts, clientVars
<1> QED
  BY <1>1, ReadingsInvariant, PTL DEF Spec

-----------------------------------------------------------------------------
(***************************************************************************)
(* The exact link: no fault but noise.  The board is Quiet unless a query  *)
(* is being served.  Then it has the query or a garbled one, or the        *)
(* answer; both only if the query was sent again after a RETRY that came   *)
(* too early.  That happens only to the first status query of a gather,    *)
(* which meets the board in its readings state: its answer is the reading  *)
(* of the first sensor.                                                    *)
(***************************************************************************)
Answers(kind) ==
  kind \in CASE active = "begin" -> {"begin"}
             [] active = "status" -> {"done", "idle"}
             [] active = "custom" -> {"error"}
             [] OTHER -> {}

\* The module has handled the begin of the gather that runs.
BeginHandled ==
  Asking \/ (Beginning /\ (outgoing.kind = "begin" \/ Held.kind = "begin"))

Quiet == incoming = NoQuery /\ decoded = NoQuery /\ outgoing = NoReply

\* The first status query, until it has been served once and after.
FirstAhead ==
  /\ active = "status"
  /\ IF outgoing = NoReply
     THEN fsm = "TakeSensorReadings" \/ \A i \in Sensors : Done(i)
     ELSE /\ outgoing.kind = "done" /\ outgoing.sensor = 0
          /\ fsm # "TakeSensorReadings"

\* The core waits for a board that was away.
Late ==
  /\ ~hasQuery
  /\ wire \in {"late", "poll"} \/ (wire = "eos" /\ received.kind = "busy")

Sent == Late \/ (wire = "wait" /\ ~hasQuery)

\* To be sent, for the first time or again.
Unsent == hasQuery \/ wire = "send" \/ (wire = "eos" /\ received.kind = "retry")

Once == incoming # NoQuery => outgoing = NoReply

\* The board has the query, and was asked for the reply too early.
Again ==
  /\ Unsent /\ Once /\ FirstAhead
  /\ query \in {incoming, decoded} \/ outgoing # NoReply => early

\* It has the query and its answer.
Twice ==
  /\ wire = "wait" /\ ~hasQuery /\ early /\ FirstAhead
  /\ incoming # NoQuery /\ outgoing # NoReply

Serving ==
  /\ HandlerBusy /\ address # 0
  /\ incoming \in {NoQuery, query, GarbledQuery}
  /\ decoded \in {NoQuery, query, GarbledQuery}
  /\ outgoing # NoReply => Answers(outgoing.kind)
  /\ (Sent /\ Once) \/ Again \/ Twice

ExchangeInv ==
  /\ fsm \in {"ModuleIdle", "ModuleServicer", "TakeSensorReadings"}
  /\ Quiet \/ Serving
  /\ HandlerBusy /\ Held.kind \in Handed => Answers(Held.kind)
  /\ fsm = "TakeSensorReadings" => BeginHandled
  /\ HandlerBusy /\ address # 0 /\ Late => FirstAhead
  /\ active # "none" /\ address = 0 => hasReply
  /\ wire = "eos" => received.kind # "garbled"

\* A handled query is the client's; only the status query is handled twice.
LEMMA HandledQuery ==
  ASSUME BaseInv, ExchangeInv, decoded # NoQuery
  PROVE /\ Serving
        /\ outgoing = NoReply \/ Twice
        /\ decoded.type # "garbled" => /\ decoded = query /\ decoded.type = active
        /\ Held.kind \notin Handed
        /\ decoded.type = "begin" => active = "begin" /\ decoded.gather = number /\ gathering
<1>1. Serving /\ decoded \in {query, GarbledQuery} /\ incoming # NoQuery
  BY DEF ExchangeInv, Quiet, Serving, BaseInv, BoardInv
<1>2. HandlerBusy /\ address # 0 /\ ~hasReply
  BY <1>1, BusyLink DEF Serving, BaseInv
<1>3. query.type = active /\ query.gather = IF gathering THEN number ELSE 0
  BY <1>2, SentQuery DEF BaseInv
<1>4. Held.kind \notin Handed
  BY <1>1, <1>2, PlainKinds
  DEF Serving, Sent, Late, Again, Unsent, Twice, Held, Handed, TransactionOpen
<1>5. active = "begin" => gathering
  BY WhoAsks DEF BaseInv, Beginning
<1>6. outgoing = NoReply \/ Twice
  BY <1>1 DEF Serving, Once, Again
<1> QED
  BY <1>1, <1>3, <1>4, <1>5, <1>6 DEF GarbledQuery

\* In an open transaction without a reply held, the module's readings state belongs
\* to a status query, unless the reply to the begin is still in outgoing_.
LEMMA AwayAsks ==
  ASSUME BaseInv, ExchangeInv, HandlerBusy, address # 0, Held = NoReply,
         outgoing = NoReply, fsm = "TakeSensorReadings"
  PROVE FirstAhead
<1>1. Asking
  BY PlainKinds DEF ExchangeInv, BeginHandled
<1> QED
  BY <1>1, BusyLink DEF Asking, FirstAhead, BaseInv

\* A reply that is fetched answers the query, or is BUSY or RETRY from a board that
\* has nothing to answer yet.
LEMMA ExactAnswer ==
  ASSUME Exact, BaseInv, ExchangeInv, NEW r \in Arrives, wire \in {"wait", "late", "poll"},
         wire = "wait" => Served, TransactionOpen, HandlerBusy, ReplyInterrupt,
         early' = (early \/ AsksTooEarly)
  PROVE /\ \/ r.kind \in Handed /\ Answers(r.kind) /\ Quiet'
           \/ r.kind = "busy" /\ UNCHANGED boardVars /\ FirstAhead
           \/ /\ r.kind = "retry" /\ UNCHANGED boardVars
              /\ \/ Quiet
                 \/ FirstAhead /\ (query \in {incoming, decoded} => early')
        /\ outgoing # NoReply <=> r.kind \in Handed
        /\ (Sent /\ Once) \/ outgoing # NoReply
<1>1. r = Answer
  BY DEF Arrives, Exact
<1>2. UNCHANGED <<incoming, decoded, fsm, sensors>> /\ outgoing' = NoReply
  BY DEF ReplyInterrupt
<1>3. /\ ~hasReply /\ Held = NoReply /\ address # 0
      /\ Sent /\ (wire # "wait" => Late) /\ ~Again
      /\ Twice => wire = "wait"
  BY BusyLink DEF TransactionOpen, BaseInv, Held, Sent, Late, Again, Unsent, Twice
<1>4. fsm \in {"ModuleIdle", "ModuleServicer", "TakeSensorReadings"} /\ (Quiet \/ Serving)
  BY DEF ExchangeInv
<1>5. CASE outgoing # NoReply
  <2>1. Serving /\ Answers(outgoing.kind)
    BY <1>4, <1>5 DEF Quiet, Serving
  <2>2. incoming = NoQuery
    <3>1. ~Twice
      BY <1>4, <1>5 DEF Twice, FirstAhead, Served, Away
    <3> QED
      BY <1>3, <1>5, <2>1, <3>1 DEF Serving, Once
  <2>3. decoded = NoQuery
    BY <2>2 DEF BaseInv, BoardInv
  <2> QED
    BY <1>1, <1>2, <1>5, <2>1, <2>2, <2>3 DEF Answer, Quiet, BaseInv, BoardInv, Handed
<1>6. CASE outgoing = NoReply /\ Busy
  <2>1. FirstAhead
    <3>1. CASE wire = "wait"
      <4>1. fsm = "TakeSensorReadings"
        BY <1>4, <1>6, <3>1 DEF Busy, Served, Away, BaseInv, BoardInv
      <4> QED
        BY <1>3, <1>6, <4>1, AwayAsks
    <3>2. CASE wire # "wait"
      BY <1>3, <3>2 DEF ExchangeInv
    <3> QED
      BY <3>1, <3>2
  <2>2. UNCHANGED boardVars /\ Once
    BY <1>2, <1>6 DEF boardVars, Once
  <2> QED
    BY <1>1, <1>3, <1>6, <2>1, <2>2, PlainKinds DEF Answer, ReplyKinds, Handed
<1>7. CASE outgoing = NoReply /\ ~Busy
  <2>1. fsm = "ModuleIdle" /\ decoded = NoQuery /\ UNCHANGED boardVars /\ Once
    BY <1>2, <1>7 DEF Busy, BaseInv, BoardInv, boardVars, Once
  <2>2. r.kind = "retry" /\ Answer = Plain("retry")
    BY <1>1, <1>7, PlainKinds DEF Answer, ReplyKinds
  <2>3. CASE incoming = NoQuery
    BY <1>3, <1>7, <2>1, <2>2, <2>3 DEF Quiet, Handed
  <2>4. CASE incoming # NoQuery
    <3>1. FirstAhead
      BY <1>3, <2>1, <2>4 DEF Served, Away, ExchangeInv
    <3>2. query # NoQuery /\ query.type \in QueryTypes
      BY <1>3, SentQuery DEF BaseInv
    <3>3. query \in {incoming, decoded} => early'
      BY <2>1, <2>2, <3>2 DEF AsksTooEarly
    <3> QED
      BY <1>3, <1>7, <2>1, <2>2, <3>1, <3>3 DEF Handed
  <2> QED
    BY <2>3, <2>4
<1> QED
  BY <1>5, <1>6, <1>7

\* Decoding a reply, fetched just now or at the end of the stream.
LEMMA ExactComplete ==
  ASSUME BaseInv, ExchangeInv, HandlerBusy, TransactionOpen,
         UNCHANGED <<fsm, active, pending>>, fsm = "TakeSensorReadings" => BeginHandled',
         NEW r, Complete(r),
         \/ r.kind \in Handed /\ Answers(r.kind) /\ Quiet'
         \/ r.kind = "busy" /\ UNCHANGED boardVars /\ FirstAhead /\ (Quiet \/ Serving)
              /\ Sent /\ Once
         \/ r.kind = "retry" /\ UNCHANGED boardVars
              /\ (Quiet \/ (Serving /\ Once /\ FirstAhead
                              /\ (query \in {incoming, decoded} \/ outgoing # NoReply => early')))
  PROVE ExchangeInv'
<1>1. ~hasReply /\ address # 0 /\ ~hasQuery /\ HandlerBusy'
  BY BusyLink DEF TransactionOpen, BaseInv, HandlerBusy
<1>2. /\ Held' = IF r.kind \in Handed THEN r ELSE NoReply
      /\ UNCHANGED query
  BY <1>1, CompleteHeld DEF Handed
<1>3. Held'.kind \in Handed => Answers(Held.kind)'
  BY <1>2, PlainKinds DEF Answers, Handed
<1>4. fsm' \in {"ModuleIdle", "ModuleServicer", "TakeSensorReadings"}
  BY DEF ExchangeInv
<1>5. CASE r.kind \in Handed /\ Quiet'
  <2>1. address' = 0 /\ hasReply' /\ wire' = "idle"
    BY <1>5 DEF Complete, Close, Handed
  <2> QED
    BY <1>3, <1>4, <1>5, <2>1 DEF ExchangeInv
<1>6. CASE /\ r.kind = "busy" /\ UNCHANGED boardVars /\ FirstAhead /\ (Quiet \/ Serving)
           /\ Once
  <2>1. wire' = "poll" /\ UNCHANGED <<address, query, hasQuery, hasReply>>
    BY <1>6 DEF Complete
  <2>2. FirstAhead' /\ Once' /\ Sent'
    BY <1>1, <1>6, <2>1 DEF FirstAhead, Once, Sent, Late, Done, boardVars
  <2>3. Quiet' \/ Serving'
    BY <1>1, <1>6, <2>1, <2>2 DEF Quiet, Serving, Answers, boardVars
  <2> QED
    BY <1>1, <1>3, <1>4, <2>1, <2>2, <2>3 DEF ExchangeInv
<1>7. CASE /\ r.kind = "retry" /\ UNCHANGED boardVars
           /\ (Quiet \/ (Serving /\ Once /\ FirstAhead
                          /\ (query \in {incoming, decoded} \/ outgoing # NoReply => early')))
  <2>1. hasQuery' /\ wire' = wire /\ received' = r /\ UNCHANGED <<address, query>>
    BY <1>7 DEF Complete
  <2>2. Quiet' \/ Again'
    BY <1>7, <2>1 DEF Quiet, Again, Unsent, Once, FirstAhead, Done, boardVars
  <2>3. Quiet' \/ Serving'
    BY <1>1, <1>7, <2>1, <2>2 DEF Quiet, Serving, Answers, boardVars
  <2>4. ~Late' /\ received'.kind # "garbled"
    BY <1>7, <2>1 DEF Late
  <2> QED
    BY <1>1, <1>3, <1>4, <2>1, <2>3, <2>4 DEF ExchangeInv
<1> QED
  BY <1>5, <1>6, <1>7

LEMMA ExactLink ==
  ASSUME Exact, BaseInv, ExchangeInv, LinkStep
  PROVE ExchangeInv'
<1>1. /\ HandlerBusy /\ CommTask /\ UNCHANGED <<active, pending>>
      /\ HandlerBusy' /\ UNCHANGED query /\ address # 0
  BY LinkKinds DEF LinkStep, handlerVars, HandlerBusy, BaseInv
<1>2. ~hasReply /\ fsm' = fsm
  BY <1>1, BusyLink
  DEF CommTask, CommProgress, Prepare, Send, SendFails, Receive, EndOfStream, Poll,
      Missed, Timeout, Asks, ReceiveInterrupt, ReplyInterrupt, boardVars, BaseInv
<1>3. NoReply.kind \notin Handed /\ NoReply.kind # "begin"
  BY PlainKinds DEF Handed
<1>4. CASE Prepare
  <2>1. /\ hasQuery /\ ~hasQuery' /\ wire' = "send"
        /\ UNCHANGED <<address, query, early, boardVars>> /\ Held' = NoReply /\ Held = NoReply
    BY <1>2, <1>4 DEF Prepare, Held, TransactionOpen
  <2>2. Quiet' \/ Serving'
    <3>1. CASE Quiet
      BY <2>1, <3>1 DEF Quiet, boardVars
    <3>2. CASE Serving
      <4>1. Again
        BY <2>1, <3>2 DEF Serving, Sent, Late, Twice
      <4>2. Again'
        BY <1>1, <2>1, <4>1 DEF Again, Unsent, Once, FirstAhead, Done, boardVars
      <4> QED
        BY <1>1, <2>1, <3>2, <4>2 DEF Serving, Answers, boardVars
    <3> QED
      BY <3>1, <3>2 DEF ExchangeInv
  <2>3. BeginHandled' <=> BeginHandled
    BY <1>1, <2>1 DEF BeginHandled, Asking, Beginning, boardVars
  <2> QED
    BY <1>1, <1>2, <1>3, <2>1, <2>2, <2>3 DEF ExchangeInv, Late
<1>5. CASE Send
  <2>1. /\ wire = "send" /\ TransactionOpen /\ ReceiveInterrupt(query)
        /\ wire' = IF Away THEN "late" ELSE "wait"
        /\ UNCHANGED <<address, hasQuery, hasReply, early>>
    BY <1>5 DEF Send
  <2>2. /\ incoming' \in {query, GarbledQuery} /\ decoded' \in {decoded, GarbledQuery}
        /\ UNCHANGED <<fsm, outgoing, sensors>>
    BY <2>1 DEF ReceiveInterrupt
  <2>3. Held = NoReply /\ Held' = NoReply
    BY <1>2, <2>1 DEF Held
  <2>4. Quiet \/ (Serving /\ Again)
    BY <2>1 DEF ExchangeInv, Serving, Sent, Late, Twice
  <2>5. BeginHandled' <=> BeginHandled
    BY <1>1, <2>2, <2>3 DEF BeginHandled, Asking, Beginning
  <2>6. incoming' # NoQuery /\ decoded' \in {NoQuery, query, GarbledQuery}
    BY <1>1, <2>2, <2>4, SentQuery DEF Quiet, Serving, BaseInv, GarbledQuery, NoQuery
  <2>7. FirstAhead => FirstAhead'
    BY <1>1, <2>2 DEF FirstAhead, Done
  <2>8. CASE outgoing = NoReply
    <3>1. Sent' /\ Once'
      BY <2>1, <2>2, <2>8 DEF TransactionOpen, Sent, Late, Once
    <3>2. Late' => FirstAhead'
      <4>1. Away => FirstAhead
        BY <1>1, <2>3, <2>8, AwayAsks DEF Away, ExchangeInv
      <4> QED
        BY <2>1, <2>7, <4>1 DEF Late
    <3>3. Serving'
      BY <1>1, <2>1, <2>2, <2>6, <2>8, <3>1 DEF Serving
    <3> QED
      BY <1>1, <1>2, <1>3, <2>1, <2>3, <2>5, <3>2, <3>3 DEF ExchangeInv
  <2>9. CASE outgoing # NoReply
    <3>1. Serving /\ Again /\ fsm # "TakeSensorReadings"
      BY <2>4, <2>9 DEF Quiet, Again, FirstAhead
    <3>2. wire' = "wait" /\ ~Late'
      BY <2>1, <3>1 DEF Away, ExchangeInv, Late
    <3>3. Twice'
      BY <2>1, <2>2, <2>6, <2>7, <2>9, <3>1, <3>2 DEF Twice, Again, TransactionOpen
    <3>4. Serving'
      BY <1>1, <2>1, <2>2, <2>6, <2>9, <3>1, <3>3 DEF Serving, Answers
    <3> QED
      BY <1>1, <1>2, <1>3, <2>1, <2>3, <2>5, <3>2, <3>4 DEF ExchangeInv
  <2> QED
    BY <2>8, <2>9
<1>6. CASE Receive
  <2>1. /\ wire \in {"wait", "late"} /\ (wire = "wait" => Served) /\ ReplyInterrupt
        /\ TransactionOpen /\ received' \in Arrives /\ wire' = "eos"
        /\ early' = (early \/ AsksTooEarly)
        /\ UNCHANGED <<address, query, hasQuery, hasReply, reply>>
    BY <1>6 DEF Receive, Asks, Exact
  <2>2. /\ \/ received'.kind \in Handed /\ Answers(received'.kind) /\ Quiet'
           \/ received'.kind = "busy" /\ UNCHANGED boardVars /\ FirstAhead
           \/ /\ received'.kind = "retry" /\ UNCHANGED boardVars
              /\ \/ Quiet
                 \/ FirstAhead /\ (query \in {incoming, decoded} => early')
        /\ outgoing # NoReply <=> received'.kind \in Handed
        /\ (Sent /\ Once) \/ outgoing # NoReply
    BY <1>1, <2>1, ExactAnswer
  <2>3. Held' = received' /\ Held = NoReply
    BY <1>2, <2>1 DEF Held, TransactionOpen
  <2>4. HandlerBusy' /\ Held'.kind \in Handed => Answers(Held.kind)'
    BY <1>1, <2>2, <2>3 DEF Answers, Handed
  <2>5. BeginHandled => BeginHandled'
    <3>1. CASE Asking
      BY <1>1, <3>1 DEF BeginHandled, Asking
    <3>2. CASE Beginning /\ outgoing.kind = "begin"
      <4>1. received'.kind \in Handed /\ Answers(received'.kind)
        BY <1>3, <2>2, <3>2 DEF Handed
      <4>2. active = "begin"
        BY <1>1, <3>2, BusyLink DEF Beginning, BaseInv
      <4> QED
        BY <1>1, <2>3, <3>2, <4>1, <4>2 DEF Answers, BeginHandled, Beginning
    <3> QED
      BY <1>3, <2>3, <3>1, <3>2 DEF BeginHandled
  <2>6. received'.kind # "garbled"
    BY <2>2 DEF Handed
  <2>7. CASE received'.kind \in Handed /\ Quiet'
    <3>1. ~Late'
      BY <2>1, <2>7 DEF Late, Handed
    <3> QED
      BY <1>1, <1>2, <2>1, <2>4, <2>5, <2>6, <2>7, <3>1 DEF ExchangeInv
  <2>8. CASE received'.kind = "busy" /\ UNCHANGED boardVars /\ FirstAhead
    <3>1. FirstAhead'
      BY <1>1, <2>8 DEF FirstAhead, Done, boardVars
    <3>2. Sent' /\ Once'
      BY <2>1, <2>2, <2>8 DEF Sent, Late, Once, TransactionOpen, Handed, boardVars
    <3>3. Quiet' \/ Serving'
      BY <1>1, <2>1, <2>8, <3>2 DEF ExchangeInv, Quiet, Serving, Answers, boardVars
    <3> QED
      BY <1>1, <1>2, <2>1, <2>4, <2>5, <2>6, <3>1, <3>3 DEF ExchangeInv
  <2>9. CASE /\ received'.kind = "retry" /\ UNCHANGED boardVars
             /\ Quiet \/ (FirstAhead /\ (query \in {incoming, decoded} => early'))
    <3>1. ~Late'
      BY <2>1, <2>9 DEF Late
    <3>2. CASE Quiet
      <4>1. Quiet'
        BY <2>9, <3>2 DEF Quiet, boardVars
      <4> QED
        BY <1>1, <1>2, <2>1, <2>4, <2>5, <2>6, <3>1, <4>1 DEF ExchangeInv
    <3>3. CASE ~Quiet
      <4>1. Again'
        BY <1>1, <2>1, <2>2, <2>9, <3>3
        DEF Again, Unsent, Once, FirstAhead, Done, boardVars, Handed
      <4>2. Serving'
        BY <1>1, <2>1, <2>9, <3>3, <4>1 DEF ExchangeInv, Serving, Answers, boardVars
      <4> QED
        BY <1>1, <1>2, <2>1, <2>4, <2>5, <2>6, <3>1, <4>2 DEF ExchangeInv
    <3> QED
      BY <3>2, <3>3
  <2> QED
    BY <2>2, <2>7, <2>8, <2>9
<1>7. CASE EndOfStream
  <2>1. /\ wire = "eos" /\ TransactionOpen /\ Complete(received)
        /\ UNCHANGED <<boardVars, early>> /\ Held = received
    BY <1>2, <1>7 DEF EndOfStream, Held
  <2>2. received.kind \in Handed \union {"busy", "retry"}
    <3>1. received.kind \in ReplyKinds \union {"none", "garbled"}
      BY DEF BaseInv, TypeInv, TypeOK, CommTypeOK, Reply
    <3> QED
      BY <2>1, <3>1 DEF BaseInv, QueryInv, ReplyKinds, Handed, ExchangeInv
  <2>3. /\ Serving => received.kind \in {"busy", "retry"}
        /\ Serving /\ received.kind = "busy" => Sent /\ Once
        /\ Serving /\ received.kind = "retry" => Again
    BY <2>1 DEF Serving, Sent, Late, Again, Unsent, Twice, TransactionOpen
  <2>4. received.kind = "busy" => Sent /\ Once /\ FirstAhead
    <3>1. received.kind = "busy" => Late
      BY <2>1 DEF Late, TransactionOpen
    <3>2. Quiet => Once
      BY DEF Quiet, Once
    <3> QED
      BY <1>1, <2>1, <2>3, <3>1, <3>2 DEF ExchangeInv, Sent, TransactionOpen
  <2>5. received.kind \in Handed => Quiet' /\ Answers(received.kind)
    BY <1>1, <2>1, <2>3 DEF ExchangeInv, Quiet, boardVars, Handed
  <2>6. fsm = "TakeSensorReadings" => BeginHandled'
    <3>1. Held' = IF received.kind \in Handed THEN received ELSE NoReply
      BY <1>2, <2>1, <2>2, CompleteHeld
    <3> QED
      BY <1>1, <1>3, <2>1, <2>2, <3>1
      DEF ExchangeInv, BeginHandled, Beginning, Asking, Handed, boardVars
  <2> QED
    BY <1>1, <1>2, <2>1, <2>2, <2>3, <2>4, <2>5, <2>6, ExactComplete
    DEF ExchangeInv, Again
<1>8. CASE Poll
  <2>1. PICK r \in Arrives : Complete(r)
    BY <1>8 DEF Poll
  <2>2. wire = "poll" /\ ReplyInterrupt /\ TransactionOpen /\ early' = (early \/ AsksTooEarly)
    BY <1>8 DEF Poll, Asks, Exact
  <2>3. /\ \/ r.kind \in Handed /\ Answers(r.kind) /\ Quiet'
           \/ r.kind = "busy" /\ UNCHANGED boardVars /\ FirstAhead
           \/ /\ r.kind = "retry" /\ UNCHANGED boardVars
              /\ \/ Quiet
                 \/ FirstAhead /\ (query \in {incoming, decoded} => early')
        /\ outgoing # NoReply <=> r.kind \in Handed
        /\ (Sent /\ Once) \/ outgoing # NoReply
    BY <1>1, <2>1, <2>2, ExactAnswer
  <2>4. fsm = "TakeSensorReadings" => BeginHandled'
    <3>1. /\ Held' = IF r.kind \in Handed THEN r ELSE NoReply
          /\ Held = NoReply
      BY <1>2, <2>1, <2>2, <2>3, CompleteHeld DEF Held, Handed
    <3>2. CASE Asking
      BY <1>1, <3>2 DEF BeginHandled, Asking
    <3>3. CASE Beginning /\ outgoing.kind = "begin"
      <4>1. active = "begin" /\ Answers(r.kind) /\ r.kind \in Handed
        BY <1>1, <1>3, <2>3, <3>3, BusyLink DEF Beginning, BaseInv, Handed
      <4> QED
        BY <1>1, <3>1, <3>3, <4>1 DEF Answers, BeginHandled, Beginning
    <3> QED
      BY <1>3, <3>1, <3>2, <3>3 DEF ExchangeInv, BeginHandled
  <2> QED
    BY <1>1, <1>2, <2>1, <2>2, <2>3, <2>4, ExactComplete DEF ExchangeInv, Handed, Once
<1>9. ~SendFails /\ ~Missed /\ ~Timeout
  BY DEF SendFails, Missed, Timeout, Listening, Exact, ExchangeInv
<1> QED
  BY <1>1, <1>4, <1>5, <1>6, <1>7, <1>8, <1>9 DEF CommTask, CommProgress

LEMMA ExactBoard ==
  ASSUME Exact, BaseInv, ExchangeInv, BoardMoves
  PROVE ExchangeInv'
<1>1. /\ Held' = Held
      /\ UNCHANGED <<address, query, hasQuery, hasReply, wire, received, early, active, pending>>
  BY DEF BoardMoves, commVars, handlerVars
<1>2. /\ HandlerBusy' <=> HandlerBusy
      /\ Asking' <=> Asking
      /\ Beginning' <=> Beginning
      /\ Late' <=> Late
      /\ Sent' <=> Sent
      /\ Unsent' <=> Unsent
  BY <1>1 DEF HandlerBusy, Asking, Beginning, Late, Sent, Unsent
<1>3. \A kind : Answers(kind)' <=> Answers(kind)
  BY <1>1 DEF Answers
<1>4. ASSUME fsm' \in {"ModuleIdle", "ModuleServicer", "TakeSensorReadings"},
             fsm' = "TakeSensorReadings" => BeginHandled',
             Quiet' \/ Serving',
             HandlerBusy /\ address # 0 /\ Late => FirstAhead'
      PROVE ExchangeInv'
  BY <1>1, <1>2, <1>3, <1>4 DEF ExchangeInv
<1>5. CASE Notice \/ TakeSensorReadings
  <2>1. /\ UNCHANGED <<incoming, decoded, outgoing>>
        /\ fsm' \in {"ModuleIdle", "ModuleServicer"}
    BY <1>5 DEF Notice, TakeSensorReadings
  <2>2. FirstAhead => FirstAhead'
    <3>1. CASE Notice
      BY <1>1, <3>1 DEF Notice, FirstAhead, Done
    <3>2. CASE TakeSensorReadings
      BY <1>1, <2>1, <3>2, TakeReadingsDone
      DEF FirstAhead, BaseInv, TypeInv, TypeOK, TakeSensorReadings
    <3> QED
      BY <1>5, <3>1, <3>2
  <2>3. Quiet' \/ Serving'
    BY <1>1, <1>2, <1>3, <2>1, <2>2
    DEF ExchangeInv, Quiet, Serving, Once, Again, Twice
  <2> QED
    BY <1>4, <2>1, <2>2, <2>3 DEF ExchangeInv
<1>6. CASE Decode
  <2>1. /\ UNCHANGED <<incoming, outgoing, fsm, sensors>> /\ decoded' = incoming
        /\ incoming # NoQuery /\ fsm = "ModuleServicer"
    BY <1>6 DEF Decode
  <2>2. FirstAhead => FirstAhead'
    BY <1>1, <2>1 DEF FirstAhead, Done
  <2>3. Serving'
    BY <1>1, <1>2, <1>3, <2>1, <2>2
    DEF ExchangeInv, Quiet, Serving, Once, Again, Twice
  <2> QED
    BY <1>4, <2>1, <2>2, <2>3 DEF ExchangeInv
<1>7. CASE DropMalformed
  <2>1. /\ fsm = "ModuleServicer" /\ fsm' = "ModuleIdle"
        /\ incoming' = NoQuery /\ decoded' = NoQuery /\ UNCHANGED <<outgoing, sensors>>
        /\ decoded # NoQuery
    BY <1>7 DEF DropMalformed, Handled, NoQuery
  <2>2. Serving
    BY <2>1, HandledQuery
  <2>3. (FirstAhead => FirstAhead') /\ Once'
    BY <1>1, <2>1 DEF FirstAhead, Once, Done
  <2>4. Quiet' \/ Serving'
    <3>1. CASE outgoing = NoReply
      BY <2>1, <3>1 DEF Quiet
    <3>2. CASE outgoing # NoReply
      <4>1. (Sent /\ Once)' \/ Again'
        BY <1>1, <1>2, <2>2, <2>3, <3>2 DEF Serving, Again, Twice, Sent
      <4> QED
        BY <1>1, <1>2, <1>3, <2>1, <2>2, <4>1 DEF Serving
    <3> QED
      BY <3>1, <3>2
  <2> QED
    BY <1>4, <2>1, <2>3, <2>4 DEF ExchangeInv
<1>8. CASE HandleBegin \/ HandleStatus \/ HandleCustom
  <2>1. /\ decoded # NoQuery /\ decoded.type \in {"begin", "status", "custom"}
        /\ fsm = "ModuleServicer" /\ fsm' \in {"ModuleIdle", "TakeSensorReadings"}
        /\ incoming' = NoQuery /\ decoded' = NoQuery
    BY <1>8 DEF HandleBegin, HandleStatus, HandleCustom, Handled, NoQuery
  <2>2. Serving /\ active = decoded.type /\ decoded = query /\ (outgoing = NoReply \/ Twice)
    BY <2>1, HandledQuery
  <2>3. Answers(outgoing'.kind)
    <3>1. CASE HandleBegin
      BY <2>2, <3>1, PlainKinds DEF HandleBegin, Answers, ReplyKinds
    <3>2. CASE HandleStatus
      <4>1. outgoing'.kind \in {"done", "idle"}
        BY <3>2, PlainKinds, HandleStatusReadings
        DEF BaseInv, TypeInv, TypeOK, ReplyKinds
      <4> QED
        BY <2>2, <3>2, <4>1 DEF HandleStatus, Answers
    <3>3. CASE HandleCustom
      BY <2>2, <3>3, PlainKinds DEF HandleCustom, Answers, ReplyKinds
    <3> QED
      BY <1>8, <3>1, <3>2, <3>3
  <2>4. fsm' = "TakeSensorReadings" => BeginHandled'
    <3>1. CASE HandleBegin
      BY <1>2, <2>2, <3>1, PlainKinds
      DEF HandleBegin, BeginHandled, Beginning, ReplyKinds
    <3>2. CASE HandleStatus \/ HandleCustom
      BY <3>2 DEF HandleStatus, HandleCustom, Handled
    <3> QED
      BY <1>8, <3>1, <3>2
  <2>5. FirstAhead /\ outgoing = NoReply => FirstAhead'
    <3> SUFFICES ASSUME FirstAhead, outgoing = NoReply PROVE FirstAhead'
      OBVIOUS
    <3>1. HandleStatus /\ fsm' = "ModuleIdle" /\ \A i \in Sensors : Done(i)
      BY <1>8, <2>1, <2>2
      DEF FirstAhead, HandleBegin, HandleCustom, HandleStatus, Handled
    <3>2. 0 \in Sensors /\ Sensors \subseteq Nat
      BY BoardAssumption DEF Sensors
    <3>3. PICK i \in Sensors :
            /\ outgoing' = [kind |-> "done", sensor |-> i, gather |-> sensors[i].gather]
            /\ \A j \in Sensors : Done(j) => i <= j
      BY <3>1, <3>2, HandleStatusReadings DEF BaseInv, TypeInv, TypeOK
    <3>4. i = 0
      BY <3>1, <3>2, <3>3
    <3> QED
      BY <1>1, <3>1, <3>3, <3>4, PlainKinds DEF FirstAhead
  <2>6. CASE Sent
    BY <1>1, <1>2, <1>3, <1>4, <2>1, <2>2, <2>3, <2>4, <2>5, <2>6
    DEF Serving, Once, Twice, Late, ExchangeInv
  <2>7. CASE ~Sent
    <3>1. Again /\ ~Twice /\ outgoing = NoReply
      BY <2>2, <2>7 DEF Serving, Sent, Twice
    <3>2. Again'
      BY <1>1, <1>2, <2>1, <2>2, <2>5, <3>1 DEF Again, Once
    <3> QED
      BY <1>1, <1>2, <1>3, <1>4, <2>1, <2>2, <2>3, <2>4, <2>7, <3>2
      DEF Serving, Sent
  <2> QED
    BY <2>6, <2>7
<1>9. ~Boot /\ ~Configured /\ ~Reset
  BY DEF Boot, Configured, Reset, ExchangeInv, Exact
<1> QED
  BY <1>5, <1>6, <1>7, <1>8, <1>9 DEF BoardMoves, BoardLoop

\* A client's step finds the board quiet, and no readings being taken unless they
\* are asked for.
LEMMA QuietBetween ==
  ASSUME BaseInv, ExchangeInv, ~HandlerBusy \/ address = 0
  PROVE Quiet /\ (fsm = "TakeSensorReadings" => Asking \/ Held.kind = "begin")
<1>1. Quiet
  BY DEF ExchangeInv, Serving
<1> QED
  BY <1>1, PlainKinds DEF ExchangeInv, BeginHandled, Quiet, ReplyKinds

LEMMA ExactClient ==
  ASSUME Exact, BaseInv, BeginInv, ExchangeInv, [Next]_vars,
         ~LinkStep, ~BoardStep, ~BoardEvent
  PROVE ExchangeInv'
<1>1. ASSUME UNCHANGED boardVars, Quiet,
             fsm = "TakeSensorReadings" => Asking' \/ (Beginning' /\ Held'.kind = "begin"),
             HandlerBusy' => Held'.kind \notin Handed,
             address' # 0 => ~HandlerBusy' \/ hasQuery',
             active' # "none" => address' # 0,
             wire' = wire /\ received' = received
      PROVE ExchangeInv'
  BY <1>1 DEF ExchangeInv, Quiet, BeginHandled, Late, boardVars
<1>2. CASE UNCHANGED vars
  BY <1>2
  DEF ExchangeInv, Quiet, Serving, Sent, Late, Again, Unsent, Twice, Once, FirstAhead,
      TransactionOpen, HandlerBusy, Answers, Held, BeginHandled, Asking, Beginning, Done,
      vars, boardVars, commVars, handlerVars
<1>3. ~HandlerBusy => Quiet /\ fsm # "TakeSensorReadings"
  BY QuietBetween DEF HandlerBusy, Asking, Beginning, ExchangeInv, BeginHandled
<1>4. CASE EnterTakeReadings \/ EnterLiveDataReading \/ CoreReinitializes
  <2>1. ~HandlerBusy /\ ~HandlerBusy' /\ UNCHANGED <<boardVars, commVars>> /\ active' = "none"
    BY <1>4
    DEF EnterTakeReadings, EnterLiveDataReading, CoreReinitializes, BaseInv, LinkInv,
        DriverInv, ClientActive, HandlerBusy, handlerVars
  <2> QED
    BY <1>1, <1>3, <2>1 DEF commVars
<1>5. CASE EnterQueryModule \/ StartGather
  <2>1. ~HandlerBusy /\ ~ClientActive
    BY <1>5
    DEF EnterQueryModule, StartGather, BaseInv, LinkInv, DriverInv, ClientActive
  <2>2. owner = "none" /\ ~hasReply /\ address = 0
    BY <2>1 DEF BaseInv, LinkInv, IdleLink, Exact
  <2>3. /\ UNCHANGED <<boardVars, address, hasReply, wire, received>>
        /\ active' = "none"
    BY <1>5, <2>2 DEF EnterQueryModule, StartGather, Push, commVars
  <2>4. Held'.kind \notin Handed
    BY <2>2, <2>3, PlainKinds DEF Held, TransactionOpen, Handed
  <2> QED
    BY <1>1, <1>3, <2>1, <2>2, <2>3, <2>4
<1>6. CASE GatherNothing
  <2>1. ~HandlerBusy /\ ~HandlerBusy' /\ UNCHANGED <<boardVars, commVars>> /\ active' = "none"
    BY <1>6 DEF GatherNothing, GatherEnds, HandlerBusy
  <2> QED
    BY <1>1, <1>3, <2>1 DEF commVars
<1>7. CASE GatherEnqueues \/ QueryEnqueues
  <2>1. /\ address = 0 /\ ~hasReply /\ pending # "none" /\ hasQuery' /\ address' # 0
        /\ active' = pending /\ Held' = NoReply /\ UNCHANGED <<boardVars, wire, received>>
    BY <1>7
    DEF GatherEnqueues, QueryEnqueues, HandlerEnqueues, Enqueue, Starts, Held,
        TransactionOpen, ModuleAddress
  <2>2. Quiet /\ (fsm = "TakeSensorReadings" => Asking)
    BY <2>1, HeldIdle, QuietBetween, PlainKinds DEF ReplyKinds
  <2>3. Asking => Asking'
    <3>1. active = "none"
      BY <2>1, BusyLink DEF HandlerBusy, BaseInv
    <3> QED
      BY <2>1, <3>1 DEF Asking
  <2> QED
    BY <1>1, <2>1, <2>2, <2>3, PlainKinds DEF Handed
<1>8. CASE GatherContinues \/ GatherCompletes \/ GatherFails \/ QueryFinishes
  <2>1. PICK gather : HandlerFinishes(gather)
    BY <1>8 DEF GatherContinues, GatherCompletes, GatherFails, QueryFinishes
  <2>2. /\ Held' = NoReply /\ address' = 0 /\ address = 0
        /\ active' = "none" /\ UNCHANGED <<boardVars, wire, received>>
    <3>1. HandlerBusy /\ (FinishesWithReply \/ FinishesWithout)
      BY <2>1, HandlerFinishesBusy DEF HandlerFinishes
    <3>2. address = 0
      BY <3>1, BusyLink DEF FinishesWithReply, FinishesWithout, BaseInv
    <3>3. active' = "none" /\ UNCHANGED boardVars
      BY <1>8
      DEF GatherContinues, GatherCompletes, GatherFails, QueryFinishes, QueryEnds,
          GatherEnds, Push
    <3> QED
      BY <2>1, <3>2, <3>3, HandlerFinishesLink, FinishHeld DEF HandlerFinishes, BaseInv
  <2>3. FinishesWithReply /\ Held = reply /\ Current = active
    <3>1. ~FinishesWithout
      BY DEF FinishesWithout, ExchangeInv
    <3> QED
      BY <2>1, <3>1, FinishHeld DEF HandlerFinishes
  <2>4. Quiet /\ (fsm = "TakeSensorReadings" => Asking \/ Held.kind = "begin")
    BY <2>2, QuietBetween
  <2>5. fsm = "TakeSensorReadings" => Asking'
    <3>1. CASE GatherContinues
      BY <3>1 DEF GatherContinues, Push, Asking
    <3>2. CASE GatherCompletes
      <4>1. active = "status" /\ Held.kind \in {"idle", "error"}
        BY <2>1, <2>3, <3>2, FinishHeld DEF GatherCompletes, Handed
      <4> QED
        BY <4>1 DEF BeginInv, BeginAhead, Asking, Final
    <3>3. CASE GatherFails
      <4>1. ~hasReply
        BY <3>3 DEF GatherFails, FinishesWithout
      <4> QED
        BY <2>3, <4>1 DEF FinishesWithReply
    <3>4. CASE QueryFinishes
      <4>1. ~Asking /\ ~Beginning
        BY <3>4 DEF QueryFinishes, BaseInv, QueryInv
      <4> QED
        BY <4>1 DEF ExchangeInv, BeginHandled
    <3> QED
      BY <1>8, <3>1, <3>2, <3>3, <3>4
  <2> QED
    BY <1>1, <2>2, <2>4, <2>5, PlainKinds DEF Handed
<1>9. CASE CoreRestarts
  <2>1. /\ Quiet' /\ fsm' = "ModuleIdle" /\ ~HandlerBusy' /\ active' = "none"
        /\ wire' = "idle"
    BY <1>9 DEF CoreRestarts, Restart, CommReset, Quiet, HandlerBusy
  <2> QED
    BY <2>1 DEF ExchangeInv
<1>10. ~QueryGivesUp
  BY DEF QueryGivesUp, Exact
<1> QED
  BY <1>2, <1>4, <1>5, <1>6, <1>7, <1>8, <1>9, <1>10
  DEF Next, ClientStep, CoreIdles

LEMMA ExchangeInvStep ==
  Exact /\ BaseInv /\ BeginInv /\ ExchangeInv /\ [Next]_vars => ExchangeInv'
<1> SUFFICES ASSUME Exact, BaseInv, BeginInv, ExchangeInv, [Next]_vars PROVE ExchangeInv'
  OBVIOUS
<1>1. BoardStep \/ BoardEvent => BoardMoves
  BY HeldUnchanged DEF BoardStep, BoardEvent, BoardMoves
<1> QED
  BY <1>1, ExactLink, ExactBoard, ExactClient

LEMMA ExchangeInvInit == Init => ExchangeInv
<1> SUFFICES ASSUME Init PROVE ExchangeInv
  OBVIOUS
<1>1. ~HandlerBusy /\ Quiet /\ fsm = "ModuleIdle" /\ active = "none" /\ wire = "idle"
  BY DEF Init, CommInit, BoardInit, HandlerBusy, Quiet
<1> QED
  BY <1>1 DEF ExchangeInv

LEMMA ExchangeInvariant ==
  ASSUME Exact
  PROVE Spec => []ExchangeInv
<1>1. ReadingsInv /\ ExchangeInv /\ [Next]_vars => ExchangeInv'
  BY ExchangeInvStep DEF ReadingsInv
<1> QED
  BY <1>1, ReadingsInvariant, ExchangeInvInit, PTL DEF Spec

\* A reply is of the kind its query asked for, if the link has no fault but noise,
\* although nothing in ModuleProtocolHandler::handle matches the two, and a RETRY
\* that comes too early makes the board serve a query twice.
THEOREM ReplyAnswersQuerySafe ==
  ASSUME Faults \subseteq {"noise"}
  PROVE Spec => []ReplyAnswersQuery
<1>0. Exact
  BY DEF Exact
<1>1. BaseInv /\ ExchangeInv => ReplyAnswersQuery
  <2> SUFFICES ASSUME BaseInv, ExchangeInv, FinishesWithReply
               PROVE reply.kind \in CASE Current = "begin" -> {"begin"}
                                      [] Current = "status" -> {"done", "idle"}
                                      [] Current = "custom" -> {"error"}
    BY DEF ReplyAnswersQuery
  <2>1. hasReply /\ Current # "none" /\ HandlerBusy
    BY DEF FinishesWithReply, Current, Starts, HandlerBusy
  <2>2. Current = active
    BY <2>1, BusyLink DEF Current, Starts, BaseInv
  <2>3. Answers(reply.kind)
    BY <2>1 DEF ExchangeInv, Held, BaseInv, QueryInv
  <2>4. active \in QueryTypes
    BY <2>1, <2>2 DEF BaseInv, TypeInv, TypeOK, CommTypeOK
  <2> QED
    BY <2>2, <2>3, <2>4 DEF Answers, QueryTypes
<1> QED
  BY <1>0, <1>1, ExchangeInvariant, BaseInvariant, PTL

\* What ModuleServicer::task drops as orphaned then is the reading of the first
\* sensor, and it was asked for while its query still waited.
THEOREM OnlyEarlyOrphansSafe ==
  ASSUME Faults \subseteq {"noise"}
  PROVE Spec => []OnlyEarlyOrphans
<1>0. Exact
  BY DEF Exact
<1>1. BaseInv /\ ExchangeInv => OnlyEarlyOrphans
  <2> SUFFICES ASSUME BaseInv, ExchangeInv, decoded # NoQuery, outgoing # NoReply
               PROVE early /\ outgoing.kind = "done" /\ outgoing.sensor = 0
    BY DEF OnlyEarlyOrphans
  <2>1. Twice
    BY HandledQuery
  <2> QED
    BY <2>1 DEF Twice, FirstAhead
<1> QED
  BY <1>0, <1>1, ExchangeInvariant, BaseInvariant, PTL

-----------------------------------------------------------------------------
(***************************************************************************)
(* Where the readings of an exact gather are.  Once the module has handled *)
(* the begin, every value there is is of this gather, and every sensor has *)
(* its reading still to be taken, done, on its way, or filed; the first    *)
(* may have lost it, if a query was asked for too early.                   *)
(***************************************************************************)
FiledFor(i) == \E k \in DOMAIN log : log[k].number = number /\ log[k].sensor = i

AccountedFor(i) ==
  \/ Done(i)
  \/ outgoing.kind = "done" /\ outgoing.sensor = i
  \/ Held.kind = "done" /\ Held.sensor = i
  \/ FiledFor(i)
  \/ i = 0 /\ early

AccountInv ==
  BeginHandled =>
    /\ \A i \in Sensors : sensors[i].gather = number
    /\ Held.kind = "done" => Held.gather = number
    /\ fsm = "TakeSensorReadings" \/ \A i \in Sensors : AccountedFor(i)

\* What a reply that is held says of the query, on an exact link.
LEMMA ExactHeld ==
  ASSUME BaseInv, ExchangeInv, Held.kind \in Handed
  PROVE /\ Beginning => Held.kind = "begin"
        /\ Asking => Held.kind \in {"done", "idle"}
<1>1. Beginning \/ Asking => HandlerBusy
  BY DEF Beginning, Asking, HandlerBusy
<1>2. Beginning \/ Asking => Answers(Held.kind)
  BY <1>1 DEF ExchangeInv
<1>3. /\ Beginning /\ Answers(Held.kind) => active = "begin"
      /\ Asking /\ Answers(Held.kind) => active = "status"
  BY <1>1, BusyLink DEF BaseInv, Beginning, Asking, Answers
<1> QED
  BY <1>2, <1>3 DEF Answers

LEMMA AccountInvStep ==
  Exact /\ BaseInv /\ ExchangeInv /\ AccountInv /\ [Next]_vars => AccountInv'
<1> SUFFICES ASSUME Exact, BaseInv, ExchangeInv, AccountInv, [Next]_vars PROVE AccountInv'
  OBVIOUS
<1> TypeInv /\ BoardInv
  BY DEF BaseInv
<1>n. /\ NoReply.kind \notin {"done", "begin"}
      /\ \A kind \in {"none", "busy", "retry", "garbled"} :
           Plain(kind).kind \notin {"done", "begin"}
      /\ Plain("begin").kind # "done"
  BY PlainKinds DEF ReplyKinds
<1>h. UNCHANGED <<handlerVars, clientVars>> =>
        /\ UNCHANGED <<number, log>> /\ Asking' = Asking /\ Beginning' = Beginning
        /\ \A i \in Sensors : FiledFor(i)' = FiledFor(i)
  BY DEF handlerVars, clientVars, Asking, Beginning, FiledFor
<1>1. CASE Sends
  <2>1. UNCHANGED <<fsm, outgoing, sensors>> /\ Held' = Held
        /\ UNCHANGED <<early, handlerVars, clientVars>>
    BY <1>1 DEF Sends, ReceiveInterrupt
  <2> QED
    BY <1>h, <2>1 DEF AccountInv, BeginHandled, AccountedFor, Done
<1>2. CASE Fetches
  <2>1. UNCHANGED <<fsm, sensors>> /\ outgoing' = NoReply /\ Held = NoReply
        /\ UNCHANGED <<handlerVars, clientVars>>
    BY <1>2 DEF Fetches, ReplyInterrupt
  <2>e. early' \in {early, TRUE}
    BY <1>2 DEF Fetches
  <2>2. BeginHandled' => BeginHandled
    BY <1>2, <1>h, <1>n, <2>1 DEF Fetches, BeginHandled
  <2>3. Held'.kind = "done" =>
          Held' = outgoing /\ \A i \in Sensors : Held'.gather = sensors[i].gather
    BY <1>2, <1>n DEF Fetches, BoardInv
  <2>4. \A i \in Sensors : AccountedFor(i) => AccountedFor(i)'
    BY <1>2, <1>h, <1>n, <2>1, <2>e DEF Fetches, AccountedFor, Done
  <2>5. 0 \in Sensors
    BY BoardAssumption DEF Sensors
  <2> QED
    BY <1>h, <2>1, <2>2, <2>3, <2>4, <2>5 DEF AccountInv
<1>3. CASE BoardMoves
  <2>1. /\ Held' = Held /\ UNCHANGED <<number, log, early>>
        /\ Asking' = Asking /\ Beginning' = Beginning
        /\ \A i \in Sensors : FiledFor(i)' = FiledFor(i)
    BY <1>3, <1>h DEF BoardMoves, commVars
  <2>2. CASE Reads
    BY <2>1, <2>2 DEF Reads, AccountInv, BeginHandled, AccountedFor, Done
  <2>3. CASE HandleBegin
    <3>1. Held.kind \notin Handed /\ decoded.gather = number
      BY <2>3, HandledQuery DEF HandleBegin, NoQuery
    <3> QED
      BY <2>1, <2>3, <3>1 DEF HandleBegin, Handled, AccountInv, Handed
  <2>4. CASE HandleStatus
    <3>1. active = "status" /\ fsm = "ModuleServicer"
      BY <2>4, HandledQuery DEF HandleStatus, Handled, NoQuery
    <3>o. outgoing = NoReply \/ (outgoing.sensor = 0 /\ early)
      BY <2>4, HandledQuery DEF HandleStatus, NoQuery, Twice, FirstAhead
    <3>2. \A i \in Sensors : sensors[i].gather = number /\ AccountedFor(i)
      BY <3>1 DEF AccountInv, BeginHandled, Asking
    <3>3. \A i \in Sensors : AccountedFor(i)'
      <4>1. CASE UNCHANGED sensors
        BY <1>n, <2>1, <3>o, <3>2, <4>1 DEF AccountedFor, Done
      <4>2. ASSUME NEW i \in Sensors,
                   outgoing' = [kind |-> "done", sensor |-> i, gather |-> sensors[i].gather],
                   \A j \in Sensors : Done(j) /\ j # i => Done(j)'
            PROVE \A j \in Sensors : AccountedFor(j)'
        BY <1>n, <2>1, <3>o, <3>2, <4>2 DEF AccountedFor
      <4> QED
        BY <2>4, <4>1, <4>2, HandleStatusReadings DEF TypeInv, TypeOK
    <3>4. \A i \in Sensors : sensors'[i].gather = sensors[i].gather
      BY <2>4, HandleStatusReadings DEF TypeInv, TypeOK
    <3> QED
      BY <2>1, <3>1, <3>2, <3>3, <3>4 DEF AccountInv, BeginHandled, Asking
  <2>5. CASE HandleCustom
    <3>1. Serving /\ active = "custom"
      BY <2>5, HandledQuery DEF HandleCustom, NoQuery
    <3>2. ~Asking /\ ~Beginning
      BY <3>1, BusyLink DEF Serving, Asking, Beginning, BaseInv
    <3> QED
      BY <2>1, <3>2 DEF AccountInv, BeginHandled
  <2>6. CASE TakeSensorReadings
    <3>1. \A i \in Sensors : Done(i)' /\ sensors'[i].gather = sensors[i].gather
      BY <2>6, TakeReadingsDone DEF TypeInv, TypeOK
    <3>2. BeginHandled' => BeginHandled
      BY <2>1, <2>6 DEF TakeSensorReadings, BeginHandled
    <3> QED
      BY <2>1, <3>1, <3>2 DEF AccountInv, AccountedFor
  <2>7. ~Reset
    BY DEF Reset, Exact
  <2> QED
    BY <1>3, <2>2, <2>3, <2>4, <2>5, <2>6, <2>7, BoardCases
<1>4. CASE Waits
  <2>1. BeginHandled' => BeginHandled
    BY <1>4, <1>n DEF Waits, BeginHandled, boardVars
  <2>2. BeginHandled' /\ Held' # Held => Held.kind # "done"
    BY <1>4, ExactHeld DEF Waits, BeginHandled, Handed
  <2>3. \A i \in Sensors : BeginHandled' /\ AccountedFor(i) => AccountedFor(i)'
    BY <1>4, <2>2 DEF Waits, AccountedFor, FiledFor, Done, boardVars
  <2> QED
    BY <1>4, <1>n, <2>1, <2>3 DEF Waits, AccountInv, boardVars
<1>5. CASE Begins
  <2>1. outgoing = NoReply
    BY <1>5, QuietBetween DEF Begins, Quiet
  <2> QED
    BY <1>5, <1>n, <2>1 DEF Begins, boardVars, AccountInv, BeginHandled
<1>6. CASE Turns
  <2>1. Held.kind = "begin" /\ BeginHandled
    BY <1>6, ExactHeld DEF Turns, BeginHandled, Beginning
  <2>2. \A i \in Sensors : AccountedFor(i) => AccountedFor(i)'
    BY <1>6, <2>1 DEF Turns, AccountedFor, FiledFor, Done, boardVars
  <2> QED
    BY <1>6, <1>n, <2>1, <2>2 DEF Turns, AccountInv, boardVars
<1>7. CASE Records
  <2>1. /\ BeginHandled /\ Merge(Held) /\ Held \in Reply /\ Held' = NoReply
        /\ UNCHANGED <<boardVars, early, number>>
    BY <1>7, HeldType DEF Records, BeginHandled
  <2>2. \A i \in Sensors : AccountedFor(i) => AccountedFor(i)'
    BY <2>1, MergeLog DEF AccountedFor, FiledFor, Done, boardVars
  <2> QED
    BY <1>n, <2>1, <2>2 DEF AccountInv, boardVars
<1>8. CASE Completes \/ Restarts
  BY <1>8 DEF Completes, Restarts, AccountInv, BeginHandled
<1> QED
  BY <1>1, <1>2, <1>3, <1>4, <1>5, <1>6, <1>7, <1>8, StepKinds

LEMMA AccountInvInit == Init => AccountInv
<1>1. Init => ~Asking /\ ~Beginning
  BY DEF Init, CommInit, Asking, Beginning
<1> QED
  BY <1>1 DEF AccountInv, BeginHandled

-----------------------------------------------------------------------------
(***************************************************************************)
(* The refinement.  What has to be known is that a reading that is merged  *)
(* is the next one, and that the IDLE on which a gather completes is the   *)
(* last: OrderInv says so of any link on which the board is not reset,     *)
(* AccountInv that nothing Due is missing on an exact one.                 *)
(***************************************************************************)
SessionInv == ReadingsInv /\ (Exact => ExchangeInv /\ AccountInv)

LEMMA SessionInvariant == Spec => []SessionInv
<1>1. Init => SessionInv
  BY ReadingsInvInit, ExchangeInvInit, AccountInvInit DEF SessionInv
<1>2. SessionInv /\ [Next]_vars => SessionInv'
  BY ReadingsInvStep, ExchangeInvStep, AccountInvStep DEF SessionInv, ReadingsInv
<1> QED
  BY <1>1, <1>2, PTL DEF Spec

LEMMA SessionRecorded ==
  ASSUME TypeInv
  PROVE /\ \A t : t \in Session!Recorded <=> FiledFor(t)
        /\ Session!Recorded \subseteq Sensors
<1>1. \A k \in DOMAIN log : log[k].sensor \in Sensors
  BY LogEntryType
<1> QED
  BY <1>1 DEF Session!Recorded, FiledFor

\* A merged reading is what ReadingSession lets a gather record.
LEMMA RecordsRecord ==
  ASSUME "reset" \notin Faults, SessionInv, Records
  PROVE \E s \in 0 .. NumSensors - 1, g \in 0 .. number : Session!Record(s, g)
<1> TypeInv /\ BaseInv
  BY DEF SessionInv, ReadingsInv, BaseInv
<1>1. /\ Asking /\ Held.kind = "done" /\ Merge(Held) /\ Open /\ Open'
      /\ UNCHANGED <<early, number, complete>>
  BY DEF Records
<1>2. Held.sensor \in Sensors /\ Held.gather \in 0 .. number
  BY HeldType, NumberTypes DEF Reply, SessionInv, ReadingsInv, NumberInv
<1>3. \A t \in Session!Recorded : t < Held.sensor
  BY <1>1, SessionRecorded DEF FiledFor, SessionInv, ReadingsInv, OrderInv, Counts
<1>4. ASSUME Exact
      PROVE Held.gather = number /\ \A t \in Session!Due : t < Held.sensor => t \in Session!Recorded
  <2>1. AccountInv /\ BeginHandled /\ fsm # "TakeSensorReadings"
    BY <1>1, <1>4
    DEF SessionInv, ReadingsInv, BeginInv, BeginAhead, Final, BeginHandled
  <2>2. Behind(Held.sensor)
    BY <1>1 DEF SessionInv, ReadingsInv, OrderInv
  <2>3. ASSUME NEW t \in Session!Due, t < Held.sensor PROVE t \in Session!Recorded
    <3>1. t \in Sensors /\ ~(t = 0 /\ early) /\ t \in Nat /\ Held.sensor \in Nat
      BY <1>2, BoardAssumption DEF Sensors, Session!Due
    <3>2. ~Done(t) /\ ~(outgoing.kind = "done" /\ outgoing.sensor = t)
      BY <2>2, <2>3, <3>1 DEF Behind, Counts
    <3>3. AccountedFor(t)
      BY <2>1, <3>1 DEF AccountInv
    <3> QED
      BY <2>3, <3>1, <3>2, <3>3, SessionRecorded DEF AccountedFor
  <2> QED
    BY <1>1, <2>1, <2>3 DEF AccountInv
<1>5. Session!Record(Held.sensor, Held.gather)
  BY <1>1, <1>3, <1>4 DEF Session!Record, Merge, Open, Exact
<1> QED
  BY <1>2, <1>5 DEF Sensors

LEMMA CompletesComplete ==
  ASSUME SessionInv, Completes
  PROVE Session!Complete
<1> TypeInv /\ BaseInv
  BY DEF SessionInv, ReadingsInv, BaseInv
<1>1. /\ Asking /\ Held.kind \in {"idle", "error"} /\ Open /\ ~Open'
      /\ UNCHANGED <<early, number, log>> /\ complete' = complete \union {number}
  BY DEF Completes
<1>2. ASSUME Exact PROVE Session!Due \subseteq Session!Recorded
  <2>1. /\ BeginHandled /\ fsm # "TakeSensorReadings"
        /\ \A i \in Sensors : sensors[i].gather = number /\ AccountedFor(i)
    BY <1>1, <1>2
    DEF SessionInv, ReadingsInv, BeginInv, BeginAhead, Final, BeginHandled, AccountInv
  <2>2. \A i \in Sensors : ~Done(i) /\ outgoing.kind # "done"
    BY <1>1, <2>1
    DEF SessionInv, ReadingsInv, CompleteInv, NothingLeft, BaseInv, BoardInv
  <2>3. \A i \in Sensors : FiledFor(i) \/ (i = 0 /\ early)
    BY <1>1, <2>1, <2>2 DEF AccountedFor
  <2> QED
    BY <2>3, SessionRecorded DEF Sensors, Session!Due
<1> QED
  BY <1>1, <1>2 DEF Session!Complete, Open, Exact

(***************************************************************************)
(* Unless the board is reset in the middle of it, a gather over any link   *)
(* records the sensors in their order and none of them twice; if the link  *)
(* has no fault but noise it records what was taken for it, and when it    *)
(* completes it misses no sensor but possibly the first, and that only if  *)
(* a query of it was asked for before the module had looked.               *)
(* GatherReadings implements ReadingSession in both of its forms.          *)
(***************************************************************************)
THEOREM SessionImplemented ==
  ASSUME "reset" \notin Faults
  PROVE Spec => SessionSpec
<1>1. Init => Session!Init
  BY DEF Init, CommInit, Session!Init
<1>2. SessionInv /\ [Next]_vars =>
        [Session!Next]_<<number, gathering /\ owner = "gather", early, log, complete>>
  <2> SUFFICES ASSUME SessionInv, [Next]_vars
               PROVE Session!Next \/ UNCHANGED <<number, Open, early, log, complete>>
    BY DEF Open
  <2>0. BaseInv
    BY DEF SessionInv, ReadingsInv
  <2>1. CASE Sends \/ BoardMoves
    BY <2>1 DEF Sends, BoardMoves, clientVars, commVars, Open
  <2>7. CASE Fetches
    BY <2>7 DEF Fetches, clientVars, Open, Session!Next, Session!Skip
  <2>2. CASE Waits
    BY <2>2 DEF Waits, Open, Session!Next, Session!Fail
  <2>3. CASE Begins
    BY <2>3 DEF Begins, Open, Session!Next, Session!Begin
  <2>4. CASE Turns \/ Restarts
    BY <2>4 DEF Turns, Restarts, Open
  <2>5. CASE Records
    BY <2>5, RecordsRecord DEF Session!Next
  <2>6. CASE Completes
    BY <2>6, CompletesComplete DEF Session!Next
  <2> QED
    BY <2>0, <2>1, <2>2, <2>3, <2>4, <2>5, <2>6, <2>7, StepKinds
<1> QED
  BY <1>1, <1>2, SessionInvariant, PTL DEF Spec, SessionSpec, Session!Spec
=============================================================================
