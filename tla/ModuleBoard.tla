---------------------------- MODULE ModuleBoard ----------------------------
(***************************************************************************)
(* A sensor module's board: the I2C child (TwoWireChild) with its two      *)
(* interrupt handlers, and the super-loop of its state machine (Booting,   *)
(* ConfigureModule, ModuleIdle, ModuleServicer, and the readings state of  *)
(* src/module/example_module.cpp).  The interrupt handlers are operators   *)
(* here: the core fires them when it drives the bus, see ModuleComms.      *)
(*                                                                         *)
(* Abstracted: the encoding of messages, the values and times of readings, *)
(* and the queries of firmware transfers.  A reading carries, as a ghost   *)
(* of the "value" it stands for, the number of the gather whose            *)
(* BEGIN_TAKE_READINGS produced it; 0 is a value nobody took.              *)
(***************************************************************************)
EXTENDS Naturals

CONSTANTS
  NumSensors,   \* ModuleInfo::numberOfSensors
  Faults        \* which of the faults below a run allows

FaultKinds ==
  { "lag",      \* the board serves a query later than the core's reply_delay
    "bus",      \* a transfer fails on the wire
    "noise",    \* a query arrives at the board undecodable
    "corrupt",  \* a reply arrives at the core undecodable
    "stall",    \* the core's loop stops longer than reply_timeout
    "slow",     \* the readings state takes longer than transaction_timeout
    "reset",    \* the board restarts
    "giveup" }  \* ten seconds pass in one WifiQueryModule::task

ASSUME BoardAssumption == NumSensors \in Nat \ {0} /\ Faults \subseteq FaultKinds

VARIABLES
  fsm,        \* ModuleState::current()
  incoming,   \* TwoWireChild::incoming_
  decoded,    \* the query ModuleServicer::task has read and not yet cleared
  outgoing,   \* TwoWireChild::outgoing_
  sensors     \* ModuleInfo::readings

boardVars == <<fsm, incoming, decoded, outgoing, sensors>>

Sensors == 0 .. NumSensors - 1

FsmStates ==
  {"Booting", "ConfigureModule", "ModuleIdle", "ModuleServicer", "TakeSensorReadings"}

QueryTypes == {"begin", "status", "custom"}
Query == [type : QueryTypes \union {"none", "garbled"}, gather : Nat]
NoQuery == [type |-> "none", gather |-> 0]
GarbledQuery == [type |-> "garbled", gather |-> 0]

\* REPLY_READING_STATUS is told apart by its state: begin, done or idle.
ReplyKinds == {"begin", "done", "idle", "error", "busy", "retry"}
Reply == [kind : ReplyKinds \union {"none", "garbled"}, sensor : Sensors, gather : Nat]
Plain(kind) == [kind |-> kind, sensor |-> 0, gather |-> 0]
NoReply == Plain("none")

SensorReading == [status : {"Idle", "Busy", "Done"}, gather : Nat]

BoardTypeOK ==
  /\ fsm \in FsmStates
  /\ incoming \in Query
  /\ decoded \in Query
  /\ outgoing \in Reply
  /\ sensors \in [Sensors -> SensorReading]

(***************************************************************************)
(* The example declares `SensorReading readings[3]` on the stack and does  *)
(* not initialise it: any status may be found there after a start.         *)
(***************************************************************************)
UninitialisedSensors == [Sensors -> [status : {"Idle", "Busy", "Done"}, gather : {0}]]

BoardInit ==
  /\ fsm = "ModuleIdle"
  /\ incoming = NoQuery
  /\ decoded = NoQuery
  /\ outgoing = NoReply
  /\ sensors \in UninitialisedSensors

-----------------------------------------------------------------------------
(* Interrupt handlers. *)

Listening == fsm # "Booting"      \* Wire answers from TwoWireChild::setup on

\* ModuleState::busy(): only ModuleIdle overrides it.
Busy == fsm # "ModuleIdle"

\* TwoWireChild::receive: the message replaces whatever incoming_ held.  When
\* the interrupt hits between the servicer's read and its clear, the read in
\* progress may see a mix of the two messages.
ReceiveInterrupt(q) ==
  /\ incoming' \in {q} \union (IF "noise" \in Faults THEN {GarbledQuery} ELSE {})
  /\ decoded' \in {decoded} \union (IF decoded = NoQuery THEN {} ELSE {GarbledQuery})
  /\ UNCHANGED <<fsm, outgoing, sensors>>

\* TwoWireChild::reply: what goes out, and outgoing_ is empty afterwards.
Answer ==
  IF outgoing # NoReply THEN outgoing
  ELSE IF Busy THEN Plain("busy") ELSE Plain("retry")

\* Mutant: outgoing_ is not cleared.
ReplyInterruptKeeps ==
  UNCHANGED <<fsm, incoming, decoded, outgoing, sensors>>

ReplyInterrupt ==
  /\ outgoing' = NoReply
  /\ UNCHANGED <<fsm, incoming, decoded, sensors>>

\* The main loop is in a state that does not look at incoming_.
Away == fsm \notin {"ModuleIdle", "ModuleServicer"}

\* No query waits for the main loop, unless it is away.
Served == incoming = NoQuery \/ Away

-----------------------------------------------------------------------------
(* The main loop. *)

\* ModuleIdle::task with a message waiting.
Notice ==
  /\ fsm = "ModuleIdle"
  /\ incoming # NoQuery
  /\ fsm' = "ModuleServicer"
  /\ UNCHANGED <<incoming, decoded, outgoing, sensors>>

\* ModuleServicer::task, first half: incoming.read.
Decode ==
  /\ fsm = "ModuleServicer"
  /\ incoming # NoQuery
  /\ decoded = NoQuery
  /\ decoded' = incoming
  /\ UNCHANGED <<fsm, incoming, outgoing, sensors>>

(***************************************************************************)
(* Second half: incoming.clear, the orphaned reply dropped, handle, and    *)
(* ModuleIdle unless handle changed the state.  One step: an interrupt     *)
(* inside it finds the state busy and outgoing_ empty, as just before it.  *)
(***************************************************************************)
Handled(next) ==
  /\ fsm = "ModuleServicer"
  /\ incoming' = NoQuery
  /\ decoded' = NoQuery
  /\ fsm' = next

DropMalformed ==
  /\ decoded.type = "garbled"
  /\ Handled("ModuleIdle")
  /\ UNCHANGED <<outgoing, sensors>>

HandleBegin ==
  /\ decoded.type = "begin"
  /\ Handled("TakeSensorReadings")
  /\ sensors' = [i \in Sensors |-> [status |-> "Busy", gather |-> decoded.gather]]
  /\ outgoing' = Plain("begin")

Done(i) == sensors[i].status = "Done"

\* The first sensor that is done, the one the loop over the sensors stops at.
FirstDone(i) == Done(i) /\ \A j \in Sensors : Done(j) => i <= j

ReadingOf(i) == [kind |-> "done", sensor |-> i, gather |-> sensors[i].gather]

\* Mutant: the status of a reading that was handed out stays Done.
HandleStatusAgain ==
  /\ decoded.type = "status"
  /\ Handled("ModuleIdle")
  /\ \/ (\A i \in Sensors : ~Done(i)) /\ outgoing' = Plain("idle")
     \/ \E i \in Sensors : FirstDone(i) /\ outgoing' = ReadingOf(i)
  /\ UNCHANGED sensors

\* QUERY_READING_STATUS hands out one reading and forgets it.
HandleStatus ==
  /\ decoded.type = "status"
  /\ Handled("ModuleIdle")
  /\ \/ /\ \A i \in Sensors : ~Done(i)
        /\ outgoing' = Plain("idle")
        /\ UNCHANGED sensors
     \/ \E i \in Sensors :
        /\ FirstDone(i)
        /\ outgoing' = ReadingOf(i)
        /\ sensors' = [sensors EXCEPT ![i].status = "Idle"]

\* QUERY_CUSTOM, for a module that registers no message state.
HandleCustom ==
  /\ decoded.type = "custom"
  /\ Handled("ModuleIdle")
  /\ outgoing' = Plain("error")
  /\ UNCHANGED sensors

\* example::TakeSensorReadings::task.
TakeSensorReadings ==
  /\ fsm = "TakeSensorReadings"
  /\ sensors' = [i \in Sensors |-> [sensors[i] EXCEPT !.status = "Done"]]
  /\ fsm' = "ModuleIdle"
  /\ UNCHANGED <<incoming, decoded, outgoing>>

\* Booting::task ends with the child on the bus; then the module's own
\* configuration state runs and goes to ModuleIdle.
Boot ==
  /\ fsm = "Booting" /\ fsm' = "ConfigureModule"
  /\ UNCHANGED <<incoming, decoded, outgoing, sensors>>

Configured ==
  /\ fsm = "ConfigureModule" /\ fsm' = "ModuleIdle"
  /\ UNCHANGED <<incoming, decoded, outgoing, sensors>>

\* Power cycled, or reset by the watchdog: RAM is lost.
Restart(state) ==
  /\ fsm' = state
  /\ incoming' = NoQuery
  /\ decoded' = NoQuery
  /\ outgoing' = NoReply
  /\ sensors' \in UninitialisedSensors

Reset == "reset" \in Faults /\ Restart("Booting")

\* The steps of the board's own loop that it is fair to expect.
BoardLoop ==
  \/ Notice \/ Decode \/ DropMalformed
  \/ HandleBegin \/ HandleStatus \/ HandleCustom
  \/ Boot \/ Configured
=============================================================================
