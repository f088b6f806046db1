---------------------------- MODULE ModuleComms ----------------------------
(***************************************************************************)
(* The core's end of the module bus: ModuleCommunications with the         *)
(* TwoWireTask of the transaction in progress, and ModuleProtocolHandler,  *)
(* which the tasks that talk to a module put their queries through.  Every *)
(* client talks to the module at address 8.                                *)
(*                                                                         *)
(* A query is prepared, sent (ReceiveInterrupt at the board), and after    *)
(* reply_delay its reply is asked for (ReplyInterrupt at the board).  BUSY *)
(* makes the core ask again without sending; RETRY makes it send again.    *)
(* Clocks are left out: a step that waits for a delay is enabled from the  *)
(* start, and one that needs the core's loop to stall has "stall" in its   *)
(* guard.                                                                  *)
(***************************************************************************)
EXTENDS ModuleBoard

VARIABLES
  address,    \* ModuleCommunications::address, 0 when idle
  query,      \* *ModuleCommunications::pending
  hasQuery, hasReply, reply,
  wire,       \* where twoWireTask is
  received,   \* what twoWireTask wrote to the incoming ring
  responded,  \* TwoWireStatistics::any_responses of the client's statistics
  early,      \* history: a query of this reading got RETRY while it still waited
  active,     \* ModuleProtocolHandler::active, "none" when empty
  pending     \* ModuleProtocolHandler::pending, "none" when empty

commVars == <<address, query, hasQuery, hasReply, reply, wire, received, responded, early>>
handlerVars == <<active, pending>>

ModuleAddress == 8

\* send: the query is in the outgoing ring; wait: sent, reply_delay runs;
\* late: the same, but the board was away in a state of its own when the query
\* came; eos: the reply is in, the ring's end of stream not yet read; poll:
\* told BUSY, to ask again after busy_delay without sending.
WireStates == {"idle", "send", "wait", "late", "eos", "poll"}

CommTypeOK ==
  /\ address \in {0, ModuleAddress}
  /\ query \in Query
  /\ hasQuery \in BOOLEAN /\ hasReply \in BOOLEAN /\ responded \in BOOLEAN
  /\ early \in BOOLEAN
  /\ reply \in Reply /\ received \in Reply
  /\ wire \in WireStates
  /\ active \in QueryTypes \union {"none"}
  /\ pending \in QueryTypes \union {"none"}

CommReset ==
  /\ address' = 0
  /\ query' = NoQuery
  /\ hasQuery' = FALSE /\ hasReply' = FALSE
  /\ reply' = NoReply /\ received' = NoReply
  /\ wire' = "idle"
  /\ responded' = FALSE
  /\ UNCHANGED early

CommInit ==
  /\ address = 0
  /\ query = NoQuery
  /\ hasQuery = FALSE /\ hasReply = FALSE
  /\ reply = NoReply /\ received = NoReply
  /\ wire = "idle"
  /\ responded = FALSE
  /\ early = FALSE
  /\ active = "none" /\ pending = "none"

-----------------------------------------------------------------------------
(* ModuleCommunications::task.  With address = 0 it does nothing. *)

TransactionOpen == address # 0 /\ ~hasQuery

\* address = 0: the client finds the transaction over, with or without a reply.
Close == address' = 0 /\ wire' = "idle"

CloseWithoutReply ==
  /\ Close
  /\ UNCHANGED <<query, hasQuery, hasReply, reply, received, responded, early>>

Prepare ==
  /\ address # 0 /\ hasQuery
  /\ hasQuery' = FALSE /\ hasReply' = FALSE
  /\ received' = NoReply
  /\ wire' = "send"
  /\ UNCHANGED <<address, query, reply, responded, early>>
  /\ UNCHANGED boardVars

Send ==
  /\ TransactionOpen /\ wire = "send"
  /\ Listening
  /\ ReceiveInterrupt(query)
  /\ wire' = IF Away THEN "late" ELSE "wait"
  /\ UNCHANGED <<address, query, hasQuery, hasReply, reply, received, responded, early>>

\* endTransmission fails: nobody there, or the message cut short on the wire.
SendFails ==
  /\ TransactionOpen /\ wire = "send"
  /\ \/ ~Listening /\ UNCHANGED boardVars
     \/ Listening /\ "bus" \in Faults /\ ReceiveInterrupt(GarbledQuery)
  /\ CloseWithoutReply

\* Mutant: falls through to address = 0 after a RETRY.
CompleteRetryCloses(r) ==
  /\ received' = r
  /\ responded' = TRUE
  /\ CASE r.kind = "busy" ->
            /\ wire' = "poll"
            /\ UNCHANGED <<address, query, hasQuery, hasReply, reply>>
       [] r.kind = "retry" ->
            /\ Close
            /\ hasQuery' = TRUE /\ hasReply' = FALSE
            /\ UNCHANGED <<query, reply>>
       [] r.kind = "garbled" ->
            /\ Close
            /\ UNCHANGED <<query, hasQuery, hasReply, reply>>
       [] OTHER ->
            /\ Close
            /\ hasReply' = TRUE /\ reply' = r
            /\ UNCHANGED <<query, hasQuery>>

\* Decoding the reply of a completed task.
Complete(r) ==
  /\ received' = r
  /\ responded' = TRUE
  /\ CASE r.kind = "busy" ->
            /\ wire' = "poll"
            /\ UNCHANGED <<address, query, hasQuery, hasReply, reply>>
       [] r.kind = "retry" ->
            /\ hasQuery' = TRUE /\ hasReply' = FALSE
            /\ UNCHANGED <<address, query, reply, wire>>
       [] r.kind = "garbled" ->
            /\ Close
            /\ UNCHANGED <<query, hasQuery, hasReply, reply>>
       [] OTHER ->
            /\ Close
            /\ hasReply' = TRUE /\ reply' = r
            /\ UNCHANGED <<query, hasQuery>>

\* What reaches the core when the board answers.
Arrives == {Answer} \union (IF "corrupt" \in Faults THEN {Plain("garbled")} ELSE {})

\* It would be answered, but the board has not looked yet.
AsksTooEarly == Answer = Plain("retry") /\ incoming.type \in QueryTypes

(***************************************************************************)
(* The core asks when its delay is over, whatever the board does.  A board *)
(* that was not away when the query came has served it by reply_delay,     *)
(* unless it lags; of one that was, nothing is known, and of one that said *)
(* BUSY neither: it may just have come back to ModuleIdle.                 *)
(***************************************************************************)
Asks(states) ==
  /\ TransactionOpen /\ wire \in states
  /\ Listening
  /\ wire = "wait" => Served \/ "lag" \in Faults
  /\ ReplyInterrupt
  /\ early' = (early \/ AsksTooEarly)

Receive ==
  /\ Asks({"wait", "late"})
  /\ received' \in Arrives
  /\ wire' = "eos"
  /\ UNCHANGED <<address, query, hasQuery, hasReply, reply, responded>>

EndOfStream ==
  /\ TransactionOpen /\ wire = "eos"
  /\ Complete(received)
  /\ UNCHANGED early
  /\ UNCHANGED boardVars

\* The task made for a BUSY reply has no outgoing stream: it is done at once.
Poll == Asks({"poll"}) /\ \E r \in Arrives : Complete(r)

\* No bytes, or the loop came back after dieAt: missed.
Missed ==
  /\ TransactionOpen /\ wire \in {"wait", "late", "poll"}
  /\ ~Listening \/ Faults \intersect {"bus", "stall"} # {}
  /\ CloseWithoutReply
  /\ UNCHANGED boardVars

\* Mutant: transaction_timeout is not looked at.
TimeoutIgnored ==
  /\ TransactionOpen
  /\ FALSE
  /\ CloseWithoutReply
  /\ UNCHANGED boardVars

\* transaction_timeout.  Without a stall only polling takes that long.
Timeout ==
  /\ TransactionOpen
  /\ "stall" \in Faults \/ ("slow" \in Faults /\ wire = "poll")
  /\ CloseWithoutReply
  /\ UNCHANGED boardVars

\* The steps that need no fault and no deadline.
CommProgress == Prepare \/ Send \/ Receive \/ EndOfStream \/ Poll

CommTask == CommProgress \/ SendFails \/ Missed \/ Timeout

-----------------------------------------------------------------------------
(* ModuleProtocolHandler *)

Push(type) == active' = "none" /\ pending' = type

HandlerBusy == active # "none" \/ pending # "none"

(***************************************************************************)
(* ModuleProtocolHandler::handle: a waiting query is enqueued if the link  *)
(* is idle; then the active query is finished if a reply is there, or if   *)
(* the link is idle again without one.                                     *)
(***************************************************************************)
Starts == address = 0 /\ pending # "none"
Current == IF Starts THEN pending ELSE active
FinishesWithReply == Current # "none" /\ hasReply
FinishesWithoutNever == FALSE   \* Mutant: waits for a reply only
FinishesWithout == ~Starts /\ active # "none" /\ ~hasReply /\ address = 0

Enqueue(gather) ==
  IF Starts
  THEN /\ address' = ModuleAddress
       /\ query' = [type |-> pending, gather |-> gather]
       /\ hasQuery' = TRUE
  ELSE UNCHANGED <<address, query, hasQuery>>

HandlerEnqueues(gather) ==
  /\ Starts /\ ~hasReply
  /\ Enqueue(gather)
  /\ active' = pending /\ pending' = "none"
  /\ UNCHANGED <<hasReply, reply, wire, received, responded, early>>

\* Mutant: dequeue does not take the reply.
HandlerFinishesKeepingReply(gather) ==
  /\ FinishesWithReply \/ FinishesWithout
  /\ Enqueue(gather)
  /\ UNCHANGED <<hasReply, reply, wire, received, responded, early>>

\* Leaves active and pending to the client, which may push again.
HandlerFinishes(gather) ==
  /\ FinishesWithReply \/ FinishesWithout
  /\ Enqueue(gather)
  /\ hasReply' = FALSE
  /\ UNCHANGED <<reply, wire, received, responded, early>>
=============================================================================
