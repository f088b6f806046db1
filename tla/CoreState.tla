------------------------------ MODULE CoreState ------------------------------
(***************************************************************************)
(* What the core knows of its modules and of its readings: CoreState, the  *)
(* pool its modules are in, and what of it survives a restart.             *)
(*                                                                         *)
(* The arrays of a module's readings are not initialised when they are     *)
(* allocated: they hold what the pool held there.  A pool that was never   *)
(* used holds zeros, of which none is a reading that is done.              *)
(*                                                                         *)
(* Left out: the identity, the networks and the location, which go where   *)
(* the reading number goes; names, times and values; the size of the pool. *)
(***************************************************************************)
EXTENDS Naturals, FiniteSets

CONSTANTS
  LastAddress,     \* the scan asks the addresses from 7 to this one
  NumSensors,      \* of a sensor module
  ReadingsToTake,  \* readingsToTake(), of a sensor module
  Scenarios        \* sets of acts, each what may go wrong or be asked of the core together

ASSUME CoreStateAssumption ==
  /\ LastAddress \in 7 .. 9
  /\ NumSensors \in Nat /\ ReadingsToTake \in Nat \ {0}

Addresses == 7 .. LastAddress
Sensors == 0 .. NumSensors - 1
Readings == Addresses \X Sensors    \* the readings, by module and sensor

VARIABLES
  acts,       \* what may happen in this behaviour
  number,     \* readingNumber_
  saved,      \* storage_->state(): whether it has a time, and its reading number
  flashed,    \* the same in flash
  highest,    \* history: the highest number of a reading in the data file
  listed,     \* the addresses of modules_
  described,  \* the sensors of which a module's entry has the name
  done,       \* the readings with the status Done
  dirty,      \* the pool was used before it was last cleared
  taken       \* history: the readings that were merged since then

numberVars == <<number, saved, flashed, highest>>
moduleVars == <<listed, described, done, dirty, taken>>
stateVars == <<acts, numberVars, moduleVars>>

Can(act) == act \in acts

Blank == [timed |-> FALSE, number |-> 0]

StateTypeOK ==
  /\ acts \in Scenarios
  /\ number \in Nat /\ highest \in Nat
  /\ saved \in [timed : BOOLEAN, number : Nat] /\ flashed \in [timed : BOOLEAN, number : Nat]
  /\ listed \subseteq Addresses /\ described \subseteq Readings
  /\ done \subseteq Readings /\ taken \subseteq Readings
  /\ dirty \in BOOLEAN

StateInit ==
  /\ number = 0 /\ highest = 0
  /\ saved = Blank /\ flashed = Blank
  /\ listed = {} /\ described = {} /\ done = {} /\ taken = {}
  /\ dirty = FALSE

-----------------------------------------------------------------------------
(* The pool *)

\* pool_.clear() and modules_ = nullptr; what was in the pool is still there.
ClearModules ==
  /\ listed' = {} /\ described' = {}
  /\ done' = {} /\ taken' = {}
  /\ dirty' = (dirty \/ listed # {})

\* getOrCreateModule, for an entry of n readings.
Create(a, n) ==
  LET readings == {a} \X (0 .. n - 1)
      left == IF dirty THEN SUBSET readings ELSE {{}}
  IN /\ listed' = listed \union {a}
     /\ IF a \in listed THEN UNCHANGED done
        ELSE \E garbage \in left : done' = done \union garbage
     /\ UNCHANGED <<described, dirty, taken>>

-----------------------------------------------------------------------------
(* The state in flash *)

\* Mutant of Write: the state is not saved.
WriteRam(state) == saved' = state /\ UNCHANGED flashed

\* storage_->save() puts the state of the RAM into flash, if it can.
Write(state) ==
  /\ saved' = state
  /\ flashed' \in {state} \union (IF Can("flash") THEN {flashed} ELSE {})

Save == Write([timed |-> TRUE, number |-> number])

\* FlashState::erase.
FormatState == saved' = Blank /\ flashed' = Blank

\* The number that started() goes on from, and the state it leaves in the RAM: a state
\* that was never saved takes what the RAM has.
StartedNumber(now, state) == IF state.timed THEN state.number ELSE now

StartedState(now, state) == IF state.timed THEN state ELSE [state EXCEPT !.number = now]

\* started().
Started ==
  /\ number' = StartedNumber(number, saved)
  /\ saved' = StartedState(number, saved)
  /\ ClearModules

-----------------------------------------------------------------------------
(* Readings *)

\* takingReadings().
TakingReadings == number' = number + 1

\* Mutant of MergeReading: the reading goes to the sensor after it.
MergeReadingNext(a, s) ==
  /\ done' = done \union {<<a, s + 1>>} /\ taken' = taken \union {<<a, s>>}
  /\ highest' = (IF number > highest THEN number ELSE highest)
  /\ UNCHANGED <<number, saved, flashed, listed, described, dirty>>

\* merge of a reading, which is appended to the data file.
MergeReading(a, s) ==
  /\ done' = done \union {<<a, s>>} /\ taken' = taken \union {<<a, s>>}
  /\ highest' = (IF number > highest THEN number ELSE highest)
  /\ UNCHANGED <<number, saved, flashed, listed, described, dirty>>

\* clearReadings(), after they were reported to the app.
ClearReadings ==
  /\ done' = {}
  /\ UNCHANGED <<listed, described, dirty, taken>>

\* The RAM is lost: its pool holds zeros again.
LoseState ==
  /\ number' = 0 /\ saved' = flashed
  /\ listed' = {} /\ described' = {} /\ done' = {} /\ taken' = {}
  /\ dirty' = FALSE
  /\ UNCHANGED <<flashed, highest>>
=============================================================================
