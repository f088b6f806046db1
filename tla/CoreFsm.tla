------------------------------ MODULE CoreFsm ------------------------------
(***************************************************************************)
(* The core's state machine: the pointers of tinyfsm::Fsm<CoreDevice>, the *)
(* states' tasks, and the events that MainServices::alive and the          *)
(* scheduler dispatch while a task runs.                                   *)
(*                                                                         *)
(* CoreModule::run calls the current state's task again and again.  An     *)
(* event goes to the state that is current when it is dispatched and may   *)
(* change it at once, in the middle of the running state's task, which     *)
(* goes on and may change it once more: back() and resume() then work from *)
(* the pointers the event left behind.  A task without a loop of its own   *)
(* is one step; one that waits in a loop takes a step per turn (Turn) and  *)
(* one to end.                                                             *)
(*                                                                         *)
(* Left out: FK_NATURALIST builds; TransmitLoraData, whose cron spec is    *)
(* empty; CheckPower's branches for a battery that is attached, which      *)
(* Power::task never reports, and for a second visit, which no transition  *)
(* makes; states no transition enters (CopyModuleData).                    *)
(***************************************************************************)
EXTENDS Naturals, FiniteSets

CONSTANTS
  EventSets,    \* sets of outside events that may come together, see EventKinds
  Networks,     \* MaximumRememberedNetworks
  Modules       \* CoreState::numberOfModules

EventKinds ==
  { "minor", "short", "long",  \* the button is released
    "low",                     \* LowPowerEvent
    "console",                 \* a serial console opens
    "live",                    \* an app polls live data
    "hardware" }               \* an assertion of StartSystem fails

ASSUME CoreAssumption ==
  EventSets \subseteq SUBSET EventKinds /\ Networks \in Nat /\ Modules \in Nat

VARIABLES
  events,     \* the outside events of this behaviour
  core,       \* the three pointers, and Hardware::modules_on_at_ > 0
  running,    \* the state whose task() runs
  hands,      \* a hand may still press the button
  console,    \* fk_console_attached()
  wifi,       \* ~Wifi::disabled()
  live,       \* LiveDataManager::interval_ > 0
  sensors,    \* CoreState::hasSensorModules()
  first,      \* ScanAttachedDevices::first_
  startup,    \* WifiStartup::config_.listening
  listening,  \* WifiServices::config.listening
  index       \* index_ of WifiTryNetwork, CheckAllAttachedFirmware, WifiTransmitFiles

vars ==
  <<events, core, running, hands, console, wifi, live, sensors, first, startup, listening, index>>

\* Where the core waits for its schedule, and SchedulerEvent is reacted to.
ScheduleStates == {"Idle", "NoModules", "WifiListening"}

StartStates ==
  {"Booting", "FactoryResetCheck", "FactoryReset", "StartSystem", "ConfigureDevice",
   "Initialized", "CheckPower", "FirmwareHealthCheck", "ScanAttachedDevices"}

\* The states that need the Wifi radio.
RadioStates ==
  {"WifiTryNetwork", "WifiCreateAp", "CheckAllAttachedFirmware", "CheckFirmware",
   "WifiTransmitFiles", "WifiTransmitFile", "WifiListening", "WifiCaptiveListening",
   "AppServicer", "WifiDownloadFile", "WifiQueryModule", "WifiConnectionCompleted",
   "LiveDataReading"}

States ==
  ScheduleStates \union StartStates \union RadioStates \union
  {"Sleep", "LowPowerSleep", "BeginGatherReadings", "TakeGpsReading", "TakeReadings",
   "UserWakeup", "TurnOff", "RebootDevice", "WifiStartup", "WifiDisable",
   "FirmwareSelfFlash", "UpgradeModuleFirmware"}

Pointer == States \union {"null"}

Indexed == {"WifiTryNetwork", "CheckAllAttachedFirmware", "WifiTransmitFiles"}
Transmissions == 2

TypeOK ==
  /\ events \in EventSets
  /\ core \in [current : Pointer, previous : Pointer, resume : Pointer, modules : BOOLEAN]
  /\ running \in Pointer
  /\ hands \in BOOLEAN /\ console \in BOOLEAN
  /\ wifi \in BOOLEAN /\ live \in BOOLEAN /\ sensors \in BOOLEAN
  /\ first \in BOOLEAN /\ startup \in BOOLEAN /\ listening \in BOOLEAN
  /\ index.WifiTryNetwork \in 0 .. Networks
  /\ index.CheckAllAttachedFirmware \in 0 .. Modules + 2
  /\ index.WifiTransmitFiles \in 0 .. Transmissions
  /\ DOMAIN index = Indexed

Booted == [current |-> "Booting", previous |-> "null", resume |-> "null", modules |-> FALSE]

Init ==
  /\ events \in EventSets
  /\ core = Booted /\ running = "Booting"
  /\ hands = TRUE
  /\ console = FALSE /\ wifi = FALSE /\ live = FALSE /\ sensors = FALSE
  /\ first = TRUE /\ startup = FALSE /\ listening = FALSE
  /\ index = [s \in Indexed |-> 0]

-----------------------------------------------------------------------------
(* tinyfsm.  LowPowerSleep's entry switches the modules off; what the      *)
(* other entries do is left out.                                           *)

Transit(m, s) ==
  [m EXCEPT !.previous = m.current,
            !.current = s,
            !.modules = @ /\ s # "LowPowerSleep"]

Back(m) == Transit(m, m.previous)

Resume(m) == [Transit(m, m.resume) EXCEPT !.resume = "null"]

ResumeAtBack(m) == [m EXCEPT !.resume = m.previous]

-----------------------------------------------------------------------------
(* Events *)

OnRelease(m, press) ==
  IF m.current = "TurnOff" THEN Transit(m, "RebootDevice")
  ELSE IF press = "minor" THEN m
  ELSE IF m.current = "FactoryResetCheck"
  THEN IF press = "short" THEN m ELSE Transit(m, "FactoryReset")
  ELSE Transit(m, IF press = "short" THEN "UserWakeup" ELSE "TurnOff")

OnLowPower(m) ==
  IF m.current \in {"Idle", "NoModules"} /\ ~console THEN Transit(m, "LowPowerSleep") ELSE m

OnSchedule(m, task) == IF m.current \in ScheduleStates THEN Transit(m, task) ELSE m

\* UserButton::task sends at most one event.
Button(m) ==
  {m} \union (IF hands THEN {OnRelease(m, e) : e \in events \intersect {"minor", "short", "long"}}
              ELSE {})

\* MainServices::alive asks the battery before the button.
Alive(m) ==
  Button(m) \union (IF "low" \in events THEN Button(OnLowPower(m)) ELSE {})

\* MainServices::scheduledTasks.  When both tasks are due only the first to
\* run is heard: the states they lead to ignore SchedulerEvent.
ScheduledTasks(m) ==
  {m} \union {OnSchedule(m, t) : t \in {"BeginGatherReadings", "WifiStartup"}}

-----------------------------------------------------------------------------
(* Steps of a task *)

In(s) == running = s

\* The task returns with the pointers as in m.
Return(m) == core' = m /\ running' = m.current

Leave(s) == Return(Transit(core, s))

\* One turn of a loop that calls alive().
Turn == core' \in Alive(core) /\ UNCHANGED running

\* What the states below leave alone unless they say otherwise.
outside == <<events, hands, console>>
flags == <<wifi, live, sensors, first, startup, listening, index>>

Simple(s, next) ==
  /\ In(s)
  /\ Leave(next)
  /\ UNCHANGED <<outside, flags>>

Starting(s, i) == index' = [index EXCEPT ![s] = i]

-----------------------------------------------------------------------------
(* Start *)

Restart ==
  /\ Return(Booted)
  /\ console' = FALSE /\ wifi' = FALSE /\ live' = FALSE /\ sensors' = FALSE
  /\ first' = TRUE /\ startup' = FALSE /\ listening' = FALSE
  /\ index' = [s \in Indexed |-> 0]
  /\ UNCHANGED <<events, hands>>

Booting == Simple("Booting", "FactoryResetCheck")

\* Waits for a button held at power-on to be let go.
FactoryResetCheck ==
  /\ In("FactoryResetCheck")
  /\ (\E m \in Alive(core) : Return(m)) \/ Leave("StartSystem")
  /\ UNCHANGED <<outside, flags>>

FactoryReset == Simple("FactoryReset", "StartSystem")

\* ConfigureDevice does its work in entry(), and transits from there.
StartSystem ==
  /\ In("StartSystem")
  /\ LET configured == Transit(Transit(core, "ConfigureDevice"), "Initialized")
     IN  Return([configured EXCEPT !.modules = TRUE])
  /\ UNCHANGED <<outside, flags>>

StartSystemFails == In("StartSystem") /\ "hardware" \in events /\ Restart

Initialized == Simple("Initialized", "CheckPower")

CheckPower ==
  /\ In("CheckPower")
  /\ \E m \in Alive(core) : Return(Transit(m, "FirmwareHealthCheck"))
  /\ UNCHANGED <<outside, flags>>

FirmwareHealthCheck ==
  /\ In("FirmwareHealthCheck")
  /\ Leave("ScanAttachedDevices")
  /\ first' = TRUE
  /\ UNCHANGED <<outside, wifi, live, sensors, startup, listening, index>>

ScanAttachedDevicesTurn ==
  /\ In("ScanAttachedDevices")
  /\ Turn
  /\ UNCHANGED <<outside, flags>>

\* Hardware::modulesReady() needs the modules to have been switched on.
ScanAttachedDevices ==
  /\ In("ScanAttachedDevices")
  /\ core.modules
  /\ first' = FALSE
  /\ sensors' \in BOOLEAN
  /\ IF first
     THEN Leave("WifiStartup") /\ startup' = TRUE
     ELSE /\ IF sensors' THEN Leave("Idle") ELSE Leave("NoModules")
          /\ UNCHANGED startup
  /\ UNCHANGED <<outside, wifi, live, listening, index>>

-----------------------------------------------------------------------------
(* Idle states *)

\* Neither event is looked at again when the schedule is not due to be checked.
Idle ==
  /\ In("Idle")
  /\ \E a \in Alive(core) :
       \/ Return(a)
       \/ Return(Transit(a, "RebootDevice"))      \* Files::errors()
       \/ \E s \in ScheduledTasks(a) :
            Return(IF s.current = "Idle" THEN Transit(s, "Sleep") ELSE s)
  /\ UNCHANGED <<outside, flags>>

SleepTurn ==
  /\ In("Sleep")
  /\ \E m \in Alive(core) : Return(m)
  /\ UNCHANGED <<outside, flags>>

SleepEnds ==
  /\ In("Sleep")
  /\ Return(Back(core))
  /\ UNCHANGED <<outside, flags>>

\* LowPowerSleep::task does not ask whether sleep() ended with a transition.
LowPowerSleep ==
  /\ In("LowPowerSleep")
  /\ \/ Leave("RebootDevice")
     \/ Return(Transit(Back(core), "LowPowerSleep"))
     \/ \E m \in Alive(core) : m.current # running /\ Return(Transit(m, "LowPowerSleep"))
  /\ UNCHANGED <<outside, flags>>

NoModules ==
  /\ In("NoModules")
  /\ \E a \in Alive(core) : \E s \in ScheduledTasks(a) :
       Return(s) \/ Return(Transit(s, "ScanAttachedDevices")) \/ Return(Transit(s, "RebootDevice"))
  /\ UNCHANGED <<outside, flags>>

UserWakeup ==
  /\ In("UserWakeup")
  /\ Leave("WifiStartup")
  /\ startup' = TRUE
  /\ UNCHANGED <<outside, wifi, live, sensors, first, listening, index>>

\* Only the button is asked.
TurnOff ==
  /\ In("TurnOff")
  /\ \E m \in Button(core) : Return(m)
  /\ wifi' = FALSE
  /\ UNCHANGED <<outside, live, sensors, first, startup, listening, index>>

RebootDevice ==
  /\ In("RebootDevice")
  /\ IF console THEN Leave("Initialized") /\ UNCHANGED <<outside, flags>> ELSE Restart

-----------------------------------------------------------------------------
(* Readings *)

\* Mutant: the state to resume is not remembered.
BeginGatherReadingsForgets ==
  /\ In("BeginGatherReadings")
  /\ Leave("TakeGpsReading")
  /\ UNCHANGED <<outside, flags>>

BeginGatherReadings ==
  /\ In("BeginGatherReadings")
  /\ Return(Transit(ResumeAtBack(core), "TakeGpsReading"))
  /\ UNCHANGED <<outside, flags>>

TakeGpsReading == Simple("TakeGpsReading", "TakeReadings")

TakeReadingsTurn ==
  /\ In("TakeReadings") /\ sensors
  /\ Turn
  /\ UNCHANGED <<outside, flags>>

TakeReadingsEnds ==
  /\ In("TakeReadings")
  /\ Return(Resume(core)) \/ (sensors /\ Leave("RebootDevice"))
  /\ UNCHANGED <<outside, flags>>

LiveDataReadingTurn ==
  /\ In("LiveDataReading")
  /\ Turn
  /\ UNCHANGED <<outside, flags>>

LiveDataReadingEnds ==
  /\ In("LiveDataReading")
  /\ Return(Back(core))
  /\ UNCHANGED <<outside, flags>>

-----------------------------------------------------------------------------
(* Wifi *)

WifiStartup ==
  /\ In("WifiStartup")
  /\ listening' = startup /\ startup' = FALSE
  /\ IF wifi
     THEN \/ Leave("WifiTransmitFiles") /\ UNCHANGED <<wifi, index>>
          \/ Leave("WifiListening") /\ UNCHANGED <<wifi, index>>
     ELSE \/ Leave("WifiDisable") /\ UNCHANGED <<wifi, index>>
          \/ Leave("WifiTryNetwork") /\ Starting("WifiTryNetwork", 0) /\ wifi' = TRUE
  /\ UNCHANGED <<outside, live, sensors, first>>

\* Mutant: index_ > MaximumRememberedNetworks.
WifiTryNetworkPastEnd ==
  /\ In("WifiTryNetwork")
  /\ LET i == index["WifiTryNetwork"]
     IN  \/ i > Networks /\ Leave("WifiCreateAp") /\ UNCHANGED index
         \/ i <= Networks /\ Leave("WifiTryNetwork") /\ Starting("WifiTryNetwork", i + 1)
  /\ UNCHANGED <<outside, wifi, live, sensors, first, startup, listening>>

WifiTryNetwork ==
  /\ In("WifiTryNetwork")
  /\ LET i == index["WifiTryNetwork"]
     IN  \/ i >= Networks /\ Leave("WifiCreateAp") /\ UNCHANGED index
         \/ i < Networks /\ ~listening /\ Leave("WifiDisable") /\ UNCHANGED index
         \/ i < Networks /\ Leave("WifiTryNetwork") /\ Starting("WifiTryNetwork", i + 1)
         \/ i < Networks /\ Leave("CheckAllAttachedFirmware")
              /\ Starting("CheckAllAttachedFirmware", 0)
  /\ UNCHANGED <<outside, wifi, live, sensors, first, startup, listening>>

WifiCreateAp ==
  /\ In("WifiCreateAp")
  /\ Leave("WifiDisable") \/ Leave("WifiListening")
  /\ UNCHANGED <<outside, flags>>

CheckAllAttachedFirmware ==
  /\ In("CheckAllAttachedFirmware")
  /\ LET i == index["CheckAllAttachedFirmware"]
     IN  IF i <= Modules
         THEN Leave("CheckFirmware") /\ Starting("CheckAllAttachedFirmware", i + 1)
         ELSE Leave("WifiTransmitFiles") /\ UNCHANGED index
  /\ UNCHANGED <<outside, wifi, live, sensors, first, startup, listening>>

CheckFirmwareTurn ==
  /\ In("CheckFirmware")
  /\ Turn
  /\ UNCHANGED <<outside, flags>>

\* A download that verify() refuses leaves the state as it is, to check again.
CheckFirmwareEnds ==
  /\ In("CheckFirmware")
  /\ \/ Return(core)
     \/ Return(Back(core))
     \/ Leave(IF index["CheckAllAttachedFirmware"] > Modules
              THEN "FirmwareSelfFlash" ELSE "UpgradeModuleFirmware")
  /\ UNCHANGED <<outside, flags>>

FirmwareSelfFlashTurn ==
  /\ In("FirmwareSelfFlash")
  /\ Turn
  /\ UNCHANGED <<outside, flags>>

FirmwareSelfFlash == In("FirmwareSelfFlash") /\ Restart

UpgradeModuleFirmware == Simple("UpgradeModuleFirmware", "Idle")

\* Mutant: index_ is not advanced.
WifiTransmitFilesAgain ==
  /\ In("WifiTransmitFiles")
  /\ LET i == index["WifiTransmitFiles"]
     IN  IF i = Transmissions
         THEN /\ IF listening THEN Leave("WifiListening") ELSE Leave("WifiDisable")
              /\ Starting("WifiTransmitFiles", 0)
         ELSE Leave("WifiTransmitFile") /\ Starting("WifiTransmitFiles", i)
  /\ UNCHANGED <<outside, wifi, live, sensors, first, startup, listening>>

WifiTransmitFiles ==
  /\ In("WifiTransmitFiles")
  /\ LET i == index["WifiTransmitFiles"]
     IN  IF i = Transmissions
         THEN /\ IF listening THEN Leave("WifiListening") ELSE Leave("WifiDisable")
              /\ Starting("WifiTransmitFiles", 0)
         ELSE Leave("WifiTransmitFile") /\ Starting("WifiTransmitFiles", i + 1)
  /\ UNCHANGED <<outside, wifi, live, sensors, first, startup, listening>>

WifiTransmitFile ==
  /\ In("WifiTransmitFile")
  /\ Return(Back(core))
  /\ UNCHANGED <<outside, flags>>

\* LiveDataManager::is_ready_for_reading stops live data when nobody polls.
Serve ==
  /\ \/ Leave("AppServicer") /\ UNCHANGED live
     \/ \E a \in Alive(core) : \E s \in ScheduledTasks(a) :
          \/ Return(s) /\ live' \in {live, FALSE}
          \/ live /\ Return(Transit(s, "LiveDataReading")) /\ UNCHANGED live
  /\ UNCHANGED <<outside, wifi, sensors, first, startup, listening, index>>

WifiListening == In("WifiListening") /\ Serve

\* inactivity_time
WifiListeningEnds == Simple("WifiListening", "WifiDisable")

WifiCaptiveListening == In("WifiCaptiveListening") /\ Serve

\* captivity_time
WifiCaptiveListeningEnds == Simple("WifiCaptiveListening", "WifiListening")

AppServicer ==
  /\ In("AppServicer")
  /\ \/ Leave("WifiConnectionCompleted")
          /\ live' \in {live} \union (IF "live" \in events THEN BOOLEAN ELSE {})
     \/ Leave("WifiDownloadFile") /\ UNCHANGED live
     \/ Leave("WifiQueryModule") /\ UNCHANGED live
  /\ UNCHANGED <<outside, wifi, sensors, first, startup, listening, index>>

WifiDownloadFile == Simple("WifiDownloadFile", "WifiConnectionCompleted")
WifiQueryModule == Simple("WifiQueryModule", "WifiConnectionCompleted")
WifiConnectionCompleted == Simple("WifiConnectionCompleted", "WifiCaptiveListening")

\* Mutant: leaves by back().
WifiDisableBack ==
  /\ In("WifiDisable")
  /\ wifi' = FALSE
  /\ Return(Back(core))
  /\ UNCHANGED <<outside, live, sensors, first, startup, listening, index>>

WifiDisable ==
  /\ In("WifiDisable")
  /\ wifi' = FALSE
  /\ IF sensors THEN Leave("Idle") ELSE Leave("NoModules")
  /\ UNCHANGED <<outside, live, sensors, first, startup, listening, index>>

-----------------------------------------------------------------------------
\* Nothing is executed at a null state; the watchdog resets the core.
NullState == In("null") /\ Restart

ConsoleAttaches ==
  /\ "console" \in events
  /\ console' = TRUE
  /\ UNCHANGED <<events, core, running, hands, flags>>

HandsOff ==
  /\ hands' = FALSE
  /\ UNCHANGED <<events, core, running, console, flags>>

Start ==
  \/ Booting \/ FactoryResetCheck \/ FactoryReset \/ StartSystem \/ Initialized
  \/ CheckPower \/ FirmwareHealthCheck \/ ScanAttachedDevices
  \/ RebootDevice \/ FirmwareSelfFlash \/ NullState

Rest ==
  \/ Idle \/ SleepEnds \/ LowPowerSleep \/ NoModules \/ UserWakeup \/ TurnOff

Readings ==
  \/ BeginGatherReadings \/ TakeGpsReading \/ TakeReadingsEnds \/ LiveDataReadingEnds

WifiTask ==
  \/ WifiStartup \/ WifiTryNetwork \/ WifiCreateAp \/ WifiDisable
  \/ CheckAllAttachedFirmware \/ CheckFirmwareEnds \/ UpgradeModuleFirmware
  \/ WifiTransmitFiles \/ WifiTransmitFile
  \/ AppServicer \/ WifiDownloadFile \/ WifiQueryModule \/ WifiConnectionCompleted
  \/ WifiListeningEnds \/ WifiCaptiveListeningEnds

Waits ==
  \/ ScanAttachedDevicesTurn \/ SleepTurn \/ TakeReadingsTurn \/ LiveDataReadingTurn \/ CheckFirmwareTurn
  \/ FirmwareSelfFlashTurn \/ WifiListening \/ WifiCaptiveListening

Next ==
  \/ Start \/ StartSystemFails \/ Rest \/ Readings \/ WifiTask \/ Waits
  \/ ConsoleAttaches \/ HandsOff

Spec == Init /\ [][Next]_vars

(***************************************************************************)
(* Every task comes to its end (for the loops of TakeReadings and          *)
(* LiveDataReading this is what GatherReadings shows), a download that     *)
(* verify() refuses is not served for ever, and the hand leaves the        *)
(* button.  No event and no turn of a loop is bound to happen.             *)
(***************************************************************************)
Fairness ==
  /\ WF_vars(Start) /\ WF_vars(Rest) /\ WF_vars(Readings) /\ WF_vars(WifiTask)
  /\ WF_vars(HandsOff)

FairSpec == Spec /\ Fairness

-----------------------------------------------------------------------------
(* Properties *)

(***************************************************************************)
(* Without live data, TakeReadings resumes one of the states that the      *)
(* schedule interrupts, whatever the button and the battery do before and  *)
(* while it runs.  BeginGatherReadings takes the state to resume from      *)
(* previous_state_ptr, which every transition of an event overwrites.      *)
(***************************************************************************)
ResumesWhereScheduled ==
  "live" \notin events /\ running \in {"TakeGpsReading", "TakeReadings"}
    => core.resume \in ScheduleStates

(***************************************************************************)
(* A state that uses the Wifi radio runs only while it is enabled, though  *)
(* WifiDisable and TurnOff switch it off in their tasks and back() and     *)
(* resume() may return to any state that was left before.                  *)
(***************************************************************************)
RadioOnWhenUsed == running \in RadioStates => wifi

(***************************************************************************)
(* The core keeps coming back to a state where its schedule is heard,      *)
(* unless an app keeps it busy, it is off or it is replaced: no wait, no   *)
(* transition of the button inside a task and no order of back() and       *)
(* resume() wedges it.  Not with a battery that is low, since the scan     *)
(* waits for modules that LowPowerSleep switched off, nor with a start     *)
(* that may fail each time.                                                *)
(***************************************************************************)
KeepsReturning ==
  events \intersect {"low", "hardware"} = {} =>
  []<>(running \in ScheduleStates \union
         {"AppServicer", "LiveDataReading", "TurnOff", "FirmwareSelfFlash"})

\* assert(current_state_ptr != nullptr), tinyfsm.hpp:73, holds each time
\* CoreModule::run asks for the current state.
CurrentNotNull == core.current # "null"
=============================================================================
