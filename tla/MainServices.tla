---------------------------- MODULE MainServices ----------------------------
(***************************************************************************)
(* The states of the core that use its modules, and what alive() runs in   *)
(* them: the scan that finds the modules, the readings that are taken of   *)
(* them, the app that asks for both, the button and the LED.               *)
(*                                                                         *)
(* CoreFsm has the states and every way between them; here they are as     *)
(* many as this state needs.  What the button's events start is left to    *)
(* CoreFsm as well.                                                        *)
(***************************************************************************)
EXTENDS AttachedDevices, UserButton

CONSTANTS
  MaxNumber     \* the reading number from which no other schedule starts

Acts ==
  { "button",   \* the button is pressed
    "alive",    \* the watchdog's early warning comes up
    "quiet",    \* the button is not pressed for so long that the LED is disabled
    "comms",    \* there is a communications module
    "noise",    \* a module does not answer
    "restart",  \* power fails, an assertion or the watchdog resets
    "giveup",   \* WifiQueryModule gives up and keeps twoWire1
    "fix",      \* the GPS has a fix every now and then
    "gpsoff",   \* the GPS has been disabled
    "flash",    \* a write to flash fails
    "live",     \* the app polls live data
    "format",   \* the app or the button has the files erased
    "erase" }   \* not all of them are

ASSUME MainAssumption == Scenarios \subseteq SUBSET Acts /\ MaxNumber \in Nat

VARIABLES
  mode,       \* the core's state
  back,       \* where the readings resume
  left,       \* TakeReadings: remaining_
  gathering,  \* a GatherReadings has the bus
  scanned     \* ScanAttachedDevices has been run: its first_ is FALSE

fsmVars == <<mode, back, left, gathering, scanned>>
vars == <<stateVars, attached, scanVars, ledVars, buttonVars, fsmVars>>

Modes == {"start", "ready", "scan", "wifi", "idle", "nomodules", "readings", "live"}
Scheduled == {"wifi", "idle", "nomodules"}

TypeOK ==
  /\ StateTypeOK /\ ScanTypeOK /\ LedsTypeOK /\ ButtonTypeOK
  /\ mode \in Modes /\ back \in Scheduled /\ left \in 0 .. ReadingsToTake
  /\ gathering \in BOOLEAN /\ scanned \in BOOLEAN

Init ==
  /\ acts \in Scenarios
  /\ StateInit /\ ScanInit /\ LedsInit /\ ButtonInit
  /\ pressed => Can("button")
  /\ mode = "start" /\ back = "idle" /\ left = 0
  /\ gathering = FALSE /\ scanned = FALSE

-----------------------------------------------------------------------------
(* Start and restart *)

\* StartSystem.
Start ==
  /\ mode = "start"
  /\ mode' = "ready"
  /\ Started
  /\ UNCHANGED <<acts, attached, flashed, highest, scanVars, ledVars, buttonVars,
                 back, left, gathering, scanned>>

\* FactoryReset, on the way to StartSystem.
FactoryReset ==
  /\ mode = "start" /\ Can("format")
  /\ FormatState
  /\ highest' \in {0} \union (IF Can("erase") THEN {highest} ELSE {})
  /\ UNCHANGED <<acts, number, moduleVars, attached, scanVars, ledVars, buttonVars, fsmVars>>

\* What is in RAM is lost; a button that is held is noticed again.
Reset ==
  /\ LoseState
  /\ scanning' = FALSE /\ asked' = 7 /\ query' = "none" /\ sensor' = 0 /\ bus' = "none"
  /\ active' = Dark /\ recent' = TRUE /\ copied' = FALSE
  /\ wasPressed' = FALSE /\ pending' = "None" /\ at' = "out" /\ raced' = "no"
  /\ since' = (IF pressed THEN "tap" ELSE "long") /\ held' = "tap"
  /\ mode' = "start" /\ back' = "idle" /\ left' = 0
  /\ gathering' = FALSE /\ scanned' = FALSE
  /\ UNCHANGED <<acts, attached, pressed>>

Restart == Can("restart") /\ Reset

\* Nothing checks in with the watchdog while the scan goes on.
WatchdogBites == mode = "scan" /\ query = "none" /\ scanning /\ Reset

-----------------------------------------------------------------------------
(* ScanAttachedDevices *)

\* The modules are ready.
Scan ==
  /\ mode = "ready"
  /\ mode' = "scan"
  /\ ScanBegins \/ ScanHangs
  /\ UNCHANGED <<acts, attached, ledVars, buttonVars, back, left, gathering, scanned>>

Scanning ==
  /\ mode = "scan" /\ scanning
  /\ ScanTask
  /\ UNCHANGED <<acts, attached, ledVars, buttonVars, fsmVars>>

\* The first scan leads to WifiStartup.
Scanned ==
  /\ mode = "scan" /\ ~scanning
  /\ scanned' = TRUE
  /\ IF ~scanned
     THEN mode' = "wifi" /\ Push("Wifi")
     ELSE mode' = (IF ListedSensors = {} THEN "nomodules" ELSE "idle") /\ UNCHANGED ledVars
  /\ UNCHANGED <<stateVars, attached, scanVars, buttonVars, back, left, gathering>>

-----------------------------------------------------------------------------
(* The network *)

WifiStarts ==
  /\ mode = "idle"
  /\ mode' = "wifi"
  /\ Push("Wifi")
  /\ UNCHANGED <<stateVars, attached, scanVars, buttonVars, back, left, gathering, scanned>>

\* WifiDisable.
WifiEnds ==
  /\ mode = "wifi"
  /\ mode' = IF ListedSensors = {} THEN "nomodules" ELSE "idle"
  /\ Cancel("Wifi")
  /\ UNCHANGED <<stateVars, attached, scanVars, buttonVars, back, left, gathering, scanned>>

\* NoModules scans again, or reboots.
Rescan ==
  /\ mode = "nomodules"
  /\ mode' = "ready"
  /\ UNCHANGED <<stateVars, attached, scanVars, ledVars, buttonVars, back, left, gathering, scanned>>

Reboot == mode = "nomodules" /\ Reset

\* QUERY_CONFIGURE_IDENTITY and QUERY_CONFIGURE_NETWORK_SETTINGS.
Configure ==
  /\ mode = "wifi"
  /\ Save
  /\ UNCHANGED <<acts, number, highest, moduleVars, attached, scanVars, ledVars, buttonVars, fsmVars>>

\* QUERY_FORMAT and QUERY_RESET: the state starts again when every file was erased, and
\* the second formats it after that.
Format ==
  /\ mode = "wifi" /\ Can("format")
  /\ \/ highest' = 0 /\ ClearModules
        /\ number' = StartedNumber(number, saved)
        /\ \/ saved' = StartedState(number, saved) /\ UNCHANGED flashed
           \/ FormatState
     \/ Can("erase") /\ highest' \in {0, highest}
        /\ UNCHANGED <<number, moduleVars>>
        /\ (UNCHANGED <<saved, flashed>> \/ FormatState)
  /\ UNCHANGED <<acts, attached, scanVars, ledVars, buttonVars, fsmVars>>

\* QUERY_LIVE_DATA_POLL.
Poll ==
  /\ mode = "wifi" /\ Can("live")
  /\ ClearReadings
  /\ UNCHANGED <<acts, numberVars, attached, scanVars, ledVars, buttonVars, fsmVars>>

QueryGivesUp ==
  /\ mode = "wifi" /\ Can("giveup")
  /\ bus' = "query"
  /\ UNCHANGED <<stateVars, attached, scanning, asked, query, sensor, ledVars, buttonVars, fsmVars>>

-----------------------------------------------------------------------------
(* Readings *)

\* BeginGatherReadings and TakeGpsReading: updateLocation saves, with a fix or without,
\* as long as the GPS is not disabled.  Then TakeReadings.
BeginReadings ==
  /\ mode \in Scheduled /\ number < MaxNumber
  /\ back' = mode /\ mode' = "readings"
  /\ left' = IF ListedSensors = {} THEN 0 ELSE ReadingsToTake
  /\ Save \/ (Can("gpsoff") /\ UNCHANGED <<saved, flashed>>)
  /\ UNCHANGED <<acts, number, highest, moduleVars, attached, scanVars, ledVars, buttonVars,
                 gathering, scanned>>

BeginLive ==
  /\ mode = "wifi" /\ Can("live") /\ number < MaxNumber
  /\ back' = mode /\ mode' = "live" /\ left' = 1
  /\ UNCHANGED <<stateVars, attached, scanVars, ledVars, buttonVars, gathering, scanned>>

Reading == mode \in {"readings", "live"}

\* GatherReadings::enqueued.
GatherBegins ==
  /\ Reading /\ ~gathering /\ left > 0
  /\ bus = "none" /\ ListedSensors # {}
  /\ gathering' = TRUE
  /\ TakingReadings
  /\ Push("Readings")
  /\ UNCHANGED <<acts, saved, flashed, highest, moduleVars, attached, scanVars, buttonVars,
                 mode, back, left, scanned>>

\* It pushes no query, and is done.
GatherNothing ==
  /\ Reading /\ ~gathering /\ left > 0
  /\ bus # "none" \/ ListedSensors = {}
  /\ left' = left - 1
  /\ Cancel("Readings")
  /\ UNCHANGED <<stateVars, attached, scanVars, buttonVars, mode, back, gathering, scanned>>

\* Whichever address its sensor module has, the core asks 8.
Gather ==
  /\ gathering
  /\ 8 \in ListedSensors
  /\ \E s \in Sensors : MergeReading(8, s)
  /\ UNCHANGED <<acts, attached, scanVars, ledVars, buttonVars, fsmVars>>

\* A GatherReadings that fails is the last of its TakeReadings.
GatherEnds ==
  /\ gathering
  /\ gathering' = FALSE
  /\ \/ 8 \in ListedSensors /\ left' = left - 1
     \/ (8 \notin ListedSensors \/ Can("noise")) /\ left' = 0
  /\ Cancel("Readings")
  /\ UNCHANGED <<stateVars, attached, scanVars, buttonVars, mode, back, scanned>>

\* No module has answered.
GatherFails ==
  /\ gathering /\ mode = "readings"
  /\ 8 \notin ListedSensors \/ Can("noise")
  /\ Reset

ReadingsEnd ==
  /\ Reading /\ ~gathering /\ left = 0
  /\ mode' = back
  /\ UNCHANGED <<stateVars, attached, scanVars, ledVars, buttonVars, back, left, gathering, scanned>>

-----------------------------------------------------------------------------
(* alive() *)

others == <<stateVars, attached, scanVars, fsmVars>>

Alive == mode \in {"ready", "wifi", "idle", "nomodules", "readings", "live"}

\* While the button's task runs, nothing else of the core does.
Press == Can("button") /\ (HandlerPressed \/ HandlerReleased \/ Hold) /\ UNCHANGED <<ledVars, others>>

Button == ((Alive /\ ButtonTask) \/ ButtonStep) /\ UNCHANGED others

\* GpsService::read, when its status is due and the fix is valid.
Fix ==
  /\ at = "out" /\ Alive /\ Can("fix")
  /\ Save
  /\ UNCHANGED <<acts, number, highest, moduleVars, attached, scanVars, ledVars, buttonVars, fsmVars>>

Led == at = "out" /\ mode # "start" /\ LedsTask /\ UNCHANGED <<buttonVars, others>>

Watchdog == at = "out" /\ Alive /\ Can("alive") /\ NotifyAlive /\ UNCHANGED <<buttonVars, others>>

Quiet == at = "out" /\ Can("quiet") /\ Disabled /\ UNCHANGED <<buttonVars, others>>

Core ==
  /\ at = "out"
  /\ \/ Start \/ Scan \/ Scanning \/ Scanned \/ Rescan \/ Reboot
     \/ WifiStarts \/ WifiEnds \/ Configure \/ Format \/ Poll \/ QueryGivesUp
     \/ BeginReadings \/ BeginLive \/ GatherBegins \/ GatherNothing
     \/ Gather \/ GatherEnds \/ GatherFails \/ ReadingsEnd
     \/ FactoryReset \/ WatchdogBites

Next == Core \/ Restart \/ Fix \/ Press \/ Button \/ Led \/ Watchdog \/ Quiet

Spec == Init /\ [][Next]_vars

-----------------------------------------------------------------------------
(* Properties *)

\* AttachedDevices::error drops every module rather than to leave one half described,
\* and whichever way a scan ends, reply or error, it gives twoWire1 back: what the
\* core shows the app, and asks for readings, it has the description of.
ScanConcludes ==
  mode # "scan" =>
    /\ bus # "scan"
    /\ \A a \in ListedSensors : {a} \X Sensors \subseteq described

\* CoreState saves the reading number with the location, before the readings and not
\* after them.  A restart goes back to the number in flash, and numbers again no more
\* than the readings of one schedule, unless the number was not saved before them.
LastSaveCovers ==
  (\A act \in {"gpsoff", "flash", "live", "erase"} : ~Can(act))
    => highest <= flashed.number + ReadingsToTake

\* What CoreState reports to the app is of sensors it can name, whichever scan made the
\* list, and was taken since, although getOrCreateModule leaves the readings as they were
\* in the pool, unless the pool has been cleared after it had modules.
ReportedWereTaken ==
  mode # "scan" =>
    /\ done \subseteq described
    /\ done \subseteq taken \/ dirty

\* While the button is held, no event is pending for a press longer than the present one,
\* wherever the handler, which changes pending_ and changedAt_, falls between the reads of
\* the task.  After the release too, unless the handler ran inside the task: a release
\* there clears changedAt_, and the task may then take the press for a long one.
PendingIsEarned ==
  pressed \/ raced = "no" =>
    /\ pending = "Long" => held = "long"
    /\ pending = "Short" => held # "tap"

\* Unless the handler ran inside the task: the LED has the button's animation while the
\* task takes the button to be held, whatever is pushed and cancelled meanwhile, and not
\* after it, but for a copy of it that the cancel of another animation has made.
LedFollowsButton ==
  at = "out" /\ raced = "no" =>
    /\ wasPressed => Holds(active, "Button") # {}
    /\ ~wasPressed => Holds(active, "Button") = {} \/ copied
=============================================================================
