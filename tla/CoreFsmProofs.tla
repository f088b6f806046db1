---------------------------- MODULE CoreFsmProofs ----------------------------
(***************************************************************************)
(* Proofs about CoreFsm for every number of networks and modules and any   *)
(* sets of outside events: that its state is well typed, that the radio is *)
(* on where it is used, and that the readings resume what the schedule     *)
(* interrupted.                                                            *)
(*                                                                         *)
(* The two safety properties speak of the state that runs, but where it    *)
(* goes next is in the other two pointers, which every event overwrites.   *)
(* IInv says of each pointer what it must be if it is still going to be    *)
(* followed, and Follows and Ends say it of what a task leaves, so that    *)
(* one lemma (ReturnOK) ends the proof of every task that returns.         *)
(***************************************************************************)
EXTENDS CoreFsm, TLAPS

Pointers == [current : Pointer, previous : Pointer, resume : Pointer, modules : BOOLEAN]

-----------------------------------------------------------------------------
(* tinyfsm and the events *)

\* What each operation of CoreDevice and tinyfsm does to the pointers.
LEMMA TransitIs ==
  ASSUME NEW m \in Pointers, NEW s \in Pointer
  PROVE /\ Transit(m, s) \in Pointers
        /\ Transit(m, s).current = s
        /\ Transit(m, s).previous = m.current
        /\ Transit(m, s).resume = m.resume
<1> DEFINE left == [m EXCEPT !.previous = m.current, !.current = s]
           on == left.modules /\ s # "LowPowerSleep"
<1>1. /\ left \in Pointers /\ left.current = s
      /\ left.previous = m.current /\ left.resume = m.resume
  BY DEF Pointers
<1>2. on \in BOOLEAN
  OBVIOUS
<1>3. Transit(m, s) = [left EXCEPT !.modules = on]
  BY Zenon DEF Transit
<1> HIDE DEF left, on
<1> QED
  BY <1>1, <1>2, <1>3 DEF Pointers

LEMMA BackIs ==
  ASSUME NEW m \in Pointers
  PROVE /\ Back(m) \in Pointers
        /\ Back(m).current = m.previous
        /\ Back(m).previous = m.current
        /\ Back(m).resume = m.resume
<1>1. m.previous \in Pointer
  BY DEF Pointers
<1> QED
  BY <1>1, TransitIs DEF Back

LEMMA ResumeIs ==
  ASSUME NEW m \in Pointers
  PROVE /\ Resume(m) \in Pointers
        /\ Resume(m).current = m.resume
        /\ Resume(m).previous = m.current
        /\ Resume(m).resume = "null"
<1>1. m.resume \in Pointer /\ "null" \in Pointer
  BY DEF Pointers, Pointer
<1>2. /\ Transit(m, m.resume) \in Pointers
      /\ Transit(m, m.resume).current = m.resume
      /\ Transit(m, m.resume).previous = m.current
  BY <1>1, TransitIs
<1> QED
  BY <1>1, <1>2 DEF Resume, Pointers

LEMMA ResumeAtBackIs ==
  ASSUME NEW m \in Pointers
  PROVE /\ ResumeAtBack(m) \in Pointers
        /\ ResumeAtBack(m).current = m.current
        /\ ResumeAtBack(m).previous = m.previous
        /\ ResumeAtBack(m).resume = m.previous
  BY DEF ResumeAtBack, Pointers

ByButton == {"RebootDevice", "FactoryReset", "UserWakeup", "TurnOff"}

LEMMA StatesAre ==
  /\ ByButton \subseteq Pointer /\ ByButton \intersect RadioStates = {}
  /\ "LowPowerSleep" \in Pointer /\ "BeginGatherReadings" \in Pointer /\ "WifiStartup" \in Pointer
  BY DEF ByButton, Pointer, States, RadioStates, StartStates, ScheduleStates

\* Where a release of the button may lead.
LEMMA ReleaseIs ==
  ASSUME NEW m \in Pointers, NEW press \in {"minor", "short", "long"}, OnRelease(m, press) # m
  PROVE /\ OnRelease(m, press) \in Pointers
        /\ OnRelease(m, press).current \in ByButton
        /\ OnRelease(m, press).previous = m.current
        /\ OnRelease(m, press).resume = m.resume
        /\ OnRelease(m, press).current = "RebootDevice" => m.current = "TurnOff"
        /\ OnRelease(m, press).current = "FactoryReset" => m.current = "FactoryResetCheck"
<1>1. \/ m.current = "TurnOff" /\ OnRelease(m, press) = Transit(m, "RebootDevice")
      \/ m.current = "FactoryResetCheck" /\ OnRelease(m, press) = Transit(m, "FactoryReset")
      \/ OnRelease(m, press) = Transit(m, "UserWakeup")
      \/ OnRelease(m, press) = Transit(m, "TurnOff")
  BY DEF OnRelease
<1>2. \A t \in ByButton : /\ Transit(m, t) \in Pointers
                          /\ Transit(m, t).current = t
                          /\ Transit(m, t).previous = m.current
                          /\ Transit(m, t).resume = m.resume
  BY TransitIs, StatesAre
<1> QED
  BY <1>1, <1>2 DEF ByButton

\* UserButton::task: nothing, or a transition to one of four states.
LEMMA ButtonIs ==
  ASSUME NEW m \in Pointers, NEW a \in Button(m)
  PROVE /\ a \in Pointers /\ a.resume = m.resume
        /\ \/ a = m
           \/ /\ a.current \in ByButton /\ a.previous = m.current
              /\ a.current = "RebootDevice" => m.current = "TurnOff"
              /\ a.current = "FactoryReset" => m.current = "FactoryResetCheck"
<1>1. a = m \/ \E press \in {"minor", "short", "long"} : a = OnRelease(m, press)
  BY DEF Button
<1> QED
  BY <1>1, ReleaseIs

\* MainServices::alive: only from Idle and NoModules to the sleep of a low battery, and
\* on from there.
\* alive() leaves the state that calls it, or goes from it to one of an event.
LEMMA AliveIs ==
  ASSUME NEW m \in Pointers, NEW a \in Alive(m)
  PROVE /\ a \in Pointers /\ a.resume = m.resume
        /\ \/ a = m
           \/ /\ a.current \in ByButton /\ a.previous = m.current
              /\ a.current = "RebootDevice" => m.current = "TurnOff"
              /\ a.current = "FactoryReset" => m.current = "FactoryResetCheck"
           \/ /\ m.current \in {"Idle", "NoModules"}
              /\ \/ a.current = "LowPowerSleep" /\ a.previous = m.current
                 \/ a.current \in {"UserWakeup", "TurnOff"} /\ a.previous = "LowPowerSleep"
<1>1. CASE a \in Button(m)
  BY <1>1, ButtonIs
<1>2. CASE a \in Button(OnLowPower(m)) /\ OnLowPower(m) # m
  <2> DEFINE low == OnLowPower(m)
  <2>1. low = Transit(m, "LowPowerSleep") /\ m.current \in {"Idle", "NoModules"}
    BY <1>2 DEF OnLowPower
  <2>2. low \in Pointers /\ low.resume = m.resume /\ low.current = "LowPowerSleep" /\ low.previous = m.current
    BY <2>1, StatesAre, TransitIs
  <2>3. /\ a \in Pointers /\ a.resume = low.resume
        /\ \/ a = low
           \/ /\ a.current \in ByButton /\ a.previous = low.current
              /\ a.current = "RebootDevice" => low.current = "TurnOff"
              /\ a.current = "FactoryReset" => low.current = "FactoryResetCheck"
    BY <1>2, <2>2, ButtonIs
  <2> QED
    BY <2>1, <2>2, <2>3 DEF ByButton
<1> QED
  BY <1>1, <1>2 DEF Alive

\* The schedule only leaves a state that hears it.
LEMMA ScheduledIs ==
  ASSUME NEW m \in Pointers, NEW s \in ScheduledTasks(m)
  PROVE /\ s \in Pointers /\ s.resume = m.resume
        /\ \/ s = m
           \/ /\ m.current \in ScheduleStates /\ s.previous = m.current
              /\ s.current \in {"BeginGatherReadings", "WifiStartup"}
<1>1. s = m \/ (m.current \in ScheduleStates /\ \E t \in {"BeginGatherReadings", "WifiStartup"} :
                                                 s = Transit(m, t))
  BY DEF ScheduledTasks, OnSchedule
<1> QED
  BY <1>1, StatesAre, TransitIs

-----------------------------------------------------------------------------
(* The invariant *)

\* The states whose tasks go on after an event has changed the state under them.
Loops ==
  {"ScanAttachedDevices", "TakeReadings", "LiveDataReading", "CheckFirmware", "FirmwareSelfFlash"}

\* Any other task runs for the state that is current.
OwnOK == running \notin Loops => core.current = running

\* The radio is off only where no pointer that is still to be followed leads to a state
\* that needs it.
RadioOK ==
  /\ core.current \in RadioStates \/ running \in RadioStates => wifi
  /\ core.previous \in RadioStates /\ core.current # "TurnOff" => wifi
  /\ running = "BeginGatherReadings" => core.previous \in {"Idle", "NoModules"} \/ wifi
  /\ running \in {"TakeGpsReading", "TakeReadings"} => core.resume \in {"Idle", "NoModules"} \/ wifi
  /\ running = "Sleep" => core.previous = "Idle" \/ wifi

\* What the pointers may hold while CheckFirmware downloads and the button is released.
InCheck == {"CheckAllAttachedFirmware", "CheckFirmware", "UserWakeup", "TurnOff", "RebootDevice"}

\* Without live data, where each state that goes back or resumes will end.
ResumeOK ==
  "live" \notin events =>
    /\ ~live /\ running # "LiveDataReading"
    /\ running = "Sleep" => core.previous = "Idle"
    /\ running = "WifiTransmitFile" => core.previous = "WifiTransmitFiles"
    /\ running = "CheckFirmware" => core.previous \in InCheck /\ core.current \in InCheck
    /\ running = "BeginGatherReadings" => core.previous \in ScheduleStates
    /\ running \in {"TakeGpsReading", "TakeReadings"} => core.resume \in ScheduleStates

\* The inductive invariant.
IInv == TypeOK /\ OwnOK /\ RadioOK /\ ResumeOK

FlagsTyped ==
  /\ events \in EventSets
  /\ hands \in BOOLEAN /\ console \in BOOLEAN
  /\ wifi \in BOOLEAN /\ live \in BOOLEAN /\ sensors \in BOOLEAN
  /\ first \in BOOLEAN /\ startup \in BOOLEAN /\ listening \in BOOLEAN

IndexTyped ==
  /\ index.WifiTryNetwork \in 0 .. Networks
  /\ index.CheckAllAttachedFirmware \in 0 .. Modules + 2
  /\ index.WifiTransmitFiles \in 0 .. Transmissions
  /\ DOMAIN index = Indexed

LEMMA TypesAre ==
  TypeOK <=> FlagsTyped /\ IndexTyped /\ core \in Pointers /\ running \in Pointer
  BY DEF TypeOK, FlagsTyped, IndexTyped, Pointers

LEMMA TypesAreNext ==
  TypeOK' <=> FlagsTyped' /\ IndexTyped' /\ core' \in Pointers /\ running' \in Pointer
  BY DEF TypeOK, FlagsTyped, IndexTyped, Pointers

LEMMA ZeroIndex ==
  ASSUME NEW i, i = [s \in Indexed |-> 0]
  PROVE /\ i.WifiTryNetwork \in 0 .. Networks
        /\ i.CheckAllAttachedFirmware \in 0 .. Modules + 2
        /\ i.WifiTransmitFiles \in 0 .. Transmissions
        /\ DOMAIN i = Indexed
<1>1. i.WifiTryNetwork = 0 /\ i.CheckAllAttachedFirmware = 0 /\ i.WifiTransmitFiles = 0
  BY DEF Indexed
<1>2. 0 \in 0 .. Networks /\ 0 \in 0 .. Modules + 2 /\ 0 \in 0 .. Transmissions
  BY CoreAssumption DEF Transmissions
<1> QED
  BY <1>1, <1>2

LEMMA BootedIs ==
  Booted \in Pointers /\ Booted.current = "Booting" /\ Booted.previous = "null" /\ Booted.resume = "null"
  BY DEF Booted, Pointers, Pointer, States, StartStates

LEMMA InitOK ==
  ASSUME Init
  PROVE IInv
<1>1. IndexTyped
  BY ZeroIndex DEF Init, IndexTyped
<1>2. FlagsTyped /\ core \in Pointers /\ running \in Pointer
  BY BootedIs DEF Init, FlagsTyped, Pointers
<1>3. OwnOK /\ RadioOK /\ ResumeOK
  BY BootedIs DEF Init, OwnOK, RadioOK, ResumeOK, RadioStates
<1> QED
  BY <1>1, <1>2, <1>3, TypesAre DEF IInv

-----------------------------------------------------------------------------
(* The steps *)

\* What a task that returns has to see to, besides the types.
Follows(m, on) ==
  /\ m.current \in RadioStates => on
  /\ m.previous \in RadioStates /\ m.current # "TurnOff" => on
  /\ m.current = "BeginGatherReadings" => m.previous \in {"Idle", "NoModules"} \/ on
  /\ m.current \in {"TakeGpsReading", "TakeReadings"} => m.resume \in {"Idle", "NoModules"} \/ on
  /\ m.current = "Sleep" => m.previous = "Idle" \/ on

\* The same without live data: where a state that goes back or resumes may have come from.
Ends(m) ==
  /\ m.current # "LiveDataReading"
  /\ m.current = "Sleep" => m.previous = "Idle"
  /\ m.current = "WifiTransmitFile" => m.previous = "WifiTransmitFiles"
  /\ m.current = "CheckFirmware" => m.previous \in InCheck
  /\ m.current = "BeginGatherReadings" => m.previous \in ScheduleStates
  /\ m.current \in {"TakeGpsReading", "TakeReadings"} => m.resume \in ScheduleStates

\* What every step keeps of the pointers.
Moves == core' \in Pointers /\ running' \in Pointer /\ OwnOK' /\ RadioOK' /\ ResumeOK'

\* A task that returns.
LEMMA ReturnOK ==
  ASSUME NEW m \in Pointers, Return(m), Follows(m, wifi'),
         "live" \notin events' => ~live' /\ Ends(m)
  PROVE Moves
<1>1. core' = m /\ running' = m.current
  BY DEF Return
<1>2. OwnOK' /\ core' \in Pointers /\ running' \in Pointer
  BY <1>1 DEF OwnOK, Pointers
<1>3. RadioOK'
  BY <1>1 DEF RadioOK, Follows
<1>4. ResumeOK'
  BY <1>1 DEF ResumeOK, Ends, InCheck
<1> QED
  BY <1>2, <1>3, <1>4 DEF Moves

\* A task of one step that leaves for a state that nothing above speaks of.
LEMMA LeaveOK ==
  ASSUME IInv, NEW s \in Pointer, Leave(s), core.current \in RadioStates => wifi',
         s \in RadioStates => wifi',
         s \notin {"BeginGatherReadings", "TakeGpsReading", "TakeReadings", "Sleep"},
         "live" \notin events' => /\ ~live'
                                  /\ s \notin {"LiveDataReading", "WifiTransmitFile", "CheckFirmware"}
  PROVE Moves
<1>1. core \in Pointers
  BY TypesAre DEF IInv
<1> DEFINE m == Transit(core, s)
<1>2. m \in Pointers /\ m.current = s /\ m.previous = core.current /\ m.resume = core.resume
  BY <1>1, TransitIs
<1>3. Return(m)
  BY DEF Leave
<1> HIDE DEF m
<1>4. Follows(m, wifi')
  BY <1>2 DEF Follows
<1>5. "live" \notin events' => ~live' /\ Ends(m)
  BY <1>2 DEF Ends
<1> QED
  BY <1>2, <1>3, <1>4, <1>5, ReturnOK

LEMMA StatesIn ==
  /\ ScheduleStates \subseteq Pointer /\ StartStates \subseteq Pointer /\ RadioStates \subseteq Pointer
  /\ {"Sleep", "LowPowerSleep", "BeginGatherReadings", "TakeGpsReading", "TakeReadings",
      "UserWakeup", "TurnOff", "RebootDevice", "WifiStartup", "WifiDisable",
      "FirmwareSelfFlash", "UpgradeModuleFirmware", "null"} \subseteq Pointer
  BY DEF Pointer, States

LEMMA KindsOfStates ==
  /\ ScheduleStates \intersect RadioStates = {"WifiListening"}
  /\ StartStates \intersect RadioStates = {}
  BY DEF ScheduleStates, StartStates, RadioStates

\* What the invariant says of the state whose task is about to take a step.
LEMMA Now ==
  ASSUME IInv
  PROVE /\ core \in Pointers
        /\ core.current \in Pointer /\ core.previous \in Pointer /\ core.resume \in Pointer
        /\ core.current \in RadioStates \/ running \in RadioStates => wifi
        /\ running \notin Loops => core.current = running
        /\ "live" \notin events => ~live /\ running # "LiveDataReading"
  BY TypesAre DEF IInv, RadioOK, OwnOK, ResumeOK, Pointers

LEMMA RestartOK ==
  ASSUME Restart
  PROVE Moves
<1>1. Return(Booted) /\ ~live'
  BY DEF Restart
<1>2. Follows(Booted, wifi') /\ Ends(Booted)
  BY BootedIs DEF Follows, Ends, RadioStates
<1> QED
  BY <1>1, <1>2, BootedIs, ReturnOK

\* States of the start.
LEMMA StartOK ==
  ASSUME IInv, Booting \/ FactoryReset \/ Initialized \/ FirmwareHealthCheck \/ ScanAttachedDevices
               \/ RebootDevice \/ FirmwareSelfFlash \/ NullState \/ StartSystemFails
  PROVE Moves
<1>1. CASE Restart
  BY <1>1, RestartOK
<1>2. ASSUME ~Restart
      PROVE \E s \in {"FactoryResetCheck", "StartSystem", "CheckPower", "ScanAttachedDevices",
                      "WifiStartup", "Idle", "NoModules", "Initialized"} :
              Leave(s) /\ UNCHANGED <<events, wifi, live>>
  BY <1>2 DEF Booting, FactoryReset, Initialized, FirmwareHealthCheck, ScanAttachedDevices,
     RebootDevice, FirmwareSelfFlash, NullState, StartSystemFails, Simple, outside, flags
<1>3. CASE ~Restart
  BY <1>2, <1>3, Now, LeaveOK, StatesIn DEF ScheduleStates, StartStates, RadioStates
<1> QED
  BY <1>1, <1>3

\* States of the network that leave for a state of their own choice.
LEMMA WifiOK ==
  ASSUME IInv, \/ UserWakeup \/ WifiStartup \/ WifiCreateAp \/ UpgradeModuleFirmware
               \/ WifiDownloadFile \/ WifiQueryModule \/ WifiConnectionCompleted
               \/ WifiListeningEnds \/ WifiCaptiveListeningEnds
  PROVE Moves
<1>1. CASE UserWakeup \/ UpgradeModuleFirmware \/ WifiListeningEnds
  <2>1. \E s \in {"WifiStartup", "Idle", "WifiDisable"} : Leave(s) /\ UNCHANGED <<events, wifi, live>>
    BY <1>1 DEF UserWakeup, UpgradeModuleFirmware, WifiListeningEnds, Simple, outside, flags
  <2> QED
    BY <2>1, Now, LeaveOK, StatesIn DEF ScheduleStates, RadioStates
<1>2. CASE WifiStartup
  <2>1. \E s \in {"WifiTransmitFiles", "WifiListening", "WifiDisable", "WifiTryNetwork"} :
          /\ Leave(s) /\ UNCHANGED <<events, live>>
          /\ wifi' = wifi \/ wifi'
          /\ s # "WifiDisable" => wifi'
    BY <1>2 DEF WifiStartup, outside
  <2> QED
    BY <2>1, Now, LeaveOK, StatesIn DEF RadioStates
<1>3. CASE WifiCreateAp \/ WifiDownloadFile \/ WifiQueryModule \/ WifiConnectionCompleted
           \/ WifiCaptiveListeningEnds
  <2>1. running \in RadioStates
    BY <1>3 DEF WifiCreateAp, WifiDownloadFile, WifiQueryModule, WifiConnectionCompleted,
       WifiCaptiveListeningEnds, Simple, In, RadioStates
  <2>2. \E s \in {"WifiDisable", "WifiListening", "WifiConnectionCompleted", "WifiCaptiveListening"} :
          Leave(s) /\ UNCHANGED <<events, wifi, live>>
    BY <1>3 DEF WifiCreateAp, WifiDownloadFile, WifiQueryModule, WifiConnectionCompleted,
       WifiCaptiveListeningEnds, Simple, outside, flags
  <2> QED
    BY <2>1, <2>2, Now, LeaveOK, StatesIn DEF RadioStates
<1> QED
  BY <1>1, <1>2, <1>3

LEMMA WifiTasksOK ==
  ASSUME IInv, WifiTryNetwork \/ WifiTransmitFiles \/ CheckAllAttachedFirmware \/ AppServicer
  PROVE Moves
<1>1. running \in RadioStates /\ core.current = running
  BY Now DEF WifiTryNetwork, WifiTransmitFiles, CheckAllAttachedFirmware, AppServicer, In, RadioStates, Loops
<1>2. CASE WifiTryNetwork
  <2>1. \E s \in {"WifiCreateAp", "WifiDisable", "WifiTryNetwork", "CheckAllAttachedFirmware"} :
          Leave(s) /\ UNCHANGED <<events, wifi, live>>
    BY <1>2 DEF WifiTryNetwork, outside
  <2> QED
    BY <1>1, <2>1, Now, LeaveOK, StatesIn DEF RadioStates
<1>3. CASE AppServicer
  <2>1. \E s \in {"WifiConnectionCompleted", "WifiDownloadFile", "WifiQueryModule"} :
          Leave(s) /\ UNCHANGED <<events, wifi>> /\ (live' = live \/ "live" \in events)
    BY <1>3 DEF AppServicer, outside
  <2> QED
    BY <1>1, <2>1, Now, LeaveOK, StatesIn DEF RadioStates
<1>4. CASE CheckAllAttachedFirmware \/ WifiTransmitFiles
  <2>1. UNCHANGED <<events, wifi, live>>
    BY <1>4 DEF CheckAllAttachedFirmware, WifiTransmitFiles, outside
  <2>2. \/ \E s \in {"WifiListening", "WifiDisable", "WifiTransmitFiles"} : Leave(s)
        \/ Leave("WifiTransmitFile") /\ running = "WifiTransmitFiles"
        \/ Leave("CheckFirmware") /\ running = "CheckAllAttachedFirmware"
    BY <1>4 DEF CheckAllAttachedFirmware, WifiTransmitFiles, In
  <2>3. CASE \E s \in {"WifiListening", "WifiDisable", "WifiTransmitFiles"} : Leave(s)
    BY <1>1, <2>1, <2>3, Now, LeaveOK, StatesIn DEF RadioStates
  <2>4. ASSUME NEW s \in {"WifiTransmitFile", "CheckFirmware"}, Leave(s),
               /\ s = "WifiTransmitFile" => running = "WifiTransmitFiles"
               /\ s = "CheckFirmware" => running = "CheckAllAttachedFirmware"
        PROVE Moves
    <3>1. s \in Pointer
      BY StatesIn DEF RadioStates
    <3> DEFINE m == Transit(core, s)
    <3>2. m \in Pointers /\ m.current = s /\ m.previous = running
      BY <1>1, <3>1, Now, TransitIs
    <3>3. Return(m)
      BY <2>4 DEF Leave
    <3> HIDE DEF m
    <3>4. Follows(m, wifi') /\ ("live" \notin events' => ~live' /\ Ends(m))
      BY <1>1, <2>1, <2>4, <3>2, Now DEF Follows, Ends, InCheck
    <3> QED
      BY <3>2, <3>3, <3>4, ReturnOK
  <2> QED
    BY <2>2, <2>3, <2>4
<1> QED
  BY <1>2, <1>3, <1>4

\* What alive() and the schedule leave is as sound as what they found.
LEMMA AliveFollows ==
  ASSUME IInv, running \notin Loops, NEW a \in Alive(core)
  PROVE /\ a \in Pointers /\ Follows(a, wifi)
        /\ "live" \notin events => Ends(a)
<1>1. core.current = running /\ core \in Pointers
  BY Now
<1>2. Follows(core, wifi) /\ ("live" \notin events => Ends(core))
  BY <1>1 DEF IInv, RadioOK, ResumeOK, Follows, Ends, Loops
<1>3. a \in Pointers /\ (a = core \/ /\ a.current \in ByButton \union {"LowPowerSleep"}
                                     /\ a.previous \in {core.current, "LowPowerSleep"})
  BY <1>1, AliveIs DEF ByButton
<1>4. ASSUME a # core
      PROVE Follows(a, wifi) /\ Ends(a)
  <2>1. a.previous \in RadioStates => wifi
    BY <1>3, <1>4, Now DEF RadioStates
  <2>2. a.current \notin RadioStates
    BY <1>3, <1>4 DEF ByButton, RadioStates
  <2> QED
    BY <1>3, <1>4, <2>1, <2>2 DEF Follows, Ends, ByButton
<1> QED
  BY <1>2, <1>3, <1>4

LEMMA ScheduledFollows ==
  ASSUME NEW a \in Pointers, NEW on \in BOOLEAN, Follows(a, on), NEW s \in ScheduledTasks(a)
  PROVE s \in Pointers /\ Follows(s, on) /\ (Ends(a) => Ends(s))
<1>1. s \in Pointers /\ (s = a \/ (/\ a.current \in ScheduleStates /\ s.previous = a.current
                                  /\ s.current \in {"BeginGatherReadings", "WifiStartup"}))
  BY ScheduledIs
<1>2. ASSUME s # a
      PROVE Follows(s, on) /\ Ends(s)
  BY <1>1, <1>2 DEF Follows, Ends, RadioStates, ScheduleStates
<1> QED
  BY <1>1, <1>2

LEMMA TransitFollows ==
  ASSUME NEW a \in Pointers, NEW on \in BOOLEAN, Follows(a, on), NEW s \in Pointer,
         s \notin {"TakeGpsReading", "TakeReadings", "LiveDataReading", "WifiTransmitFile", "CheckFirmware",
                   "BeginGatherReadings"},
         s \in RadioStates => on,
         s = "Sleep" => a.current = "Idle"
  PROVE Transit(a, s) \in Pointers /\ Follows(Transit(a, s), on) /\ Ends(Transit(a, s))
<1>1. /\ Transit(a, s) \in Pointers /\ Transit(a, s).current = s
      /\ Transit(a, s).previous = a.current
  BY TransitIs
<1> QED
  BY <1>1 DEF Follows, Ends

LEMMA WifiIsBoolean == IInv => wifi \in BOOLEAN /\ (live \in BOOLEAN) /\ sensors \in BOOLEAN
  BY TypesAre DEF IInv, FlagsTyped

\* The tasks that call alive() once, and those of the schedule.
LEMMA AwakeOK ==
  ASSUME IInv, FactoryResetCheck \/ CheckPower \/ Idle \/ SleepTurn \/ NoModules
  PROVE Moves
<1>1. UNCHANGED <<events, wifi, live>> /\ running \notin Loops
  BY DEF FactoryResetCheck, CheckPower, Idle, SleepTurn, NoModules, In, Loops, outside, flags
<1>2. PICK a \in Alive(core) :
        \/ Return(a)
        \/ \E s \in {"FirmwareHealthCheck", "RebootDevice"} : Return(Transit(a, s))
        \/ \E t \in ScheduledTasks(a) :
             \/ Return(t)
             \/ \E s \in {"RebootDevice", "ScanAttachedDevices"} : Return(Transit(t, s))
             \/ t.current = "Idle" /\ Return(Transit(t, "Sleep"))
        \/ Leave("StartSystem")
  <2>1. core \in Alive(core)
    BY DEF Alive, Button
  <2> QED
    BY <2>1 DEF FactoryResetCheck, CheckPower, Idle, SleepTurn, NoModules
<1>3. /\ a \in Pointers /\ Follows(a, wifi) /\ wifi \in BOOLEAN
      /\ "live" \notin events => Ends(a) /\ ~live
  BY <1>1, AliveFollows, WifiIsBoolean, Now
<1>4. CASE Return(a)
  BY <1>1, <1>3, <1>4, ReturnOK
<1>5. ASSUME NEW s \in {"FirmwareHealthCheck", "RebootDevice"}, Return(Transit(a, s))
      PROVE Moves
  <2>1. s \in Pointer /\ s \notin RadioStates
    BY StatesIn DEF StartStates, RadioStates
  <2> QED
    BY <1>1, <1>3, <1>5, <2>1, TransitFollows, ReturnOK
<1>6. ASSUME NEW t \in ScheduledTasks(a)
      PROVE t \in Pointers /\ Follows(t, wifi) /\ ("live" \notin events => Ends(t))
  BY <1>3, <1>6, ScheduledFollows
<1>7. ASSUME NEW t \in ScheduledTasks(a), Return(t)
      PROVE Moves
  BY <1>1, <1>3, <1>6, <1>7, ReturnOK
<1>8. ASSUME NEW t \in ScheduledTasks(a), NEW s \in {"RebootDevice", "ScanAttachedDevices", "Sleep"},
             s = "Sleep" => t.current = "Idle", Return(Transit(t, s))
      PROVE Moves
  <2>1. s \in Pointer /\ s \notin RadioStates
    BY StatesIn DEF StartStates, RadioStates
  <2> QED
    BY <1>1, <1>3, <1>6, <1>8, <2>1, TransitFollows, ReturnOK
<1>9. CASE Leave("StartSystem")
  <2>1. "StartSystem" \in Pointer /\ "StartSystem" \notin RadioStates
    BY StatesIn DEF StartStates, RadioStates
  <2> QED
    BY <1>1, <1>9, <2>1, Now, LeaveOK
<1> QED
  BY <1>2, <1>4, <1>5, <1>7, <1>8, <1>9

LEMMA StartSystemOK ==
  ASSUME IInv, StartSystem
  PROVE Moves
<1> DEFINE m == Transit(Transit(core, "ConfigureDevice"), "Initialized")
<1>1. "ConfigureDevice" \in Pointer /\ "Initialized" \in Pointer /\ "ConfigureDevice" \notin RadioStates
      /\ "Initialized" \notin RadioStates
  BY StatesIn DEF StartStates, RadioStates
<1>2. m \in Pointers /\ m.current = "Initialized" /\ m.previous = "ConfigureDevice"
  <2> DEFINE c == Transit(core, "ConfigureDevice")
  <2>1. c \in Pointers /\ c.current = "ConfigureDevice"
    BY <1>1, Now, TransitIs
  <2> HIDE DEF c
  <2>2. /\ Transit(c, "Initialized") \in Pointers
        /\ Transit(c, "Initialized").current = "Initialized"
        /\ Transit(c, "Initialized").previous = c.current
    BY <1>1, <2>1, TransitIs
  <2> QED
    BY <2>1, <2>2 DEF c
<1>3. Return([m EXCEPT !.modules = TRUE]) /\ UNCHANGED <<events, wifi, live>>
  BY DEF StartSystem, outside, flags
<1> HIDE DEF m
<1> DEFINE n == [m EXCEPT !.modules = TRUE]
<1>4. n \in Pointers /\ n.current = "Initialized" /\ n.previous = "ConfigureDevice"
  BY <1>2 DEF Pointers
<1>5. Return(n)
  BY <1>3
<1> HIDE DEF n
<1>6. Follows(n, wifi') /\ Ends(n)
  BY <1>1, <1>4 DEF Follows, Ends
<1> QED
  BY <1>3, <1>4, <1>5, <1>6, Now, ReturnOK

\* WifiDisable and TurnOff switch the radio off.
LEMMA SwitchOffOK ==
  ASSUME IInv, WifiDisable \/ TurnOff
  PROVE Moves
<1>1. core.current = running /\ core \in Pointers
  BY Now DEF WifiDisable, TurnOff, In, Loops
<1>2. UNCHANGED <<events, live>>
  BY DEF WifiDisable, TurnOff, outside
<1>3. CASE WifiDisable
  <2>1. running = "WifiDisable" /\ \E s \in {"Idle", "NoModules"} : Leave(s)
    BY <1>3 DEF WifiDisable, In
  <2>2. core.current \notin RadioStates
    BY <1>1, <2>1 DEF RadioStates
  <2> QED
    BY <1>2, <2>1, <2>2, Now, LeaveOK, StatesIn DEF ScheduleStates, RadioStates
<1>4. CASE TurnOff
  <2>1. core.current = "TurnOff"
    BY <1>1, <1>4 DEF TurnOff, In
  <2>2. PICK a \in Button(core) : Return(a)
    BY <1>4 DEF TurnOff
  <2>3. /\ a \in Pointers
        /\ a.current = "TurnOff" \/ (a.current \in ByButton /\ a.previous = "TurnOff")
    BY <1>1, <2>1, ButtonIs
  <2>4. Follows(a, wifi') /\ Ends(a)
    BY <2>3 DEF Follows, Ends, ByButton, RadioStates
  <2> QED
    BY <1>2, <2>2, <2>3, <2>4, Now, ReturnOK
<1> QED
  BY <1>3, <1>4

\* A turn of a loop: an event may change the state under the task.
LEMMA TurnOK ==
  ASSUME IInv, \/ ScanAttachedDevicesTurn \/ TakeReadingsTurn \/ LiveDataReadingTurn
               \/ CheckFirmwareTurn \/ FirmwareSelfFlashTurn
  PROVE Moves
<1>1. Turn /\ running \in Loops /\ UNCHANGED <<events, wifi, live>>
  BY DEF ScanAttachedDevicesTurn, TakeReadingsTurn, LiveDataReadingTurn, CheckFirmwareTurn,
     FirmwareSelfFlashTurn, In, Loops, outside, flags
<1>2. PICK a \in Alive(core) : core' = a
  BY <1>1 DEF Turn
<1>3. core \in Pointers /\ running' = running /\ running \in Pointer
  BY <1>1, Now, TypesAre DEF Turn, IInv
<1>4. /\ a \in Pointers /\ a.resume = core.resume
      /\ \/ a = core
         \/ /\ a.current \in ByButton /\ a.previous = core.current
            /\ a.current = "FactoryReset" => core.current = "FactoryResetCheck"
         \/ /\ core.current \in {"Idle", "NoModules"}
            /\ a.current \in {"LowPowerSleep", "UserWakeup", "TurnOff"}
            /\ a.previous \in {core.current, "LowPowerSleep"}
  BY <1>3, AliveIs
<1>5. OwnOK'
  BY <1>1, <1>3 DEF OwnOK
<1>6. RadioOK'
  <2>1. a # core => a.current \notin RadioStates
    BY <1>4 DEF ByButton, RadioStates
  <2>2. a # core /\ a.previous \in RadioStates => wifi
    BY <1>4, Now DEF RadioStates
  <2> QED
    BY <1>1, <1>2, <1>3, <1>4, <2>1, <2>2 DEF IInv, RadioOK, Loops
<1>7. ResumeOK'
  BY <1>1, <1>2, <1>3, <1>4 DEF IInv, ResumeOK, ByButton, InCheck, Loops
<1> QED
  BY <1>2, <1>3, <1>4, <1>5, <1>6, <1>7 DEF Moves

LEMMA RestingOK ==
  ASSUME IInv, SleepEnds \/ LowPowerSleep
  PROVE Moves
<1>1. core.current = running /\ core \in Pointers /\ UNCHANGED <<events, wifi, live>>
  BY Now DEF SleepEnds, LowPowerSleep, In, Loops, outside, flags
<1>2. CASE SleepEnds
  <2>1. running = "Sleep" /\ Return(Back(core))
    BY <1>2 DEF SleepEnds, In
  <2>2. /\ Back(core) \in Pointers /\ Back(core).current = core.previous
        /\ Back(core).previous = "Sleep"
    BY <1>1, <2>1, BackIs
  <2>3. Follows(Back(core), wifi')
    BY <1>1, <2>1, <2>2 DEF IInv, RadioOK, Follows, RadioStates
  <2>4. "live" \notin events' => ~live' /\ Ends(Back(core))
    BY <1>1, <2>1, <2>2 DEF IInv, ResumeOK, Ends
  <2> QED
    BY <2>1, <2>2, <2>3, <2>4, ReturnOK
<1>3. CASE LowPowerSleep
  <2>1. running = "LowPowerSleep"
    BY <1>3 DEF LowPowerSleep, In
  <2>2. "RebootDevice" \in Pointer /\ "LowPowerSleep" \in Pointer
        /\ "RebootDevice" \notin RadioStates /\ "LowPowerSleep" \notin RadioStates
    BY StatesIn DEF RadioStates
  <2>3. CASE Leave("RebootDevice")
    BY <1>1, <2>2, <2>3, Now, LeaveOK
  <2>4. ASSUME NEW m \in Pointers, m.current \in RadioStates => wifi, Return(Transit(m, "LowPowerSleep"))
        PROVE Moves
    <3>1. /\ Transit(m, "LowPowerSleep") \in Pointers
          /\ Transit(m, "LowPowerSleep").current = "LowPowerSleep"
          /\ Transit(m, "LowPowerSleep").previous = m.current
      BY <2>2, TransitIs
    <3>2. Follows(Transit(m, "LowPowerSleep"), wifi') /\ Ends(Transit(m, "LowPowerSleep"))
      BY <1>1, <2>2, <2>4, <3>1 DEF Follows, Ends
    <3> QED
      BY <1>1, <2>4, <3>1, <3>2, Now, ReturnOK
  <2>5. CASE Return(Transit(Back(core), "LowPowerSleep"))
    <3>1. Back(core) \in Pointers /\ Back(core).current = core.previous
      BY <1>1, BackIs
    <3>2. core.previous \in RadioStates => wifi
      BY <1>1, <2>1 DEF IInv, RadioOK
    <3> QED
      BY <2>4, <2>5, <3>1, <3>2
  <2>6. ASSUME NEW a \in Alive(core), Return(Transit(a, "LowPowerSleep"))
        PROVE Moves
    <3>1. a \in Pointers /\ Follows(a, wifi)
      BY <2>1, AliveFollows DEF Loops
    <3> QED
      BY <2>4, <2>6, <3>1 DEF Follows
  <2> QED
    BY <1>3, <2>3, <2>5, <2>6 DEF LowPowerSleep
<1> QED
  BY <1>2, <1>3

LEMMA ReadingsOK ==
  ASSUME IInv, BeginGatherReadings \/ TakeGpsReading \/ TakeReadingsEnds
  PROVE Moves
<1>1. core \in Pointers /\ UNCHANGED <<events, wifi, live>>
  BY Now DEF BeginGatherReadings, TakeGpsReading, TakeReadingsEnds, Simple, outside, flags
<1>2. "TakeGpsReading" \in Pointer /\ "TakeReadings" \in Pointer /\ "RebootDevice" \in Pointer
      /\ "TakeGpsReading" \notin RadioStates /\ "BeginGatherReadings" \notin RadioStates
      /\ "TakeReadings" \notin RadioStates /\ "RebootDevice" \notin RadioStates
  BY StatesIn DEF RadioStates
<1>3. CASE BeginGatherReadings
  <2> DEFINE m == Transit(ResumeAtBack(core), "TakeGpsReading")
  <2>1. running = "BeginGatherReadings" /\ core.current = running /\ Return(m)
    BY <1>3, Now DEF BeginGatherReadings, In, Loops
  <2>2. /\ ResumeAtBack(core) \in Pointers /\ ResumeAtBack(core).current = core.current
        /\ ResumeAtBack(core).resume = core.previous
    BY <1>1, ResumeAtBackIs
  <2>3. /\ m \in Pointers /\ m.current = "TakeGpsReading" /\ m.previous = "BeginGatherReadings"
        /\ m.resume = core.previous
    BY <1>2, <2>1, <2>2, TransitIs
  <2> HIDE DEF m
  <2>4. Follows(m, wifi')
    BY <1>1, <1>2, <2>1, <2>3 DEF IInv, RadioOK, Follows
  <2>5. "live" \notin events' => ~live' /\ Ends(m)
    BY <1>1, <2>1, <2>3 DEF IInv, ResumeOK, Ends
  <2> QED
    BY <2>1, <2>3, <2>4, <2>5, ReturnOK
<1>4. CASE TakeGpsReading
  <2> DEFINE m == Transit(core, "TakeReadings")
  <2>1. running = "TakeGpsReading" /\ core.current = running /\ Return(m)
    BY <1>4, Now DEF TakeGpsReading, Simple, Leave, In, Loops
  <2>2. /\ m \in Pointers /\ m.current = "TakeReadings" /\ m.previous = "TakeGpsReading"
        /\ m.resume = core.resume
    BY <1>1, <1>2, <2>1, TransitIs
  <2> HIDE DEF m
  <2>3. Follows(m, wifi')
    BY <1>1, <1>2, <2>1, <2>2 DEF IInv, RadioOK, Follows
  <2>4. "live" \notin events' => ~live' /\ Ends(m)
    BY <1>1, <2>1, <2>2 DEF IInv, ResumeOK, Ends
  <2> QED
    BY <2>1, <2>2, <2>3, <2>4, ReturnOK
<1>5. CASE TakeReadingsEnds
  <2>1. running = "TakeReadings"
    BY <1>5 DEF TakeReadingsEnds, In
  <2>2. CASE Leave("RebootDevice")
    BY <1>1, <1>2, <2>2, Now, LeaveOK
  <2>3. CASE Return(Resume(core))
    <3>1. /\ Resume(core) \in Pointers /\ Resume(core).current = core.resume
          /\ Resume(core).previous = core.current /\ Resume(core).resume = "null"
      BY <1>1, ResumeIs
    <3> DEFINE m == Resume(core)
    <3> HIDE DEF m
    <3>2. /\ m \in Pointers /\ m.current = core.resume
          /\ m.previous = core.current /\ m.resume = "null"
      BY <3>1 DEF m
    <3>3. {"null", "Idle", "NoModules"} \intersect RadioStates = {}
      BY DEF RadioStates
    <3>4. core.resume \in {"Idle", "NoModules"} \/ wifi
      BY <2>1 DEF IInv, RadioOK
    <3>5. Follows(m, wifi')
      BY <1>1, <2>1, <3>2, <3>3, <3>4, Now DEF IInv, RadioOK, Follows
    <3>6. "live" \notin events' => ~live' /\ Ends(m)
      BY <1>1, <2>1, <3>2 DEF IInv, ResumeOK, Ends, ScheduleStates
    <3> QED
      BY <2>3, <3>2, <3>5, <3>6, ReturnOK DEF m
  <2> QED
    BY <1>5, <2>2, <2>3 DEF TakeReadingsEnds
<1> QED
  BY <1>3, <1>4, <1>5

\* The tasks of the radio that go back: it is on, and stays so.
LEMMA GoBackOK ==
  ASSUME IInv, LiveDataReadingEnds \/ CheckFirmwareEnds \/ WifiTransmitFile
  PROVE Moves
<1>1. wifi = TRUE /\ core \in Pointers /\ UNCHANGED <<events, wifi, live>>
  BY Now, WifiIsBoolean DEF LiveDataReadingEnds, CheckFirmwareEnds, WifiTransmitFile, In, RadioStates,
     outside, flags
<1>2. /\ Back(core) \in Pointers /\ Back(core).current = core.previous
      /\ Back(core).previous = core.current
  BY <1>1, BackIs
<1>3. ASSUME NEW m \in Pointers, Return(m), "live" \notin events => Ends(m)
      PROVE Moves
  <2>1. Follows(m, wifi')
    BY <1>1 DEF Follows
  <2> QED
    BY <1>1, <1>3, <2>1, Now, ReturnOK
<1>4. CASE LiveDataReadingEnds
  <2>1. running = "LiveDataReading" /\ Return(Back(core))
    BY <1>4 DEF LiveDataReadingEnds, In
  <2> QED
    BY <1>2, <1>3, <2>1, Now
<1>5. CASE WifiTransmitFile
  <2>1. running = "WifiTransmitFile" /\ Return(Back(core))
    BY <1>5 DEF WifiTransmitFile, In
  <2>2. "live" \notin events => Ends(Back(core))
    BY <1>2, <2>1 DEF IInv, ResumeOK, Ends
  <2> QED
    BY <1>2, <1>3, <2>1, <2>2
<1>6. CASE CheckFirmwareEnds
  <2>1. running = "CheckFirmware"
    BY <1>6 DEF CheckFirmwareEnds, In
  <2>2. "live" \notin events => core.previous \in InCheck /\ core.current \in InCheck
    BY <2>1 DEF IInv, ResumeOK
  <2>3. CASE Return(core)
    <3>1. "live" \notin events => Ends(core)
      BY <2>2 DEF Ends, InCheck
    <3> QED
      BY <1>1, <1>3, <2>3, <3>1
  <2>4. CASE Return(Back(core))
    <3>1. "live" \notin events => Ends(Back(core))
      BY <1>2, <2>2 DEF Ends, InCheck
    <3> QED
      BY <1>2, <1>3, <2>4, <3>1
  <2>5. CASE \E s \in {"FirmwareSelfFlash", "UpgradeModuleFirmware"} : Leave(s)
    BY <1>1, <2>5, Now, LeaveOK, StatesIn
  <2> QED
    BY <1>6, <2>3, <2>4, <2>5 DEF CheckFirmwareEnds
<1> QED
  BY <1>4, <1>5, <1>6

\* Serving an app is a wait for the schedule too, and the only place of live data.
LEMMA ServeOK ==
  ASSUME IInv, WifiListening \/ WifiCaptiveListening
  PROVE Moves
<1>1. /\ running \in RadioStates /\ running \notin Loops /\ Serve
      /\ UNCHANGED <<events, wifi>>
  BY DEF WifiListening, WifiCaptiveListening, Serve, In, RadioStates, Loops, outside
<1>2. wifi = TRUE /\ live \in BOOLEAN
  BY <1>1, Now, WifiIsBoolean
<1>3. CASE Leave("AppServicer") /\ UNCHANGED live
  BY <1>1, <1>2, <1>3, Now, LeaveOK, StatesIn DEF RadioStates
<1>4. ASSUME NEW a \in Alive(core), NEW s \in ScheduledTasks(a)
      PROVE s \in Pointers /\ ("live" \notin events => Ends(s))
  BY <1>1, <1>2, <1>4, AliveFollows, ScheduledFollows
<1>5. ASSUME NEW a \in Alive(core), NEW s \in ScheduledTasks(a), Return(s), live' \in {live, FALSE}
      PROVE Moves
  <2>1. Follows(s, wifi')
    BY <1>1, <1>2 DEF Follows
  <2> QED
    <3>1. ~live => ~live'
      BY <1>5
    <3> QED
      BY <1>1, <1>4, <1>5, <2>1, <3>1, Now, ReturnOK
<1>6. ASSUME NEW a \in Alive(core), NEW s \in ScheduledTasks(a), live,
             Return(Transit(s, "LiveDataReading"))
      PROVE Moves
  <2>1. "live" \in events
    BY <1>6, Now
  <2>2. Transit(s, "LiveDataReading") \in Pointers
    BY <1>4, <1>6, StatesIn, TransitIs DEF RadioStates
  <2>3. Follows(Transit(s, "LiveDataReading"), wifi')
    BY <1>1, <1>2 DEF Follows
  <2> QED
    BY <1>1, <1>6, <2>1, <2>2, <2>3, ReturnOK
<1> QED
  BY <1>1, <1>3, <1>5, <1>6 DEF Serve

LEMMA StillOK ==
  ASSUME IInv, ConsoleAttaches \/ HandsOff \/ UNCHANGED vars
  PROVE Moves
<1>1. UNCHANGED <<events, core, running, wifi, live>>
  BY DEF ConsoleAttaches, HandsOff, flags, vars
<1> QED
  BY <1>1, TypesAre DEF IInv, OwnOK, RadioOK, ResumeOK, Moves

LEMMA PointersOK ==
  ASSUME IInv, [Next]_vars
  PROVE Moves
<1>1. CASE Start
  BY <1>1, StartOK, AwakeOK, StartSystemOK DEF Start
<1>2. CASE StartSystemFails
  BY <1>2, StartOK
<1>3. CASE Rest
  BY <1>3, AwakeOK, RestingOK, WifiOK, SwitchOffOK DEF Rest
<1>4. CASE Readings
  BY <1>4, ReadingsOK, GoBackOK DEF Readings
<1>5. CASE WifiTask
  BY <1>5, WifiOK, WifiTasksOK, SwitchOffOK, GoBackOK DEF WifiTask
<1>6. CASE Waits
  BY <1>6, TurnOK, AwakeOK, ServeOK DEF Waits
<1>7. CASE ConsoleAttaches \/ HandsOff \/ UNCHANGED vars
  BY <1>7, StillOK
<1> QED
  BY <1>1, <1>2, <1>3, <1>4, <1>5, <1>6, <1>7 DEF Next

-----------------------------------------------------------------------------
(* The other types *)

LEMMA FlagsOK ==
  ASSUME IInv, [Next]_vars
  PROVE FlagsTyped'
<1> USE DEF FlagsTyped, outside, flags
<1>0. FlagsTyped
  BY TypesAre DEF IInv
<1>1. CASE Restart
  BY <1>0, <1>1 DEF Restart
<1>2. CASE Booting \/ FactoryResetCheck \/ FactoryReset \/ StartSystem \/ Initialized \/ CheckPower
  BY <1>0, <1>2 DEF Booting, FactoryResetCheck, FactoryReset, StartSystem, Initialized, CheckPower, Simple
<1>3. CASE FirmwareHealthCheck \/ ScanAttachedDevices \/ Idle \/ SleepEnds \/ LowPowerSleep \/ NoModules
  BY <1>0, <1>3 DEF FirmwareHealthCheck, ScanAttachedDevices, Idle, SleepEnds, LowPowerSleep, NoModules
<1>4. CASE UserWakeup \/ TurnOff \/ Readings \/ Waits
  <2>1. CASE UserWakeup \/ TurnOff \/ Readings
    BY <1>0, <2>1 DEF UserWakeup, TurnOff, Readings, BeginGatherReadings, TakeGpsReading,
       TakeReadingsEnds, LiveDataReadingEnds, Simple
  <2>2. CASE WifiListening \/ WifiCaptiveListening
    BY <1>0, <2>2 DEF WifiListening, WifiCaptiveListening, Serve
  <2>3. CASE ScanAttachedDevicesTurn \/ SleepTurn \/ TakeReadingsTurn \/ LiveDataReadingTurn
             \/ CheckFirmwareTurn \/ FirmwareSelfFlashTurn
    BY <1>0, <2>3 DEF ScanAttachedDevicesTurn, SleepTurn, TakeReadingsTurn, LiveDataReadingTurn,
       CheckFirmwareTurn, FirmwareSelfFlashTurn
  <2> QED
    BY <1>4, <2>1, <2>2, <2>3 DEF Waits
<1>5. CASE WifiStartup \/ WifiTryNetwork \/ WifiCreateAp \/ WifiDisable \/ CheckAllAttachedFirmware
           \/ CheckFirmwareEnds \/ UpgradeModuleFirmware
  BY <1>0, <1>5 DEF WifiStartup, WifiTryNetwork, WifiCreateAp, WifiDisable, CheckAllAttachedFirmware,
     CheckFirmwareEnds, UpgradeModuleFirmware, Simple
<1>6. CASE WifiTransmitFiles \/ WifiTransmitFile \/ AppServicer \/ WifiDownloadFile \/ WifiQueryModule
           \/ WifiConnectionCompleted \/ WifiListeningEnds \/ WifiCaptiveListeningEnds
  BY <1>0, <1>6 DEF WifiTransmitFiles, WifiTransmitFile, AppServicer, WifiDownloadFile, WifiQueryModule,
     WifiConnectionCompleted, WifiListeningEnds, WifiCaptiveListeningEnds, Simple
<1>7. CASE ConsoleAttaches \/ HandsOff \/ UNCHANGED vars
  BY <1>0, <1>7 DEF ConsoleAttaches, HandsOff, vars
<1>8. CASE RebootDevice \/ FirmwareSelfFlash \/ NullState \/ StartSystemFails
  BY <1>0, <1>1, <1>8 DEF RebootDevice, FirmwareSelfFlash, NullState, StartSystemFails
<1> QED
  BY <1>2, <1>3, <1>4, <1>5, <1>6, <1>7, <1>8 DEF Next, Start, Rest, WifiTask

LEMMA StartingOK ==
  ASSUME IndexTyped, NEW s \in Indexed, NEW i,
         s = "WifiTryNetwork" => i \in 0 .. Networks,
         s = "CheckAllAttachedFirmware" => i \in 0 .. Modules + 2,
         s = "WifiTransmitFiles" => i \in 0 .. Transmissions,
         Starting(s, i)
  PROVE IndexTyped'
  BY DEF IndexTyped, Starting, Indexed

LEMMA IndexOK ==
  ASSUME IInv, [Next]_vars
  PROVE IndexTyped'
<1>0. IndexTyped
  BY TypesAre DEF IInv
<1>1. CASE Restart
  BY <1>1, ZeroIndex DEF Restart, IndexTyped
<1>2. CASE WifiStartup
  BY <1>0, <1>2, StartingOK, CoreAssumption DEF WifiStartup, IndexTyped, Indexed
<1>3. CASE WifiTryNetwork
  <2> DEFINE i == index["WifiTryNetwork"]
  <2>1. i \in 0 .. Networks
    BY <1>0 DEF IndexTyped
  <2>2. \/ UNCHANGED index
        \/ i < Networks /\ Starting("WifiTryNetwork", i + 1)
        \/ Starting("CheckAllAttachedFirmware", 0)
    BY <1>3 DEF WifiTryNetwork
  <2> HIDE DEF i
  <2>3. i < Networks => i + 1 \in 0 .. Networks
    BY <2>1, CoreAssumption
  <2>4. 0 \in 0 .. Modules + 2
    BY CoreAssumption
  <2> QED
    BY <1>0, <2>2, <2>3, <2>4, StartingOK DEF IndexTyped, Indexed
<1>4. CASE CheckAllAttachedFirmware
  <2> DEFINE i == index["CheckAllAttachedFirmware"]
  <2>1. i \in 0 .. Modules + 2
    BY <1>0 DEF IndexTyped
  <2>2. \/ UNCHANGED index
        \/ i <= Modules /\ Starting("CheckAllAttachedFirmware", i + 1)
    BY <1>4 DEF CheckAllAttachedFirmware
  <2> HIDE DEF i
  <2>3. i <= Modules => i + 1 \in 0 .. Modules + 2
    BY <2>1, CoreAssumption
  <2> QED
    BY <1>0, <2>2, <2>3, StartingOK DEF IndexTyped, Indexed
<1>5. CASE WifiTransmitFiles
  <2> DEFINE i == index["WifiTransmitFiles"]
  <2>1. i \in 0 .. Transmissions
    BY <1>0 DEF IndexTyped
  <2>2. \/ Starting("WifiTransmitFiles", 0)
        \/ i # Transmissions /\ Starting("WifiTransmitFiles", i + 1)
    BY <1>5 DEF WifiTransmitFiles
  <2> HIDE DEF i
  <2>3. 0 \in 0 .. Transmissions /\ (i # Transmissions => i + 1 \in 0 .. Transmissions)
    BY <2>1 DEF Transmissions
  <2> QED
    BY <1>0, <2>2, <2>3, StartingOK DEF Indexed
<1>6. Restart \/ WifiStartup \/ WifiTryNetwork \/ CheckAllAttachedFirmware \/ WifiTransmitFiles
        \/ UNCHANGED index
  <2> USE DEF flags
  <2>1. CASE Start \/ StartSystemFails
    BY <2>1 DEF Start, StartSystemFails, Booting, FactoryResetCheck, FactoryReset, StartSystem,
       Initialized, CheckPower, FirmwareHealthCheck, ScanAttachedDevices, RebootDevice,
       FirmwareSelfFlash, NullState, Simple
  <2>2. CASE Rest \/ Readings
    BY <2>2 DEF Rest, Readings, Idle, SleepEnds, LowPowerSleep, NoModules, UserWakeup, TurnOff,
       BeginGatherReadings, TakeGpsReading, TakeReadingsEnds, LiveDataReadingEnds, Simple
  <2>3. CASE WifiTask
    BY <2>3 DEF WifiTask, WifiCreateAp, WifiDisable, CheckFirmwareEnds, UpgradeModuleFirmware,
       WifiTransmitFile, AppServicer, WifiDownloadFile, WifiQueryModule, WifiConnectionCompleted,
       WifiListeningEnds, WifiCaptiveListeningEnds, Simple
  <2>4. CASE Waits
    BY <2>4 DEF Waits, ScanAttachedDevicesTurn, SleepTurn, TakeReadingsTurn, LiveDataReadingTurn,
       CheckFirmwareTurn, FirmwareSelfFlashTurn, WifiListening, WifiCaptiveListening, Serve
  <2>5. CASE ConsoleAttaches \/ HandsOff \/ UNCHANGED vars
    BY <2>5 DEF ConsoleAttaches, HandsOff, vars
  <2> QED
    BY <2>1, <2>2, <2>3, <2>4, <2>5 DEF Next
<1>7. CASE UNCHANGED index
  BY <1>0, <1>7 DEF IndexTyped
<1> QED
  BY <1>1, <1>2, <1>3, <1>4, <1>5, <1>6, <1>7

-----------------------------------------------------------------------------
(* The theorems *)

LEMMA Inductive ==
  ASSUME IInv, [Next]_vars
  PROVE IInv'
<1>1. Moves
  BY PointersOK
<1> QED
  BY <1>1, FlagsOK, IndexOK, TypesAreNext DEF Moves, IInv

LEMMA IInvAlways == Spec => []IInv
<1>1. Init => IInv
  BY InitOK
<1>2. IInv /\ [Next]_vars => IInv'
  BY Inductive
<1> QED
  BY <1>1, <1>2, PTL DEF Spec

(***************************************************************************)
(* Every pointer of tinyfsm is to a state or null, the state that runs is  *)
(* one, and the indices of the three states that go through a list stay in *)
(* it, or one past its end.                                                *)
(***************************************************************************)
THEOREM TypeCorrect == Spec => []TypeOK
<1>1. IInv => TypeOK
  BY DEF IInv
<1> QED
  BY <1>1, IInvAlways, PTL

(***************************************************************************)
(* A state that uses the Wifi radio runs only while it is enabled, however *)
(* WifiDisable, TurnOff, back() and resume() follow each other, with live  *)
(* data too: the radio is off only where no pointer leads to such a state. *)
(***************************************************************************)
THEOREM RadioOnWhenUsedSafe == Spec => []RadioOnWhenUsed
<1>1. IInv => RadioOnWhenUsed
  BY DEF IInv, RadioOK, RadioOnWhenUsed
<1> QED
  BY <1>1, IInvAlways, PTL

(***************************************************************************)
(* Without live data, TakeReadings resumes a state that the schedule       *)
(* interrupts: no event is dispatched between the transition of the        *)
(* schedule and BeginGatherReadings, which takes previous_state_ptr.       *)
(***************************************************************************)
THEOREM ResumesWhereScheduledSafe == Spec => []ResumesWhereScheduled
<1>1. IInv => ResumesWhereScheduled
  BY DEF IInv, ResumeOK, ResumesWhereScheduled
<1> QED
  BY <1>1, IInvAlways, PTL
=============================================================================
