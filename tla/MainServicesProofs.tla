-------------------------- MODULE MainServicesProofs --------------------------
(***************************************************************************)
(* Proofs about MainServices for every set of scenarios, any number of     *)
(* sensors and readings, and any reading number: that its state is well    *)
(* typed, and its five invariants.                                         *)
(*                                                                         *)
(* The button and the LED share nothing with the rest but the animations   *)
(* others push and cancel; ButtonInv is inductive by itself.  CoreSafe is  *)
(* the rest: types, the scan, the list it makes, and the reading number.   *)
(***************************************************************************)
EXTENDS MainServices, TLAPS

-----------------------------------------------------------------------------
(* The LED *)

LEMMA AnimationsAre ==
  /\ Animations = {"None", "Wifi", "Alive", "Readings", "Button"}
  /\ priority["None"] = 0 /\ priority["Wifi"] = 20 /\ priority["Alive"] = 25
  /\ priority["Readings"] = 30 /\ priority["Button"] = 200
  BY DEF Animations, priority

LEMMA SlotsAre == Slots = {1, 2, 3} /\ ActiveSize = 3
  BY DEF Slots, ActiveSize

LEMMA FirstIsIn ==
  ASSUME NEW S \in SUBSET {1, 2, 3}, S # {}
  PROVE First(S) \in S
<1>1. \E i \in S : \A j \in S : i <= j
  <2>1. CASE 1 \in S
    BY <2>1
  <2>2. CASE 1 \notin S /\ 2 \in S
    BY <2>2
  <2>3. CASE 1 \notin S /\ 2 \notin S
    <3>1. S = {3}
      BY <2>3
    <3> QED
      BY <3>1
  <2> QED
    BY <2>1, <2>2, <2>3
<1> QED
  BY <1>1 DEF First

\* An animation only takes a slot of its own, a free one, or one of a lower priority.
LEMMA AvailableGivesWay ==
  ASSUME LedsTypeOK, NEW kind \in Animations, NEW i \in Available(kind)
  PROVE /\ i \in Slots
        /\ \/ active[i].kind = kind \/ active[i].kind = "None"
           \/ priority[active[i].kind] < priority[kind]
<1> DEFINE lower == {j \in Slots : priority[active[j].kind] < priority[kind]}
           choices == <<Holds(active, kind), Holds(active, "None"), lower>>
           usable == {c \in DOMAIN choices : choices[c] # {}}
<1>1. DOMAIN active = {1, 2, 3}
  BY SlotsAre DEF LedsTypeOK
<1>2. /\ choices[1] = {j \in {1, 2, 3} : active[j].kind = kind}
      /\ choices[2] = {j \in {1, 2, 3} : active[j].kind = "None"}
      /\ choices[3] = {j \in {1, 2, 3} : priority[active[j].kind] < priority[kind]}
      /\ DOMAIN choices = {1, 2, 3}
  BY <1>1, SlotsAre DEF Holds
<1>3. usable # {} /\ i = First(choices[First(usable)])
  BY DEF Available
<1> HIDE DEF choices
<1>4. First(usable) \in usable
  BY <1>2, <1>3, FirstIsIn
<1>5. \A c \in usable : choices[c] \in SUBSET {1, 2, 3} /\ choices[c] # {}
  BY <1>2
<1>6. i \in choices[First(usable)]
  BY <1>3, <1>4, <1>5, FirstIsIn
<1> QED
  BY <1>2, <1>4, <1>6, SlotsAre

\* Nothing has a higher priority than the button: it always finds a slot.
LEMMA ButtonIsAvailable ==
  ASSUME LedsTypeOK
  PROVE Available("Button") # {}
<1> DEFINE lower == {j \in Slots : priority[active[j].kind] < priority["Button"]}
           choices == <<Holds(active, "Button"), Holds(active, "None"), lower>>
           usable == {c \in DOMAIN choices : choices[c] # {}}
<1>1. DOMAIN choices = {1, 2, 3} /\ choices[1] = Holds(active, "Button") /\ choices[3] = lower
  OBVIOUS
<1>2. active[1].kind = "Button" \/ priority[active[1].kind] < priority["Button"]
  BY AnimationsAre, SlotsAre DEF LedsTypeOK
<1>3. choices[1] # {} \/ choices[3] # {}
  BY <1>1, <1>2, SlotsAre DEF Holds, LedsTypeOK
<1> QED
  BY <1>1, <1>3 DEF Available

\* The LED has the button's animation, or has it not but by a copy.
Lit == Holds(active, "Button") # {}
Out == Holds(active, "Button") = {} \/ copied
DoneIsAlive == \A i \in Slots : active[i].done => active[i].kind = "Alive"

LEMMA LitMeans ==
  ASSUME LedsTypeOK
  PROVE /\ Lit <=> \E i \in Slots : active[i].kind = "Button"
        /\ Out <=> copied \/ \A i \in Slots : active[i].kind # "Button"
  BY DEF LedsTypeOK, Lit, Out, Holds

LEMMA LitMeansNext ==
  ASSUME LedsTypeOK'
  PROVE /\ Lit' <=> \E i \in Slots : active'[i].kind = "Button"
        /\ Out' <=> copied' \/ \A i \in Slots : active'[i].kind # "Button"
  BY DEF LedsTypeOK, Lit, Out, Holds

LEMMA PushedType ==
  ASSUME LedsTypeOK, NEW kind \in Animations, NEW enabled \in BOOLEAN
  PROVE Pushed(kind, enabled) \in [Slots -> [kind : Animations, done : BOOLEAN]]
  BY DEF LedsTypeOK, Pushed

\* What is pushed besides the button's animation neither takes its slot nor brings it back.
LEMMA PushKeeps ==
  ASSUME LedsTypeOK, NEW kind \in Animations \ {"Button"}, Push(kind)
  PROVE /\ LedsTypeOK'
        /\ DoneIsAlive => DoneIsAlive'
        /\ Lit => Lit'
        /\ Out => Out'
<1>1. LedsTypeOK'
  BY PushedType DEF Push, LedsTypeOK
<1>2. \A i \in Slots : active[i].kind = "Button" => active'[i] = active[i]
  <2> SUFFICES ASSUME NEW i \in Slots, active[i].kind = "Button"
               PROVE i \notin Available(kind)
    BY DEF Push, Pushed
  <2> QED
    BY AvailableGivesWay, AnimationsAre
<1>3. \A i \in Slots : active'[i] = active[i] \/ active'[i] = [kind |-> kind, done |-> FALSE]
  BY DEF Push, Pushed
<1>4. copied' = copied
  BY DEF Push
<1> QED
  BY <1>1, <1>2, <1>3, <1>4, LitMeans, LitMeansNext DEF DoneIsAlive

LEMMA ButtonLights ==
  ASSUME LedsTypeOK, active' = Pushed("Button", TRUE), recent' \in BOOLEAN, copied' = copied
  PROVE /\ LedsTypeOK'
        /\ DoneIsAlive => DoneIsAlive'
        /\ Lit'
<1>1. LedsTypeOK'
  BY PushedType, AnimationsAre DEF LedsTypeOK
<1>2. PICK i \in Available("Button") : TRUE
  BY ButtonIsAvailable
<1>3. i \in Slots
  BY <1>2, AvailableGivesWay, AnimationsAre
<1>4. active'[i].kind = "Button"
  BY <1>2, <1>3 DEF Pushed
<1>5. \A j \in Slots : active'[j] = active[j] \/ active'[j].done = FALSE
  BY DEF Pushed
<1>6. DoneIsAlive => DoneIsAlive'
  <2> SUFFICES ASSUME DoneIsAlive, NEW j \in Slots, active'[j].done
               PROVE active'[j].kind = "Alive"
    BY DEF DoneIsAlive
  <2>1. active'[j] = active[j]
    BY <1>5
  <2> QED
    BY <2>1 DEF DoneIsAlive
<1>7. Lit'
  BY <1>1, <1>3, <1>4, LitMeansNext
<1> QED
  BY <1>1, <1>6, <1>7

\* The copy that cancel makes is the only way the button's animation survives its own cancel.
LEMMA CancelKeeps ==
  ASSUME LedsTypeOK, NEW kind \in Animations, Cancel(kind)
  PROVE /\ LedsTypeOK'
        /\ DoneIsAlive => DoneIsAlive'
        /\ kind # "Button" /\ Lit => Lit'
        /\ kind = "Button" \/ Out => Out'
<1>1. \A i \in Slots :
        active'[i] = IF active[i].kind # kind THEN active[i]
                     ELSE IF i < ActiveSize THEN active[ActiveSize] ELSE Empty
  BY DEF Cancel, Cancelled
<1>2. active' \in [Slots -> [kind : Animations, done : BOOLEAN]]
  BY SlotsAre, AnimationsAre DEF Cancel, Cancelled, LedsTypeOK, Empty
<1>3. LedsTypeOK'
  BY <1>2 DEF LedsTypeOK, Cancel
<1>4. DoneIsAlive => DoneIsAlive'
  BY <1>1, SlotsAre DEF DoneIsAlive, Empty
<1>5. kind # "Button" /\ Lit => Lit'
  BY <1>1, <1>3, LitMeans, LitMeansNext
<1>6. ASSUME NEW i \in Slots, active'[i].kind = "Button"
      PROVE Holds(active', "Button") # {}
  BY <1>2, <1>6 DEF Holds
<1>7. kind = "Button" \/ Out => Out'
  <2> SUFFICES ASSUME kind = "Button" \/ Out, NEW i \in Slots, active'[i].kind = "Button"
               PROVE copied'
    BY <1>3, LitMeansNext
  <2>1. CASE kind = "Button"
    <3>1. i \in Holds(active, kind)
      BY <1>1, <2>1 DEF Holds, LedsTypeOK
    <3> QED
      BY <3>1, <1>6 DEF Cancel
  <2>2. CASE kind # "Button" /\ Out
    <3>1. \E j \in Slots : active[j].kind = "Button"
      BY <1>1, <2>2, SlotsAre DEF Empty
    <3>2. copied
      BY <2>2, <3>1, LitMeans
    <3> QED
      BY <3>2, <1>6 DEF Cancel
  <2> QED
    BY <2>1, <2>2
<1> QED
  BY <1>3, <1>4, <1>5, <1>7

\* A pass over the slots frees those that are done, which the button's animation never is.
LEMMA LedsTaskKeeps ==
  ASSUME LedsTypeOK, LedsTask
  PROVE /\ LedsTypeOK'
        /\ DoneIsAlive => DoneIsAlive'
        /\ DoneIsAlive /\ Lit => Lit'
        /\ Out => Out'
<1>1. PICK expired \in SUBSET {i \in Updated : active[i].kind = "Alive"} :
        active' = [i \in Slots |-> IF active[i].done THEN Empty
                                   ELSE [active[i] EXCEPT !.done = i \in expired]]
  BY DEF LedsTask
<1>2. \A i \in expired : i \in Slots /\ active[i].kind = "Alive"
  BY <1>1 DEF Updated, Live
<1>3. \A i \in Slots : active[i] \in [kind : Animations, done : BOOLEAN]
  BY DEF LedsTypeOK
<1>0. Empty.kind = "None" /\ Empty.done = FALSE /\ Empty \in [kind : Animations, done : BOOLEAN]
  BY AnimationsAre DEF Empty
<1>4. \A i \in Slots :
        /\ active[i].done => active'[i] = Empty
        /\ ~active[i].done => /\ active'[i] = [active[i] EXCEPT !.done = i \in expired]
                              /\ active'[i].kind = active[i].kind
                              /\ active'[i].done = (i \in expired)
  BY <1>1, <1>3
<1>5. active' \in [Slots -> [kind : Animations, done : BOOLEAN]]
  <2>1. ASSUME NEW i \in Slots
        PROVE active'[i] \in [kind : Animations, done : BOOLEAN]
    <3>1. CASE active[i].done
      BY <1>0, <1>4, <3>1
    <3>2. CASE ~active[i].done
      <4>1. (i \in expired) \in BOOLEAN
        OBVIOUS
      <4> QED
        BY <1>1, <1>3, <3>2, <4>1
    <3> QED
      BY <3>1, <3>2
  <2> QED
    BY <1>1, <2>1
<1>6. LedsTypeOK'
  BY <1>5 DEF LedsTypeOK, LedsTask
<1>7. DoneIsAlive'
  <2> SUFFICES ASSUME NEW i \in Slots, active'[i].done
               PROVE active'[i].kind = "Alive"
    BY DEF DoneIsAlive
  <2>1. CASE active[i].done
    BY <1>0, <1>4, <2>1
  <2>2. CASE ~active[i].done
    BY <1>2, <1>4, <2>2
  <2> QED
    BY <2>1, <2>2
<1>8. DoneIsAlive /\ Lit => Lit'
  BY <1>4, <1>6, LitMeans, LitMeansNext DEF DoneIsAlive
<1>9. Out => Out'
  <2> SUFFICES ASSUME Out, NEW i \in Slots, active'[i].kind = "Button"
               PROVE copied'
    BY <1>6, LitMeansNext
  <2>1. ~active[i].done
    BY <1>0, <1>4
  <2>2. active[i].kind = "Button"
    BY <1>4, <2>1
  <2>3. copied
    BY <2>2, LitMeans
  <2>4. Holds(active', "Button") # {}
    BY <1>5 DEF Holds
  <2> QED
    BY <2>3, <2>4 DEF LedsTask
<1> QED
  BY <1>6, <1>7, <1>8, <1>9

-----------------------------------------------------------------------------
(* What a step touches *)

\* What the core and the services do to the LED, but for the button.
OtherLed == UNCHANGED ledVars \/ \E kind \in Animations \ {"Button"} : Push(kind) \/ Cancel(kind)

LEMMA CoreIsNotTheButton ==
  ASSUME Core
  PROVE Reset \/ (UNCHANGED buttonVars /\ OtherLed)
<1>1. CASE Start \/ Scan \/ Scanning \/ Rescan \/ Configure \/ Format \/ Poll \/ QueryGivesUp
  BY <1>1 DEF Start, Scan, Scanning, Rescan, Configure, Format, Poll, QueryGivesUp, OtherLed
<1>2. CASE BeginReadings \/ BeginLive \/ Gather \/ ReadingsEnd \/ FactoryReset
  BY <1>2 DEF BeginReadings, BeginLive, Gather, ReadingsEnd, FactoryReset, OtherLed
<1>3. CASE Scanned \/ WifiStarts \/ WifiEnds
  BY <1>3, AnimationsAre DEF Scanned, WifiStarts, WifiEnds, OtherLed
<1>4. CASE GatherBegins \/ GatherNothing \/ GatherEnds
  BY <1>4, AnimationsAre DEF GatherBegins, GatherNothing, GatherEnds, OtherLed
<1>5. CASE Reboot \/ GatherFails \/ WatchdogBites
  BY <1>5 DEF Reboot, GatherFails, WatchdogBites
<1> QED
  BY <1>1, <1>2, <1>3, <1>4, <1>5 DEF Core

LEMMA OtherLedKeeps ==
  ASSUME LedsTypeOK, OtherLed
  PROVE /\ LedsTypeOK'
        /\ DoneIsAlive => DoneIsAlive'
        /\ Lit => Lit'
        /\ Out => Out'
<1>1. CASE UNCHANGED ledVars
  BY <1>1 DEF ledVars, LedsTypeOK, DoneIsAlive, Lit, Out, Holds
<1>2. ASSUME NEW kind \in Animations \ {"Button"}, Push(kind)
      PROVE LedsTypeOK' /\ (DoneIsAlive => DoneIsAlive') /\ (Lit => Lit') /\ (Out => Out')
  BY <1>2, PushKeeps
<1>3. ASSUME NEW kind \in Animations \ {"Button"}, Cancel(kind)
      PROVE LedsTypeOK' /\ (DoneIsAlive => DoneIsAlive') /\ (Lit => Lit') /\ (Out => Out')
  BY <1>3, CancelKeeps
<1> QED
  BY <1>1, <1>2, <1>3 DEF OtherLed

\* Every step, as the button and the LED see it.
LEMMA ButtonView ==
  ASSUME [Next]_vars
  PROVE \/ Reset
        \/ at = "out" /\ UNCHANGED buttonVars /\ (OtherLed \/ LedsTask \/ Disabled)
        \/ UNCHANGED buttonVars /\ UNCHANGED ledVars
        \/ (HandlerPressed \/ HandlerReleased \/ Hold) /\ UNCHANGED ledVars
        \/ ButtonTask \/ ButtonStep
<1>1. CASE Core
  BY <1>1, CoreIsNotTheButton DEF Core
<1>2. CASE Restart \/ Fix
  BY <1>2 DEF Restart, Fix
<1>3. CASE Press \/ Button
  BY <1>3 DEF Press, Button
<1>4. CASE Led \/ Quiet
  BY <1>4 DEF Led, Quiet
<1>5. CASE Watchdog
  BY <1>5, AnimationsAre DEF Watchdog, NotifyAlive, OtherLed
<1>6. CASE UNCHANGED vars
  BY <1>6 DEF vars
<1> QED
  BY <1>1, <1>2, <1>3, <1>4, <1>5, <1>6 DEF Next

-----------------------------------------------------------------------------
(* The button *)

Earned ==
  /\ pending = "Long" => held = "long"
  /\ pending = "Short" => held # "tap"

\* A press that goes on is as old as changedAt_ says; so is one that ended outside the task.
PressOK ==
  /\ pressed => since = held
  /\ pressed \/ raced = "no" => Earned
  /\ at \in {"long", "short"} /\ raced = "no" => pressed

\* What the LED shows of the button, at each place of the task that no handler has run into.
FollowOK ==
  /\ DoneIsAlive
  /\ at \in {"out", "changed", "down", "long", "short"} /\ raced = "no" =>
       IF wasPressed THEN Lit ELSE Out
  /\ at = "changed" /\ raced = "no" => wasPressed # pressed
  /\ at = "released" /\ raced # "now" => ~pressed /\ Out
  /\ at = "seen" /\ raced = "no" => IF pressed THEN Lit ELSE Out
  /\ at \in {"down", "long", "short"} /\ raced = "no" => wasPressed = pressed

ButtonInv == LedsTypeOK /\ ButtonTypeOK /\ PressOK /\ FollowOK

LEMMA DarkIsOut == active = Dark => DoneIsAlive /\ Out /\ Holds(active, "Button") = {}
  BY DEF Dark, Empty, DoneIsAlive, Out, Holds

LEMMA DarkNextIsOut == active' = Dark => DoneIsAlive' /\ Out'
  BY DEF Dark, Empty, DoneIsAlive, Out, Holds

LEMMA DarkType == Dark \in [Slots -> [kind : Animations, done : BOOLEAN]]
  BY AnimationsAre DEF Dark, Empty

LEMMA ButtonStarts ==
  ASSUME Init
  PROVE ButtonInv
<1>1. LedsTypeOK
  BY DarkType DEF Init, LedsInit, LedsTypeOK
<1>2. ButtonTypeOK
  BY DEF Init, ButtonInit, ButtonTypeOK, Pending, Places, Durations
<1>3. PressOK
  BY DEF Init, ButtonInit, PressOK, Earned
<1>4. FollowOK
  BY DarkIsOut DEF Init, ButtonInit, LedsInit, FollowOK
<1> QED
  BY <1>1, <1>2, <1>3, <1>4 DEF ButtonInv

LEMMA ResetKeepsButton ==
  ASSUME ButtonInv, Reset
  PROVE ButtonInv'
<1>1. LedsTypeOK'
  BY DarkType DEF Reset, LedsTypeOK
<1>2. ButtonTypeOK'
  BY DEF Reset, ButtonInv, ButtonTypeOK, Pending, Places, Durations
<1>3. PressOK'
  BY DEF Reset, PressOK, Earned
<1>4. FollowOK'
  BY DarkNextIsOut DEF Reset, FollowOK
<1> QED
  BY <1>1, <1>2, <1>3, <1>4 DEF ButtonInv

LEMMA LedKeepsButton ==
  ASSUME ButtonInv, UNCHANGED buttonVars, OtherLed \/ LedsTask \/ Disabled
  PROVE ButtonInv'
<1>1. ButtonTypeOK' /\ PressOK'
  BY DEF ButtonInv, ButtonTypeOK, PressOK, Earned, buttonVars
<1>2. LedsTypeOK' /\ DoneIsAlive' /\ (Lit => Lit') /\ (Out => Out')
  <2>1. CASE OtherLed
    BY <2>1, OtherLedKeeps DEF ButtonInv, FollowOK
  <2>2. CASE LedsTask
    BY <2>2, LedsTaskKeeps DEF ButtonInv, FollowOK
  <2>3. CASE Disabled
    BY <2>3 DEF Disabled, ButtonInv, FollowOK, LedsTypeOK, DoneIsAlive, Lit, Out, Holds
  <2> QED
    BY <2>1, <2>2, <2>3
<1>3. FollowOK'
  BY <1>2 DEF ButtonInv, FollowOK, buttonVars
<1> QED
  BY <1>1, <1>2, <1>3 DEF ButtonInv

LEMMA StillLed ==
  ASSUME LedsTypeOK, UNCHANGED ledVars
  PROVE LedsTypeOK' /\ DoneIsAlive' = DoneIsAlive /\ Lit' = Lit /\ Out' = Out
  BY DEF ledVars, LedsTypeOK, DoneIsAlive, Lit, Out, Holds

\* A handler outside the task leaves what the task knows; inside, the race is known.
LEMMA HandlerKeepsButton ==
  ASSUME ButtonInv, HandlerPressed \/ HandlerReleased \/ Hold, UNCHANGED ledVars
  PROVE ButtonInv'
<1> USE DEF ButtonInv
<1>1. LedsTypeOK' /\ DoneIsAlive' = DoneIsAlive /\ Lit' = Lit /\ Out' = Out
  BY StillLed
<1>2. ButtonTypeOK'
  BY DEF HandlerPressed, HandlerReleased, Hold, Interrupts, ButtonTypeOK, Pending, Durations
<1>3. PressOK'
  BY DEF HandlerPressed, HandlerReleased, Hold, Interrupts, ButtonTypeOK, PressOK, Earned, Durations
<1>4. FollowOK'
  BY <1>1 DEF HandlerPressed, HandlerReleased, Hold, Interrupts, ButtonTypeOK, FollowOK
<1> QED
  BY <1>1, <1>2, <1>3, <1>4

LEMMA TaskKeepsButton ==
  ASSUME ButtonInv, ButtonTask
  PROVE ButtonInv'
<1> USE DEF ButtonInv
<1>1. LedsTypeOK' /\ DoneIsAlive' = DoneIsAlive /\ Lit' = Lit /\ Out' = Out
  BY StillLed DEF ButtonTask
<1>2. ButtonTypeOK'
  BY DEF ButtonTask, buttonRead, ButtonTypeOK, Places
<1>3. PressOK'
  BY DEF ButtonTask, buttonRead, ButtonTypeOK, PressOK, Earned
<1>4. FollowOK'
  BY <1>1 DEF ButtonTask, buttonRead, ButtonTypeOK, FollowOK
<1> QED
  BY <1>1, <1>2, <1>3, <1>4

LEMMA NoticePressedKeepsButton ==
  ASSUME ButtonInv, NoticePressed
  PROVE ButtonInv'
<1> USE DEF ButtonInv
<1>1. LedsTypeOK' /\ DoneIsAlive' /\ Lit'
  BY ButtonLights DEF NoticePressed, FollowOK
<1>2. ButtonTypeOK'
  BY DEF NoticePressed, Settles, buttonRead, ButtonTypeOK, Places
<1>3. PressOK'
  BY DEF NoticePressed, Settles, buttonRead, ButtonTypeOK, PressOK, Earned
<1>4. FollowOK'
  BY <1>1 DEF NoticePressed, Settles, buttonRead, ButtonTypeOK, FollowOK
<1> QED
  BY <1>1, <1>2, <1>3, <1>4

LEMMA NoticeReleasedKeepsButton ==
  ASSUME ButtonInv, NoticeReleased
  PROVE ButtonInv'
<1> USE DEF ButtonInv
<1>1. LedsTypeOK' /\ DoneIsAlive' /\ Out'
  BY CancelKeeps, AnimationsAre DEF NoticeReleased, FollowOK
<1>2. ButtonTypeOK'
  BY DEF NoticeReleased, buttonRead, ButtonTypeOK, Places
<1>3. PressOK'
  BY DEF NoticeReleased, buttonRead, ButtonTypeOK, PressOK, Earned
<1>4. FollowOK'
  BY <1>1 DEF NoticeReleased, buttonRead, ButtonTypeOK, FollowOK
<1> QED
  BY <1>1, <1>2, <1>3, <1>4

LEMMA PassKeepsButton ==
  ASSUME ButtonInv, SendEvent \/ Remember \/ LookDown
  PROVE ButtonInv'
<1> USE DEF ButtonInv
<1>1. LedsTypeOK' /\ DoneIsAlive' = DoneIsAlive /\ Lit' = Lit /\ Out' = Out
  BY StillLed DEF SendEvent, Remember, LookDown
<1>2. ButtonTypeOK'
  BY DEF SendEvent, Remember, LookDown, Settles, buttonRead, ButtonTypeOK, Places, Pending
<1>3. PressOK'
  BY DEF SendEvent, Remember, LookDown, Settles, buttonRead, ButtonTypeOK, PressOK, Earned
<1>4. FollowOK'
  <2>1. CASE SendEvent
    BY <1>1, <2>1 DEF SendEvent, Settles, buttonRead, ButtonTypeOK, FollowOK
  <2>2. CASE Remember
    BY <1>1, <2>2 DEF Remember, buttonRead, ButtonTypeOK, FollowOK
  <2>3. CASE LookDown
    BY <1>1, <2>3 DEF LookDown, buttonRead, ButtonTypeOK, FollowOK
  <2> QED
    BY <2>1, <2>2, <2>3
<1> QED
  BY <1>1, <1>2, <1>3, <1>4

\* Whether it shows the button's animation or leaves the LED.
LEMMA LookKeepsButton ==
  ASSUME ButtonInv, LookLong \/ LookShort
  PROVE ButtonInv'
<1> USE DEF ButtonInv
<1>1. LedsTypeOK' /\ DoneIsAlive' /\ (Lit => Lit')
      /\ (UNCHANGED ledVars => Out' = Out)
  <2>1. CASE UNCHANGED ledVars
    BY <2>1, StillLed DEF FollowOK
  <2>2. CASE Push("Button")
    <3>1. CASE recent
      BY <2>2, <3>1, ButtonLights, StillLed DEF Push, FollowOK, LedsTypeOK
    <3>2. CASE ~recent
      <4>1. Pushed("Button", recent) = active
        BY <3>2 DEF Pushed, LedsTypeOK
      <4> QED
        BY <2>2, <4>1, StillLed DEF Push, FollowOK, ledVars
    <3> QED
      BY <3>1, <3>2
  <2> QED
    BY <2>1, <2>2 DEF LookLong, LookShort, Becomes
<1>2. ButtonTypeOK'
  BY DEF LookLong, LookShort, Becomes, buttonRead, ButtonTypeOK, Places, Pending
<1>3. PressOK'
  BY DEF LookLong, LookShort, Becomes, buttonRead, ButtonTypeOK, PressOK, Earned, Durations
<1>4. FollowOK'
  BY <1>1 DEF LookLong, LookShort, Becomes, buttonRead, ButtonTypeOK, FollowOK, PressOK
<1> QED
  BY <1>1, <1>2, <1>3, <1>4

LEMMA ButtonInvIsInductive ==
  ASSUME ButtonInv, [Next]_vars
  PROVE ButtonInv'
<1>1. CASE Reset
  BY <1>1, ResetKeepsButton
<1>2. CASE UNCHANGED buttonVars /\ (OtherLed \/ LedsTask \/ Disabled \/ UNCHANGED ledVars)
  BY <1>2, LedKeepsButton DEF OtherLed
<1>3. CASE (HandlerPressed \/ HandlerReleased \/ Hold) /\ UNCHANGED ledVars
  BY <1>3, HandlerKeepsButton
<1>4. CASE ButtonTask
  BY <1>4, TaskKeepsButton
<1>5. CASE ButtonStep
  BY <1>5, NoticePressedKeepsButton, NoticeReleasedKeepsButton, PassKeepsButton, LookKeepsButton
  DEF ButtonStep
<1> QED
  BY <1>1, <1>2, <1>3, <1>4, <1>5, ButtonView

LEMMA ButtonAlways == Spec => []ButtonInv
<1>1. Init => ButtonInv
  BY ButtonStarts
<1>2. ButtonInv /\ [Next]_vars => ButtonInv'
  BY ButtonInvIsInductive
<1> QED
  BY <1>1, <1>2, PTL DEF Spec

\* While the button is held no event is pending for a press longer than the present one, on
\* whichever read of the task the handler falls; nor after the release, unless the handler
\* ran inside the task.  PressOK is the invariant.
THEOREM PendingIsEarnedSafe == Spec => []PendingIsEarned
<1>1. ButtonInv => PendingIsEarned
  BY DEF ButtonInv, PressOK, Earned, PendingIsEarned
<1> QED
  BY <1>1, ButtonAlways, PTL

\* Unless the handler ran inside the task, the LED has the button's animation while the task
\* takes the button to be held, and afterwards no more, but for a copy made by the cancel of
\* another animation.  FollowOK says it for every place in the task.
THEOREM LedFollowsButtonSafe == Spec => []LedFollowsButton
<1>1. ButtonInv => LedFollowsButton
  BY DEF ButtonInv, FollowOK, Lit, Out, LedFollowsButton
<1> QED
  BY <1>1, ButtonAlways, PTL

-----------------------------------------------------------------------------
(* The scan and what it found *)

CoreTypeOK ==
  /\ StateTypeOK /\ ScanTypeOK
  /\ mode \in Modes /\ back \in Scheduled /\ left \in 0 .. ReadingsToTake
  /\ gathering \in BOOLEAN /\ scanned \in BOOLEAN

\* The query of the scan, the bus and the state of the core go together.
ScanOK ==
  /\ bus = "scan" <=> query # "none"
  /\ query # "none" => mode = "scan" /\ scanning /\ asked <= LastAddress
  /\ scanning => mode = "scan"
  /\ gathering => Reading /\ left > 0

\* What the list lacks, the scan is asking for.
ListOK ==
  /\ query = "sensor" => asked \in ListedSensors /\ sensor < NumSensors
  /\ \A a \in ListedSensors, s \in Sensors :
       <<a, s>> \in described \/ (query = "sensor" /\ a = asked /\ sensor <= s)
  /\ \A a \in Addresses, s \in Sensors :
       <<a, s>> \in done => <<a, s>> \in described \/ (query = "sensor" /\ a = asked)
  /\ done \subseteq taken \/ dirty

OwnStep ==
  \/ Start \/ Scan \/ Scanning \/ Scanned \/ Rescan
  \/ WifiStarts \/ WifiEnds \/ Configure \/ Format \/ Poll \/ QueryGivesUp
  \/ BeginReadings \/ BeginLive \/ GatherBegins \/ GatherNothing
  \/ Gather \/ GatherEnds \/ ReadingsEnd
  \/ FactoryReset \/ Fix

\* Every step, as the core's own state sees it.
LEMMA CoreView ==
  ASSUME [Next]_vars
  PROVE Reset \/ OwnStep \/ UNCHANGED others
<1>1. CASE Core
  BY <1>1 DEF Core, Reboot, GatherFails, WatchdogBites, OwnStep
<1>2. CASE Restart \/ Fix
  BY <1>2 DEF Restart, OwnStep
<1>3. CASE Press \/ Button \/ Led \/ Watchdog \/ Quiet
  BY <1>3 DEF Press, Button, Led, Watchdog, Quiet
<1>4. CASE UNCHANGED vars
  BY <1>4 DEF vars, others
<1> QED
  BY <1>1, <1>2, <1>3, <1>4 DEF Next

FlashState == [timed : BOOLEAN, number : Nat]

LEMMA SaveType ==
  ASSUME number \in Nat, flashed \in FlashState, Save
  PROVE saved' \in FlashState /\ flashed' \in FlashState
<1> DEFINE state == [timed |-> TRUE, number |-> number]
<1>1. state \in FlashState
  BY DEF FlashState
<1>2. saved' = state /\ (flashed' = state \/ flashed' = flashed)
  BY DEF Save, Write
<1> QED
  BY <1>1, <1>2

LEMMA StartedType ==
  ASSUME number \in Nat, saved \in FlashState
  PROVE StartedNumber(number, saved) \in Nat /\ StartedState(number, saved) \in FlashState
  BY DEF StartedNumber, StartedState, FlashState

LEMMA BlankType == Blank \in FlashState
  BY DEF Blank, FlashState

NumbersTyped == number \in Nat /\ highest \in Nat /\ saved \in FlashState /\ flashed \in FlashState

ListTyped ==
  /\ listed \subseteq Addresses /\ described \subseteq Readings
  /\ done \subseteq Readings /\ taken \subseteq Readings /\ dirty \in BOOLEAN

FsmTyped ==
  /\ mode \in Modes /\ back \in Scheduled /\ left \in 0 .. ReadingsToTake
  /\ gathering \in BOOLEAN /\ scanned \in BOOLEAN

LEMMA TypesAre ==
  CoreTypeOK <=> acts \in Scenarios /\ NumbersTyped /\ ListTyped /\ ScanTypeOK /\ FsmTyped
  BY DEF CoreTypeOK, StateTypeOK, NumbersTyped, ListTyped, FsmTyped, FlashState

LEMMA TypesAreNext ==
  CoreTypeOK' <=> acts' \in Scenarios /\ NumbersTyped' /\ ListTyped' /\ ScanTypeOK' /\ FsmTyped'
  BY DEF CoreTypeOK, StateTypeOK, NumbersTyped, ListTyped, FsmTyped, FlashState

LEMMA NumbersStayTyped ==
  ASSUME NumbersTyped, Reset \/ OwnStep \/ UNCHANGED others
  PROVE NumbersTyped'
<1> USE DEF NumbersTyped
<1>1. CASE Scan \/ Scanning
  BY <1>1 DEF Scan, Scanning, ScanBegins, ScanHangs, ScanTask, CapabilitiesReply, SensorReply,
     NextAddress, ScanFails, numberVars
<1>2. CASE Scanned \/ WifiStarts \/ WifiEnds \/ Rescan \/ QueryGivesUp \/ BeginLive
           \/ GatherNothing \/ GatherEnds \/ ReadingsEnd \/ Poll \/ UNCHANGED others
  BY <1>2 DEF Scanned, WifiStarts, WifiEnds, Rescan, QueryGivesUp, BeginLive, GatherNothing,
     GatherEnds, ReadingsEnd, Poll, others, stateVars, numberVars
<1>3. CASE Start
  BY <1>3, StartedType DEF Start, Started
<1>4. CASE Configure \/ BeginReadings \/ Fix
  BY <1>4, SaveType DEF Configure, BeginReadings, Fix
<1>5. CASE Format
  <2>1. highest' \in Nat
    BY <1>5 DEF Format
  <2>2. number' \in Nat /\ saved' \in FlashState /\ flashed' \in FlashState
    BY <1>5, StartedType, BlankType DEF Format, FormatState
  <2> QED
    BY <2>1, <2>2
<1>6. CASE GatherBegins
  BY <1>6 DEF GatherBegins, TakingReadings
<1>7. CASE Gather
  BY <1>7 DEF Gather, MergeReading
<1>8. CASE FactoryReset
  BY <1>8, BlankType DEF FactoryReset, FormatState
<1>9. CASE Reset
  BY <1>9 DEF Reset, LoseState
<1> QED
  BY <1>1, <1>2, <1>3, <1>4, <1>5, <1>6, <1>7, <1>8, <1>9 DEF OwnStep

LEMMA FsmStaysTyped ==
  ASSUME FsmTyped, ScanOK, Reset \/ OwnStep \/ UNCHANGED others
  PROVE FsmTyped'
<1> USE DEF FsmTyped, Modes, Scheduled
<1>1. CASE Scan \/ Scanning \/ Start \/ Scanned \/ WifiStarts \/ WifiEnds \/ Rescan
  BY <1>1 DEF Scan, Scanning, Start, Scanned, WifiStarts, WifiEnds, Rescan, fsmVars
<1>2. CASE QueryGivesUp \/ Poll \/ Configure \/ Fix \/ Format \/ Gather \/ FactoryReset
           \/ UNCHANGED others
  BY <1>2 DEF QueryGivesUp, Poll, Configure, Fix, Format, Gather, FactoryReset, others, fsmVars
<1>a. 0 \in 0 .. ReadingsToTake /\ 1 \in 0 .. ReadingsToTake /\ ReadingsToTake \in 0 .. ReadingsToTake
  BY CoreStateAssumption
<1>b. ASSUME left > 0
      PROVE left - 1 \in 0 .. ReadingsToTake
  BY <1>b, CoreStateAssumption
<1>3. CASE BeginReadings \/ BeginLive \/ Reset
  BY <1>3, <1>a DEF BeginReadings, BeginLive, Reset
<1>4. CASE GatherBegins \/ GatherNothing \/ ReadingsEnd
  BY <1>4, <1>b DEF GatherBegins, GatherNothing, ReadingsEnd
<1>5. CASE GatherEnds
  BY <1>5, <1>a, <1>b DEF GatherEnds, ScanOK
<1> QED
  BY <1>1, <1>2, <1>3, <1>4, <1>5 DEF OwnStep

LEMMA StillList ==
  ASSUME ListTyped, ScanTypeOK, ListOK, UNCHANGED <<moduleVars, attached, scanVars>>
  PROVE ListTyped' /\ ScanTypeOK' /\ ListOK'
<1> USE DEF moduleVars, scanVars
<1>1. ListTyped' /\ ScanTypeOK'
  BY DEF ListTyped, ScanTypeOK
<1>2. ListOK'
  BY DEF ListOK, ListedSensors
<1> QED
  BY <1>1, <1>2

\* A list that is cleared, and no query of the scan.
LEMMA ClearedList ==
  ASSUME ListTyped, ScanTypeOK, ClearModules, query' # "sensor", ScanTypeOK'
  PROVE ListTyped' /\ ListOK'
<1>1. ListTyped'
  BY DEF ListTyped, ClearModules
<1>2. ListOK'
  BY DEF ListOK, ListedSensors, ClearModules
<1> QED
  BY <1>1, <1>2

ScanInv == ListTyped /\ ScanTypeOK /\ ScanOK /\ ListOK

LEMMA NoScanKeepsScan ==
  ASSUME ScanInv, FsmTyped,
         \/ Scanned \/ WifiStarts \/ WifiEnds \/ Rescan \/ Configure \/ Fix
         \/ BeginReadings \/ BeginLive \/ GatherBegins \/ GatherNothing \/ GatherEnds
         \/ ReadingsEnd \/ FactoryReset \/ UNCHANGED others
  PROVE ScanInv'
<1> USE DEF ScanInv
<1>1. UNCHANGED <<moduleVars, attached, scanVars>>
  BY DEF Scanned, WifiStarts, WifiEnds, Rescan, Configure, Fix, BeginReadings, BeginLive,
     GatherBegins, GatherNothing, GatherEnds, ReadingsEnd, FactoryReset, others, stateVars
<1>2. ListTyped' /\ ScanTypeOK' /\ ListOK'
  BY <1>1, StillList
<1>3. ScanOK'
  <2> USE DEF scanVars, ScanOK, Reading, FsmTyped, Modes, Scheduled
  <2>1. CASE Scanned \/ WifiStarts \/ WifiEnds \/ Rescan
    BY <1>1, <2>1 DEF Scanned, WifiStarts, WifiEnds, Rescan
  <2>2. CASE Configure \/ Fix \/ FactoryReset \/ UNCHANGED others
    BY <1>1, <2>2 DEF Configure, Fix, FactoryReset, others, fsmVars
  <2>3. CASE BeginReadings \/ BeginLive \/ ReadingsEnd
    BY <1>1, <2>3 DEF BeginReadings, BeginLive, ReadingsEnd
  <2>4. CASE GatherBegins \/ GatherNothing \/ GatherEnds
    BY <1>1, <2>4 DEF GatherBegins, GatherNothing, GatherEnds
  <2> QED
    BY <2>1, <2>2, <2>3, <2>4
<1> QED
  BY <1>2, <1>3

LEMMA FirstAddress ==
  /\ LastAddress \in Nat /\ LastAddress <= 9 /\ NumSensors \in Nat
  /\ 7 \in 7 .. LastAddress + 1 /\ 7 <= LastAddress /\ 0 \in 0 .. NumSensors
  BY CoreStateAssumption

LEMMA ResetKeepsScan ==
  ASSUME ScanInv, Reset
  PROVE ScanInv'
<1>1. ListTyped' /\ ListOK'
  BY DEF Reset, LoseState, ListTyped, ListOK, ListedSensors
<1>2. ScanTypeOK'
  BY FirstAddress DEF ScanInv, Reset, ScanTypeOK, Queries
<1>3. ScanOK'
  BY DEF Reset, ScanOK
<1> QED
  BY <1>1, <1>2, <1>3 DEF ScanInv

LEMMA AppKeepsScan ==
  ASSUME ScanInv, Start \/ Format \/ Poll \/ QueryGivesUp
  PROVE ScanInv'
<1> USE DEF ScanInv
<1>1. CASE Start
  <2>1. ScanTypeOK' /\ ScanOK' /\ query' # "sensor"
    BY <1>1 DEF Start, scanVars, ScanTypeOK, ScanOK, Reading
  <2> QED
    BY <1>1, <2>1, ClearedList DEF Start, Started
<1>2. CASE Format
  <2>1. ScanTypeOK' /\ ScanOK' /\ query' # "sensor" /\ UNCHANGED <<attached, scanVars>>
    BY <1>2 DEF Format, scanVars, fsmVars, ScanTypeOK, ScanOK, Reading
  <2>2. ClearModules \/ UNCHANGED moduleVars
    BY <1>2 DEF Format
  <2> QED
    BY <2>1, <2>2, ClearedList, StillList
<1>3. CASE Poll
  <2>1. ScanTypeOK' /\ ScanOK'
    BY <1>3 DEF Poll, scanVars, fsmVars, ScanTypeOK, ScanOK, Reading
  <2>2. ListTyped' /\ ListOK'
    BY <1>3 DEF Poll, ClearReadings, scanVars, ListTyped, ListOK, ListedSensors
  <2> QED
    BY <2>1, <2>2
<1>4. CASE QueryGivesUp
  <2>1. ScanTypeOK' /\ ScanOK'
    BY <1>4 DEF QueryGivesUp, fsmVars, ScanTypeOK, ScanOK, Reading
  <2>2. ListTyped' /\ ListOK'
    BY <1>4 DEF QueryGivesUp, stateVars, moduleVars, ListTyped, ListOK, ListedSensors
  <2> QED
    BY <2>1, <2>2
<1> QED
  BY <1>1, <1>2, <1>3, <1>4

\* While readings are gathered no scan is under way, so that every module is described.
LEMMA GatherKeepsScan ==
  ASSUME ScanInv, Gather
  PROVE ScanInv'
<1> USE DEF ScanInv
<1>1. ScanTypeOK' /\ ScanOK' /\ UNCHANGED <<attached, scanVars>>
  BY DEF Gather, scanVars, fsmVars, ScanTypeOK, ScanOK, Reading
<1>2. PICK s \in Sensors : MergeReading(8, s)
  BY DEF Gather
<1>3. query # "sensor" /\ 8 \in ListedSensors
  BY DEF Gather, ScanOK, Reading
<1>4. <<8, s>> \in described /\ <<8, s>> \in Readings
  BY <1>2, <1>3 DEF ListOK, ListTyped, ListedSensors, Readings
<1>5. ListTyped'
  BY <1>2, <1>4 DEF MergeReading, ListTyped
<1>6. ListOK'
  BY <1>1, <1>2, <1>3, <1>4 DEF MergeReading, ListOK, ListedSensors, scanVars
<1> QED
  BY <1>1, <1>5, <1>6

LEMMA ScanStarts ==
  ASSUME ScanInv, Scan
  PROVE ScanInv'
<1> USE DEF ScanInv
<1>1. query = "none" /\ ~scanning /\ ~gathering
  BY DEF Scan, ScanOK, Reading
<1>2. ScanTypeOK' /\ ScanOK'
  BY <1>1, FirstAddress DEF Scan, ScanBegins, ScanHangs, ScanTypeOK, Queries, ScanOK, Reading
<1>3. ListTyped' /\ ListOK'
  BY <1>1 DEF Scan, ScanBegins, ScanHangs, moduleVars, ListTyped, ListOK, ListedSensors
<1> QED
  BY <1>2, <1>3

\* resume() ends the scan or goes on to the next address; either way the bus fits the query.
LEMMA ResumeKeeps ==
  ASSUME ScanInv, asked <= LastAddress, Resume(asked + 1), ~gathering, mode = "scan",
         UNCHANGED <<attached, mode, gathering, left>>, query # "none"
  PROVE ScanTypeOK' /\ ScanOK' /\ query' # "sensor"
<1> USE DEF ScanInv
<1>1. asked + 1 \in 7 .. LastAddress + 1
  BY CoreStateAssumption DEF ScanTypeOK
<1>2. 0 \in 0 .. NumSensors
  BY CoreStateAssumption
<1> QED
  BY <1>1, <1>2 DEF Resume, ScanTypeOK, Queries, ScanOK, Reading

\* Each reply and error of the scan keeps what is known of the list it makes.
LEMMA ScanningKeepsScan ==
  ASSUME ScanInv, Scanning
  PROVE ScanInv'
<1> USE DEF ScanInv
<1>1. /\ mode = "scan" /\ scanning /\ ~gathering
      /\ UNCHANGED <<attached, mode, gathering, left>>
  BY DEF Scanning, fsmVars, ScanOK, Reading
<1>a. query # "none"
  BY DEF Scanning, ScanTask, CapabilitiesReply, SensorReply, NextAddress, ScanFails
<1>3. asked <= LastAddress
  BY <1>a DEF ScanOK
<1>2. query # "none" /\ asked \in Addresses
  BY <1>a, <1>3, FirstAddress DEF ScanTypeOK, Addresses
<1>4. CASE CapabilitiesReply
  <2> DEFINE n == SensorsOf(asked)
  <2>1. /\ n \in Nat /\ n <= NumSensors
        /\ n > 0 => attached[asked] = "sensor" /\ n = NumSensors
        /\ 0 .. n - 1 \subseteq Sensors
        /\ attached[asked] = "sensor" => n = NumSensors
    BY FirstAddress DEF SensorsOf, Sensors
  <2>2. /\ listed' = listed \union {asked}
        /\ UNCHANGED <<described, dirty, taken>>
        /\ done \subseteq done'
        /\ \A r \in done' : r \in done \/ (r \in {asked} \X (0 .. n - 1) /\ dirty)
    <3>1. Create(asked, n)
      BY <1>4 DEF CapabilitiesReply
    <3>2. CASE asked \in listed
      BY <3>1, <3>2 DEF Create
    <3>3. CASE asked \notin listed
      <4>1. PICK garbage \in IF dirty THEN SUBSET ({asked} \X (0 .. n - 1)) ELSE {{}} :
              done' = done \union garbage
        BY <3>1, <3>3 DEF Create
      <4>2. \A r \in garbage : r \in {asked} \X (0 .. n - 1) /\ dirty
        BY <4>1
      <4> QED
        BY <3>1, <4>1, <4>2 DEF Create
    <3> QED
      BY <3>2, <3>3
  <2> HIDE DEF n
  <2>3. IF n > 0 THEN query' = "sensor" /\ sensor' = 0 /\ UNCHANGED <<scanning, asked, bus>>
        ELSE Resume(asked + 1)
    BY <1>4 DEF CapabilitiesReply, n
  <2>4. query = "capabilities"
    BY <1>4 DEF CapabilitiesReply
  <2>5. ScanTypeOK' /\ ScanOK' /\ (n = 0 => query' # "sensor")
    <3>1. CASE n > 0
      BY <1>1, <1>3, <2>1, <2>3, <2>4, <3>1, FirstAddress DEF ScanTypeOK, Queries, ScanOK
    <3>2. CASE n = 0
      BY <1>1, <1>3, <2>3, <2>4, <3>2, ResumeKeeps
    <3> QED
      BY <2>1, <3>1, <3>2
  <2>6. ListTyped'
    <3>1. {asked} \X (0 .. n - 1) \subseteq Readings
      BY <1>2, <2>1 DEF Readings
    <3> QED
      BY <1>2, <2>2, <3>1 DEF ListTyped
  <2>7. ListOK'
    <3>1. /\ query' = "sensor" => n > 0 /\ asked' = asked /\ sensor' = 0
          /\ n > 0 => query' = "sensor"
      BY <2>1, <2>3, <2>5
    <3>2. ListedSensors' = ListedSensors \union (IF attached[asked] = "sensor" THEN {asked} ELSE {})
      BY <1>1, <2>2 DEF ListedSensors
    <3>3. query' = "sensor" => asked' \in ListedSensors' /\ sensor' < NumSensors
      BY <2>1, <3>1, <3>2
    <3>4. ASSUME NEW a \in ListedSensors', NEW s \in Sensors
          PROVE <<a, s>> \in described' \/ (query' = "sensor" /\ a = asked' /\ sensor' <= s)
      <4>1. CASE a \in ListedSensors
        BY <2>2, <2>4, <4>1 DEF ListOK
      <4>2. CASE a = asked /\ attached[asked] = "sensor"
        <5>1. n > 0 /\ 0 <= s
          BY <2>1, <4>2, FirstAddress DEF Sensors
        <5> QED
          BY <3>1, <4>2, <5>1
      <4> QED
        BY <3>2, <4>1, <4>2
    <3>5. ASSUME NEW a \in Addresses, NEW s \in Sensors, <<a, s>> \in done'
          PROVE <<a, s>> \in described' \/ (query' = "sensor" /\ a = asked')
      <4>1. CASE <<a, s>> \in done
        BY <2>2, <2>4, <4>1 DEF ListOK
      <4>2. CASE <<a, s>> \in {asked} \X (0 .. n - 1)
        BY <2>1, <3>1, <4>2
      <4> QED
        BY <2>2, <3>5, <4>1, <4>2
    <3>6. done' \subseteq taken' \/ dirty'
      BY <2>2 DEF ListOK, ListTyped
    <3> QED
      BY <3>3, <3>4, <3>5, <3>6 DEF ListOK
  <2> QED
    BY <2>5, <2>6, <2>7
<1>5. CASE SensorReply
  <2>1. asked \in ListedSensors /\ sensor \in Sensors /\ SensorsOf(asked) = NumSensors
    BY <1>5, CoreStateAssumption
    DEF SensorReply, ListOK, ListedSensors, SensorsOf, ScanTypeOK, Sensors
  <2>2. ScanTypeOK' /\ ScanOK'
    BY <1>1, <1>2, <1>5, <2>1, CoreStateAssumption
    DEF SensorReply, ScanTypeOK, ScanOK, Queries, Sensors, Reading
  <2>3. <<asked, sensor>> \in Readings
    BY <1>2, <2>1 DEF Readings
  <2>4. ListTyped'
    BY <1>5, <2>3 DEF SensorReply, ListTyped
  <2>5. ListOK'
    <3>1. /\ UNCHANGED <<listed, done, dirty, taken, asked, attached>>
          /\ described' = described \union {<<asked, sensor>>}
          /\ sensor' = sensor + 1
          /\ query' = (IF sensor + 1 < NumSensors THEN "sensor" ELSE "firmware")
      BY <1>1, <1>5, <2>1 DEF SensorReply
    <3>2. ListedSensors' = ListedSensors
      BY <3>1 DEF ListedSensors
    <3>3. query = "sensor"
      BY <1>5 DEF SensorReply
    <3>4. ASSUME NEW a \in ListedSensors, NEW s \in Sensors
          PROVE <<a, s>> \in described' \/ (query' = "sensor" /\ a = asked' /\ sensor' <= s)
      <4>1. CASE <<a, s>> \in described
        BY <3>1, <4>1
      <4>2. CASE a = asked /\ sensor <= s
        BY <2>1, <3>1, <4>2, FirstAddress DEF Sensors
      <4> QED
        BY <4>1, <4>2 DEF ListOK
    <3>5. ASSUME NEW a \in Addresses, NEW s \in Sensors, <<a, s>> \in done
          PROVE <<a, s>> \in described' \/ (query' = "sensor" /\ a = asked')
      <4>1. CASE <<a, s>> \in described
        BY <3>1, <4>1
      <4>2. CASE a = asked
        BY <2>1, <2>2, <3>1, <3>4, <4>2
      <4> QED
        BY <3>5, <4>1, <4>2 DEF ListOK
    <3>6. query' = "sensor" => asked' \in ListedSensors' /\ sensor' < NumSensors
      BY <2>1, <3>1, <3>2
    <3> QED
      BY <3>1, <3>2, <3>4, <3>5, <3>6 DEF ListOK
  <2> QED
    BY <2>2, <2>4, <2>5
<1>6. CASE NextAddress
  <2>1. ScanTypeOK' /\ ScanOK' /\ query' # "sensor" /\ query # "sensor" /\ UNCHANGED moduleVars
    BY <1>1, <1>2, <1>3, <1>6, ResumeKeeps DEF NextAddress
  <2>2. ListTyped' /\ ListOK'
    BY <1>1, <2>1 DEF moduleVars, ListTyped, ListOK, ListedSensors
  <2> QED
    BY <2>1, <2>2
<1>7. CASE ScanFails
  <2>1. ScanTypeOK' /\ ScanOK' /\ query' # "sensor"
    BY <1>1, <1>7 DEF ScanFails, ScanTypeOK, Queries, ScanOK
  <2> QED
    BY <1>7, <2>1, ClearedList DEF ScanFails
<1> QED
  BY <1>4, <1>5, <1>6, <1>7 DEF Scanning, ScanTask

LEMMA ActsStay ==
  ASSUME Reset \/ OwnStep \/ UNCHANGED others
  PROVE acts' = acts
<1>1. CASE Reset \/ Start \/ Scan \/ Scanning \/ Configure \/ Fix
  BY <1>1 DEF Reset, Start, Scan, Scanning, Configure, Fix
<1>2. CASE Scanned \/ WifiStarts \/ WifiEnds \/ Rescan \/ QueryGivesUp \/ BeginLive
           \/ GatherNothing \/ GatherEnds \/ ReadingsEnd \/ UNCHANGED others
  BY <1>2 DEF Scanned, WifiStarts, WifiEnds, Rescan, QueryGivesUp, BeginLive, GatherNothing,
     GatherEnds, ReadingsEnd, others, stateVars
<1>3. CASE Format \/ Poll \/ BeginReadings \/ GatherBegins \/ Gather \/ FactoryReset
  BY <1>3 DEF Format, Poll, BeginReadings, GatherBegins, Gather, FactoryReset
<1> QED
  BY <1>1, <1>2, <1>3 DEF OwnStep

-----------------------------------------------------------------------------
(* The reading number *)

\* What the saved number is relied on for.
Saves == \A act \in {"gpsoff", "flash", "live", "erase"} : ~Can(act)

\* The number in flash covers what was logged: with the readings that are left to take.
NumbersOK ==
  /\ mode # "live"
  /\ flashed.timed \/ flashed.number = 0
  /\ saved = flashed \/ (~saved.timed /\ ~flashed.timed)
  /\ mode # "start" => flashed.number <= number
  /\ highest <= flashed.number + ReadingsToTake
  /\ mode = "readings" => number + left <= flashed.number + ReadingsToTake + (IF gathering THEN 1 ELSE 0)

LEMMA BlankIs == Blank.timed = FALSE /\ Blank.number = 0
  BY DEF Blank

\* With no failed write, flash holds what the RAM has.
LEMMA SaveIs ==
  ASSUME Save, Saves
  PROVE /\ saved' = flashed' /\ saved'.timed = TRUE /\ saved'.number = number
        /\ flashed'.timed = TRUE /\ flashed'.number = number
<1>1. saved' = [timed |-> TRUE, number |-> number] /\ flashed' = saved'
  BY DEF Save, Write, Saves, Can
<1> QED
  BY <1>1

\* started() never goes back behind the number in flash.
LEMMA StartedIs ==
  ASSUME NumbersTyped, NumbersOK
  PROVE /\ flashed.number <= StartedNumber(number, saved)
        /\ \/ StartedState(number, saved) = flashed
           \/ ~StartedState(number, saved).timed /\ ~flashed.timed
<1>1. CASE saved.timed
  BY <1>1 DEF NumbersTyped, NumbersOK, StartedNumber, StartedState, FlashState
<1>2. CASE ~saved.timed
  <2>1. ~flashed.timed /\ flashed.number = 0
    BY <1>2 DEF NumbersOK
  <2>2. StartedNumber(number, saved) = number
    BY <1>2 DEF StartedNumber
  <2>3. StartedState(number, saved).timed = saved.timed
    BY <1>2 DEF NumbersTyped, StartedState, FlashState
  <2> QED
    BY <1>2, <2>1, <2>2, <2>3 DEF NumbersTyped
<1> QED
  BY <1>1, <1>2

NumbersInv == NumbersTyped /\ FsmTyped /\ ScanOK /\ NumbersOK /\ Saves

LEMMA FlashedType ==
  ASSUME FsmTyped, NumbersTyped
  PROVE flashed.number \in Nat /\ left \in Nat /\ left <= ReadingsToTake /\ ReadingsToTake \in Nat
  BY CoreStateAssumption DEF NumbersTyped, FlashState, FsmTyped

LEMMA SaveKeepsNumbers ==
  ASSUME NumbersInv, Configure \/ Fix \/ BeginReadings
  PROVE NumbersOK'
<1> USE DEF NumbersInv, NumbersOK
<1>1. Save /\ number' = number /\ highest' = highest
  BY DEF Configure, Fix, BeginReadings, Saves, Can
<1>2. saved' = flashed' /\ flashed'.timed = TRUE /\ flashed'.number = number
  BY <1>1, SaveIs
<1>3. number \in Nat /\ highest \in Nat
  BY DEF NumbersTyped
<1>4. mode # "start" /\ flashed.number <= number
  BY DEF Configure, Fix, BeginReadings, Alive, Scheduled
<1>5. mode' # "live"
  BY DEF Configure, Fix, BeginReadings, fsmVars
<1>6. highest' <= flashed'.number + ReadingsToTake
  BY <1>1, <1>2, <1>3, <1>4, FlashedType
<1>7. left' \in Nat /\ number' + left' <= flashed'.number + ReadingsToTake
  BY <1>1, <1>2, <1>3, FlashedType DEF Configure, Fix, BeginReadings, fsmVars
<1> QED
  BY <1>1, <1>2, <1>3, <1>5, <1>6, <1>7, FlashedType

LEMMA StartKeepsNumbers ==
  ASSUME NumbersInv, Start \/ Format \/ FactoryReset \/ Reset
  PROVE NumbersOK'
<1> USE DEF NumbersInv
<1>1. CASE Start
  BY <1>1, StartedIs DEF Start, Started, NumbersOK
<1>2. CASE Format
  <2>1. /\ mode = "wifi" /\ mode' = mode /\ highest' = 0
        /\ number' = StartedNumber(number, saved)
        /\ \/ saved' = StartedState(number, saved) /\ flashed' = flashed
           \/ saved' = Blank /\ flashed' = Blank
    BY <1>2 DEF Format, FormatState, fsmVars, Saves, Can
  <2>2. CASE flashed' = flashed /\ saved' = StartedState(number, saved)
    BY <2>1, <2>2, StartedIs, FlashedType DEF NumbersOK
  <2>3. CASE saved' = Blank /\ flashed' = Blank
    <3>1. number' \in Nat
      BY <2>1, StartedType DEF NumbersTyped
    <3> QED
      BY <2>1, <2>3, <3>1, BlankIs, FlashedType DEF NumbersOK
  <2> QED
    BY <2>1, <2>2, <2>3
<1>3. CASE FactoryReset
  <2>1. mode' = "start" /\ highest' = 0 /\ saved' = Blank /\ flashed' = Blank
    BY <1>3 DEF FactoryReset, FormatState, fsmVars, Saves, Can
  <2> QED
    BY <2>1, BlankIs, FlashedType DEF NumbersOK
<1>4. CASE Reset
  BY <1>4 DEF Reset, LoseState, NumbersOK
<1> QED
  BY <1>1, <1>2, <1>3, <1>4

\* The readings of one schedule take at most ReadingsToTake numbers after the save.
LEMMA GatherKeepsNumbers ==
  ASSUME NumbersInv, Gather \/ GatherBegins \/ GatherNothing \/ GatherEnds \/ ReadingsEnd
  PROVE NumbersOK'
<1> USE DEF NumbersInv, NumbersTyped
<1>1. mode = "readings" /\ mode \in Modes /\ back \in Scheduled
  BY DEF Gather, GatherBegins, GatherNothing, GatherEnds, ReadingsEnd, NumbersOK, ScanOK,
     Reading, FsmTyped
<1>2. CASE Gather
  <2>1. /\ gathering /\ left > 0 /\ UNCHANGED <<mode, left, gathering, number, saved, flashed>>
        /\ highest' = IF number > highest THEN number ELSE highest
    BY <1>2 DEF Gather, MergeReading, fsmVars, ScanOK
  <2>2. number <= flashed.number + ReadingsToTake
    BY <1>1, <2>1, FlashedType DEF NumbersOK
  <2> QED
    BY <1>1, <2>1, <2>2 DEF NumbersOK
<1>3. CASE GatherBegins
  BY <1>1, <1>3, FlashedType DEF GatherBegins, TakingReadings, NumbersOK
<1>4. CASE GatherNothing \/ GatherEnds
  <2>1. /\ UNCHANGED <<mode, numberVars>> /\ ~gathering'
        /\ \/ ~gathering /\ left' = left - 1
           \/ gathering /\ left > 0 /\ (left' = left - 1 \/ left' = 0)
    BY <1>4 DEF GatherNothing, GatherEnds, stateVars, ScanOK
  <2> QED
    BY <1>1, <2>1, FlashedType DEF NumbersOK, numberVars
<1>5. CASE ReadingsEnd
  BY <1>1, <1>5 DEF ReadingsEnd, stateVars, numberVars, Scheduled, NumbersOK
<1> QED
  BY <1>2, <1>3, <1>4, <1>5

LEMMA OthersKeepNumbers ==
  ASSUME NumbersInv,
         \/ Scan \/ Scanning \/ Scanned \/ WifiStarts \/ WifiEnds \/ Rescan
         \/ Poll \/ QueryGivesUp \/ BeginLive \/ UNCHANGED others
  PROVE NumbersOK'
<1> USE DEF NumbersInv
<1>1. ~BeginLive
  BY DEF BeginLive, Saves, Can
<1>2. UNCHANGED numberVars
  BY <1>1 DEF Scan, Scanning, Scanned, WifiStarts, WifiEnds, Rescan, Poll, QueryGivesUp, others,
     stateVars, ScanBegins, ScanHangs, ScanTask, CapabilitiesReply, SensorReply, NextAddress, ScanFails
<1>3. \/ mode # "start" /\ mode' \notin {"readings", "live"}
      \/ UNCHANGED <<mode, left, gathering>>
  BY <1>1 DEF Scan, Scanning, Scanned, WifiStarts, WifiEnds, Rescan, Poll, QueryGivesUp, others, fsmVars
<1> QED
  BY <1>2, <1>3 DEF numberVars, NumbersOK

-----------------------------------------------------------------------------
(* The theorems *)

\* The inductive invariant but for the button and the LED.
CoreSafe == CoreTypeOK /\ ScanOK /\ ListOK /\ (Saves => NumbersOK)

LEMMA CoreStarts ==
  ASSUME Init
  PROVE CoreSafe
<1>1. CoreTypeOK
  <2>1. NumbersTyped /\ ListTyped /\ FsmTyped /\ acts \in Scenarios
    <3>1. 0 \in 0 .. ReadingsToTake
      BY CoreStateAssumption
    <3>2. FsmTyped /\ acts \in Scenarios
      BY <3>1 DEF Init, FsmTyped, Modes, Scheduled
    <3>3. NumbersTyped /\ ListTyped
      BY BlankType DEF Init, StateInit, NumbersTyped, ListTyped
    <3> QED
      BY <3>2, <3>3
  <2>2. ScanTypeOK
    BY FirstAddress DEF Init, ScanInit, ScanTypeOK, Queries
  <2> QED
    BY <2>1, <2>2, TypesAre
<1>2. ScanOK
  BY DEF Init, ScanInit, ScanOK
<1>3. ListOK
  BY DEF Init, StateInit, ScanInit, ListOK, ListedSensors
<1>4. NumbersOK
  BY BlankIs, CoreStateAssumption DEF Init, StateInit, NumbersOK
<1> QED
  BY <1>1, <1>2, <1>3, <1>4 DEF CoreSafe

LEMMA CoreSafeIsInductive ==
  ASSUME CoreSafe, [Next]_vars
  PROVE CoreSafe'
<1>1. Reset \/ OwnStep \/ UNCHANGED others
  BY CoreView
<1>2. ScanInv /\ NumbersTyped /\ FsmTyped /\ acts \in Scenarios
  BY TypesAre DEF CoreSafe, ScanInv
<1>3. acts' = acts
  BY <1>1, ActsStay
<1>4. NumbersTyped' /\ FsmTyped'
  BY <1>1, <1>2, NumbersStayTyped, FsmStaysTyped DEF ScanInv
<1>5. ScanInv'
  BY <1>1, <1>2, NoScanKeepsScan, ResetKeepsScan, AppKeepsScan, GatherKeepsScan, ScanStarts,
     ScanningKeepsScan DEF OwnStep
<1>6. CoreTypeOK'
  BY <1>2, <1>3, <1>4, <1>5, TypesAreNext DEF ScanInv
<1>7. Saves' => NumbersOK'
  <2> SUFFICES ASSUME Saves'
               PROVE NumbersOK'
    OBVIOUS
  <2>1. NumbersInv
    BY <1>2, <1>3 DEF CoreSafe, ScanInv, NumbersInv, Saves, Can
  <2> QED
    BY <1>1, <2>1, SaveKeepsNumbers, StartKeepsNumbers, GatherKeepsNumbers, OthersKeepNumbers
    DEF OwnStep
<1> QED
  BY <1>5, <1>6, <1>7 DEF CoreSafe, ScanInv

LEMMA CoreAlways == Spec => []CoreSafe
<1>1. Init => CoreSafe
  BY CoreStarts
<1>2. CoreSafe /\ [Next]_vars => CoreSafe'
  BY CoreSafeIsInductive
<1> QED
  BY <1>1, <1>2, PTL DEF Spec

\* Every variable of the core, the scan, the LED and the button has its type.
THEOREM TypeCorrect == Spec => []TypeOK
<1>1. CoreSafe /\ ButtonInv => TypeOK
  BY DEF CoreSafe, CoreTypeOK, ButtonInv, TypeOK
<1> QED
  BY <1>1, CoreAlways, ButtonAlways, PTL

\* Outside a scan twoWire1 is not the scan's, and every sensor of a listed module is
\* described, however the scans before ended.
THEOREM ScanConcludesSafe == Spec => []ScanConcludes
<1>1. CoreSafe => ScanConcludes
  BY DEF CoreSafe, ScanOK, ListOK, ScanConcludes
<1> QED
  BY <1>1, CoreAlways, PTL

\* Readings reported as done are of described sensors, and were taken since the pool was
\* last cleared unless it was dirty.
THEOREM ReportedWereTakenSafe == Spec => []ReportedWereTaken
<1>1. CoreSafe => ReportedWereTaken
  <2> SUFFICES ASSUME CoreSafe, mode # "scan"
               PROVE done \subseteq described /\ (done \subseteq taken \/ dirty)
    BY DEF ReportedWereTaken
  <2>1. done \subseteq Addresses \X Sensors
    BY TypesAre DEF CoreSafe, ListTyped, Readings
  <2>2. query # "sensor"
    BY DEF CoreSafe, ScanOK
  <2> QED
    BY <2>1, <2>2 DEF CoreSafe, ListOK
<1> QED
  BY <1>1, CoreAlways, PTL

\* A restart repeats the reading numbers of at most one schedule, if the saves before the
\* readings succeed.
THEOREM LastSaveCoversSafe == Spec => []LastSaveCovers
<1>1. CoreSafe => LastSaveCovers
  BY DEF CoreSafe, NumbersOK, Saves, LastSaveCovers
<1> QED
  BY <1>1, CoreAlways, PTL
=============================================================================
