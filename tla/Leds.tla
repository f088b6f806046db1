-------------------------------- MODULE Leds --------------------------------
(***************************************************************************)
(* The one LED of the core and the animations that compete for it: Leds    *)
(* with its three slots.                                                   *)
(*                                                                         *)
(* An animation is its priority.  Left out: the colours, and with them what *)
(* the pixel shows; the animations of a core that initializes, turns off   *)
(* or has failed an assertion.                                             *)
(***************************************************************************)
EXTENDS Naturals, FiniteSets

ActiveSize == 3
Slots == 1 .. ActiveSize

priority == [None |-> 0, Wifi |-> 20, Alive |-> 25, Readings |-> 30, Button |-> 200]
Animations == DOMAIN priority

VARIABLES
  active,    \* the slots: the animation in each, and whether its duration has passed
  recent,    \* user_activity_ is not so long ago that the LED is disabled
  copied     \* history: cancel has put the button's animation into two slots, and one is left

ledVars == <<active, recent, copied>>

Empty == [kind |-> "None", done |-> FALSE]
Dark == [i \in Slots |-> Empty]

LedsTypeOK ==
  /\ active \in [Slots -> [kind : Animations, done : BOOLEAN]]
  /\ recent \in BOOLEAN /\ copied \in BOOLEAN

LedsInit == active = Dark /\ recent = TRUE /\ copied = FALSE

First(S) == CHOOSE i \in S : \A j \in S : i <= j

Holds(s, kind) == {i \in DOMAIN s : s[i].kind = kind}

-----------------------------------------------------------------------------
\* Mutant of Available: no animation gives way to one of a higher priority.
AvailableFree(kind) ==
  LET choices == <<Holds(active, kind), Holds(active, "None")>>
      usable == {c \in DOMAIN choices : choices[c] # {}}
  IN IF usable = {} THEN {} ELSE {First(choices[First(usable)])}

\* get_available: the slot of the same priority, else a free one, else one of a lower
\* priority, else none.
Available(kind) ==
  LET lower == {i \in Slots : priority[active[i].kind] < priority[kind]}
      choices == <<Holds(active, kind), Holds(active, "None"), lower>>
      usable == {c \in DOMAIN choices : choices[c] # {}}
  IN IF usable = {} THEN {} ELSE {First(choices[First(usable)])}

\* pushAnimation.
Pushed(kind, enabled) ==
  [i \in Slots |-> IF enabled /\ i \in Available(kind)
                   THEN [kind |-> kind, done |-> FALSE] ELSE active[i]]

Push(kind) ==
  /\ active' = Pushed(kind, recent)
  /\ UNCHANGED <<recent, copied>>

\* cancel: a slot that is cancelled takes what the last slot holds, which stays there.
Cancelled(kind) ==
  [i \in Slots |-> IF active[i].kind # kind THEN active[i]
                   ELSE IF i < ActiveSize THEN active[ActiveSize] ELSE Empty]

Cancel(kind) ==
  /\ active' = Cancelled(kind)
  /\ copied' = /\ Holds(active', "Button") # {}
               /\ copied \/ \E i \in Holds(active, kind) : active'[i].kind = "Button"
  /\ UNCHANGED recent

-----------------------------------------------------------------------------
(* Leds::task, one pass over the slots *)

Live == {i \in Slots : active[i].kind # "None" /\ ~active[i].done}

\* The slots the pass updates: those above every one before them.
Updated == {i \in Live : \A j \in Live : j < i => priority[active[j].kind] < priority[active[i].kind]}

LedsTask ==
  \E expired \in SUBSET {i \in Updated : active[i].kind = "Alive"} :
    /\ active' = [i \in Slots |-> IF active[i].done THEN Empty
                                  ELSE [active[i] EXCEPT !.done = i \in expired]]
    /\ copied' = (copied /\ Holds(active', "Button") # {})
    /\ UNCHANGED recent

\* disable_after has passed since the button was last pressed.
Disabled ==
  /\ recent' = FALSE
  /\ UNCHANGED <<active, copied>>

\* Watchdog::task, when the watchdog's early warning is up.
NotifyAlive == Push("Alive")
=============================================================================
