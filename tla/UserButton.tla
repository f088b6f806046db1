----------------------------- MODULE UserButton -----------------------------
(***************************************************************************)
(* The button: UserButton::handler, which the pin's interrupt runs between *)
(* any two reads of UserButton::task, and the task, one step per read of   *)
(* what the handler writes.                                                *)
(*                                                                         *)
(* A time is how it compares with ButtonShortPressDuration and             *)
(* ButtonLongPressDuration; changedAt_ = 0 is long ago.  Left out: the     *)
(* UserButtonEvent of a press that goes on, which only wakes the core.     *)
(***************************************************************************)
EXTENDS Leds

VARIABLES
  pressed,      \* pressed_, and the level of the pin that the handler copies to it
  wasPressed,   \* wasPressed_
  pending,      \* pending_
  since,        \* uptime - changedAt_
  at,           \* where the task is, "out" between two calls
  held,         \* history: how long the latest press lasted
  raced         \* history: the handler ran inside the task, "now" in this call or "before",
                \* and no call has noticed a change since

buttonVars == <<pressed, wasPressed, pending, since, at, held, raced>>

Durations == {"tap", "short", "long"}
Pending == {"None", "Short", "Long"}
Places == {"out", "changed", "released", "seen", "down", "long", "short"}

ButtonTypeOK ==
  /\ pressed \in BOOLEAN /\ wasPressed \in BOOLEAN /\ raced \in {"no", "before", "now"}
  /\ pending \in Pending /\ at \in Places
  /\ since \in Durations /\ held \in Durations

\* The button may be held when the task is enqueued, which runs the handler.
ButtonInit ==
  /\ pressed \in BOOLEAN /\ wasPressed = FALSE /\ pending = "None"
  /\ since = (IF pressed THEN "tap" ELSE "long")
  /\ at = "out" /\ held = "tap" /\ raced = "no"

-----------------------------------------------------------------------------
(* UserButton::handler *)

Interrupts == IF at # "out" THEN "now" ELSE raced

\* Mutant of HandlerPressed: what the press before made pending stays.
HandlerPressedKeeps ==
  /\ ~pressed /\ pressed' = TRUE
  /\ since' = "tap" /\ held' = "tap"
  /\ raced' = Interrupts
  /\ UNCHANGED <<wasPressed, pending, at>>

HandlerPressed ==
  /\ ~pressed /\ pressed' = TRUE
  /\ pending' = "None" /\ since' = "tap" /\ held' = "tap"
  /\ raced' = Interrupts
  /\ UNCHANGED <<wasPressed, at>>

HandlerReleased ==
  /\ pressed /\ pressed' = FALSE
  /\ since' = "long"
  /\ raced' = Interrupts
  /\ UNCHANGED <<wasPressed, pending, at, held>>

\* Time passes while the button is held.
Hold ==
  /\ pressed /\ since # "long"
  /\ since' = (IF since = "tap" THEN "short" ELSE "long") /\ held' = since'
  /\ UNCHANGED <<pressed, wasPressed, pending, at, raced>>

-----------------------------------------------------------------------------
(* UserButton::task *)

buttonRead == <<pressed, since, held>>

ButtonTask ==
  /\ at = "out"
  /\ at' = IF wasPressed # pressed THEN "changed" ELSE "down"
  /\ raced' = IF raced = "now" THEN "before" ELSE raced
  /\ UNCHANGED <<buttonRead, wasPressed, pending, ledVars>>

\* A change that no handler of this call has come upon.
Settles == IF raced = "before" THEN "no" ELSE raced

\* notifyButtonPressed counts as activity of the user before it asks whether the LED is
\* disabled.
NoticePressed ==
  /\ at = "changed" /\ pressed
  /\ at' = "seen" /\ raced' = Settles
  /\ recent' = TRUE /\ active' = Pushed("Button", TRUE)
  /\ UNCHANGED <<buttonRead, wasPressed, pending, copied>>

NoticeReleased ==
  /\ at = "changed" /\ ~pressed
  /\ at' = "released"
  /\ Cancel("Button")
  /\ UNCHANGED <<buttonRead, wasPressed, pending, raced>>

\* The event the state machine gets is the pending one.
SendEvent ==
  /\ at = "released"
  /\ at' = "seen" /\ pending' = "None" /\ raced' = Settles
  /\ UNCHANGED <<buttonRead, wasPressed, ledVars>>

Remember ==
  /\ at = "seen"
  /\ at' = "down" /\ wasPressed' = pressed
  /\ UNCHANGED <<buttonRead, pending, raced, ledVars>>

LookDown ==
  /\ at = "down"
  /\ at' = IF pressed THEN "long" ELSE "out"
  /\ UNCHANGED <<buttonRead, wasPressed, pending, raced, ledVars>>

\* The time that passed since changedAt_ is longer than the duration: it is pending, and
\* shown when it was not.
Becomes(p) ==
  /\ at' = "out" /\ pending' = p
  /\ IF pending = p THEN UNCHANGED ledVars ELSE Push("Button")

LookLong ==
  /\ at = "long"
  /\ IF since = "long" THEN Becomes("Long")
     ELSE at' = "short" /\ UNCHANGED <<pending, ledVars>>
  /\ UNCHANGED <<buttonRead, wasPressed, raced>>

LookShort ==
  /\ at = "short"
  /\ IF since # "tap" THEN Becomes("Short")
     ELSE at' = "out" /\ UNCHANGED <<pending, ledVars>>
  /\ UNCHANGED <<buttonRead, wasPressed, raced>>

ButtonStep ==
  \/ NoticePressed \/ NoticeReleased \/ SendEvent \/ Remember
  \/ LookDown \/ LookLong \/ LookShort
=============================================================================
