---------------------------- MODULE FirmwareBank ----------------------------
(***************************************************************************)
(* What the flash of a processor promises its bootloader: the bank it      *)
(* flashes from is replaced in one step and as a whole, by firmware that   *)
(* is offered at that moment, and the program is only ever replaced by     *)
(* what is in the bank.  There are no files, no super block, no transfers  *)
(* and no power failures here.                                             *)
(***************************************************************************)

CONSTANTS
  Firmware,   \* what is published
  Nothing     \* in an empty bank

VARIABLES
  offered,    \* firmware that a transfer may bring
  pending,    \* in the bank
  program     \* what the processor runs

vars == <<offered, pending, program>>

Init ==
  /\ offered \subseteq Firmware
  /\ pending = Nothing
  /\ program \in Firmware

Offer ==
  /\ offered' \subseteq Firmware
  /\ UNCHANGED <<pending, program>>

Install ==
  /\ pending' \in offered
  /\ UNCHANGED <<offered, program>>

Clear ==
  /\ pending' = Nothing
  /\ UNCHANGED <<offered, program>>

Flash ==
  /\ pending # Nothing
  /\ program' = pending
  /\ UNCHANGED <<offered, pending>>

Next == Offer \/ Install \/ Clear \/ Flash

Spec == Init /\ [][Next]_vars
=============================================================================
