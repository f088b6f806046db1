-------------------------- MODULE ReadingSession --------------------------
(***************************************************************************)
(* The data log as the core's reading states promise to fill it, without   *)
(* the link, the module or the faults between them.  A reading has a       *)
(* number, is open until its gather ends, and records sensors in their     *)
(* order, none of them twice.  If the link is Reliable it records only     *)
(* what was taken for it, and does not count as complete before it has     *)
(* every sensor: only the first may be missing, and only if the reading    *)
(* skips, that is, if the link had to send one of its queries again to a   *)
(* module that had it already.                                             *)
(***************************************************************************)
EXTENDS Naturals, Sequences

CONSTANTS NumSensors, Reliable

VARIABLES
  number,    \* of the latest reading
  open,      \* it still records
  skips,     \* the reading may miss its first sensor
  log,       \* what was recorded
  complete   \* the readings that ended without an error

Init ==
  /\ number = 0
  /\ open = FALSE
  /\ skips = FALSE
  /\ log = <<>>
  /\ complete = {}

Recorded == {log[i].sensor : i \in {j \in DOMAIN log : log[j].number = number}}

\* The sensors a reading has to have, if the link is Reliable.
Due == {i \in 0 .. NumSensors - 1 : i = 0 => ~skips}

Begin ==
  /\ ~open /\ open' = TRUE
  /\ number' = number + 1
  /\ skips' = FALSE
  /\ UNCHANGED <<log, complete>>

Skip ==
  /\ skips' = TRUE
  /\ UNCHANGED <<number, open, log, complete>>

Record(s, g) ==
  /\ open
  /\ \A t \in Recorded : t < s
  /\ Reliable => g = number /\ \A t \in Due : t < s => t \in Recorded
  /\ log' = Append(log, [number |-> number, sensor |-> s, gather |-> g])
  /\ UNCHANGED <<number, open, skips, complete>>

Complete ==
  /\ open /\ open' = FALSE
  /\ Reliable => Due \subseteq Recorded
  /\ complete' = complete \union {number}
  /\ UNCHANGED <<number, skips, log>>

Fail ==
  /\ open /\ open' = FALSE
  /\ UNCHANGED <<number, skips, log, complete>>

Next ==
  \/ Begin \/ Skip \/ Complete \/ Fail
  \/ \E s \in 0 .. NumSensors - 1, g \in 0 .. number : Record(s, g)

Spec == Init /\ [][Next]_<<number, open, skips, log, complete>>
=============================================================================
