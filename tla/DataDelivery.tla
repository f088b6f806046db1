---------------------------- MODULE DataDelivery ----------------------------
(***************************************************************************)
(* What the upload of one file promises.  Records are written to the file  *)
(* and delivered to a server, and a cursor says up to where: it moves past *)
(* a record only once a server has accepted it, so that no record that is  *)
(* still in the file is left out.  The cursor may fall back to 0, and then *)
(* records are delivered again.                                            *)
(*                                                                         *)
(* The promise ends when the file is erased and its cursor is not, or when *)
(* the server says it accepted what it did not: the cursor is in doubt     *)
(* until it is back at 0.                                                  *)
(***************************************************************************)
EXTENDS Naturals

VARIABLES content, cursor, received, doubtful

vars == <<content, cursor, received, doubtful>>

Init == content = 0 /\ cursor = 0 /\ received = {} /\ doubtful = FALSE

Write ==
  /\ content' \in Nat /\ content' > content
  /\ UNCHANGED <<cursor, received, doubtful>>

Deliver ==
  /\ \E first \in 1 .. content, last \in 1 .. content :
       received' = received \union (first .. last)
  /\ UNCHANGED <<content, cursor, doubtful>>

Advance ==
  /\ cursor' \in Nat /\ cursor' > 0
  /\ doubtful \/ 1 .. cursor' \subseteq received
  /\ UNCHANGED <<content, received, doubtful>>

Misled ==
  /\ cursor' \in Nat /\ cursor' > 0
  /\ doubtful' = TRUE
  /\ UNCHANGED <<content, received>>

Rewind ==
  /\ cursor' = 0 /\ doubtful' = FALSE
  /\ UNCHANGED <<content, received>>

\* The file may hold new records by the time it is seen again.
Erase ==
  /\ content' \in Nat /\ received' = {}
  /\ \/ UNCHANGED cursor /\ doubtful' = (cursor > 0)
     \/ cursor' = 0 /\ doubtful' = FALSE

Next == Write \/ Deliver \/ Advance \/ Misled \/ Rewind \/ Erase

Spec == Init /\ [][Next]_vars

CursorSound == doubtful \/ 1 .. cursor \subseteq received
=============================================================================
