---------------------------- MODULE RecordIdPool ----------------------------
(***************************************************************************)
(* What the daemon promises about record ids, whatever it keeps them in:   *)
(* an id is handed out only while no undeleted record holds it, and an Add *)
(* is refused (answered with selInvalidRecID) only when every id is held.  *)
(* The promise can be lost (trusted = FALSE) and only Clear restores it;   *)
(* each implementation says what loses it.                                 *)
(***************************************************************************)
EXTENDS Integers

CONSTANT selInvalidRecID

VARIABLES
  held,     \* ids held by records that were added and not deleted
  recordId, \* the id the last Add was given
  trusted   \* the promise holds

vars == <<held, recordId, trusted>>

Ids == 1 .. selInvalidRecID - 1

Init ==
  /\ held = {}
  /\ recordId = 0
  /\ trusted = TRUE

Issue ==
  /\ recordId' \in Ids \ held
  /\ held' = held \cup {recordId'}

Refuse ==
  /\ held = Ids
  /\ recordId' = selInvalidRecID
  /\ UNCHANGED held

Release ==
  /\ \E i \in held : held' = held \ {i}
  /\ UNCHANGED recordId

Clear ==
  /\ held' = {}
  /\ trusted' = TRUE
  /\ UNCHANGED recordId

Next ==
  \/ trusted /\ trusted' /\ (Issue \/ Refuse \/ Release)
  \/ Clear
  \/ trusted' = FALSE \* the promise is lost, or stays lost

Spec == Init /\ [][Next]_vars
=============================================================================
