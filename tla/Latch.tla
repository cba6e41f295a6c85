------------------------------- MODULE Latch -------------------------------
(***************************************************************************)
(* What the lock output promises, with the threads left out.               *)
(*                                                                         *)
(* The door may open only while a later locking of it is owed to somebody: *)
(* the relock timer, a callback already running, or a call in progress.    *)
(* The debt is paid only by driving the output to locked.                  *)
(***************************************************************************)
VARIABLES
  door,    \* level of the lock output: "locked" or "unlocked"
  owed     \* TRUE while somebody is bound to lock the door (again)

vars == <<door, owed>>

Levels == {"locked", "unlocked"}

TypeOK ==
  /\ door \in Levels
  /\ owed \in BOOLEAN

Init ==
  /\ door = "locked"
  /\ owed = FALSE

(* Somebody takes on the duty of locking, before touching the door. *)
Owe ==
  /\ owed' = TRUE
  /\ UNCHANGED door

(* The door opens under a debt that is already there, and stays. *)
Open ==
  /\ owed
  /\ door' = "unlocked"
  /\ UNCHANGED owed

(* The door is locked; the debt may be discharged, or another one remain. *)
Shut ==
  /\ owed
  /\ door' = "locked"
  /\ owed' \in BOOLEAN

Next == Owe \/ Open \/ Shut

Spec == Init /\ [][Next]_vars
=============================================================================
