----------------------------- MODULE LockOutput -----------------------------
(***************************************************************************)
(* The lock output of components/access_control/access_control.c.          *)
(*                                                                         *)
(* access_control_unlock_from() and access_control_lock_from() are called, *)
(* without any lock, from the reader task, the CHIP task, the web server's *)
(* task and the MQTT task; relock() runs on the esp_timer task.  Every     *)
(* statement of theirs that touches shared state is a step of its own, and *)
(* the steps of different threads interleave freely.                       *)
(*                                                                         *)
(* The one-shot timer is esp_timer's: dispatch first takes the timer off   *)
(* the armed list and then calls back without holding anything, so a       *)
(* callback that is already running cannot be stopped.                     *)
(***************************************************************************)
CONSTANTS
  Threads,   \* the tasks that call into access_control
  Lockers    \* those that also call access_control_lock_from()

ASSUME LockersAreThreads == Lockers \subseteq Threads

VARIABLES
  pc,         \* pc[t]: the next statement of thread t, "idle" between calls
  gpio,       \* level driven on the lock pin
  sLocked,    \* s_locked
  armed,      \* s_relock_timer is armed
  relockPc,   \* next statement of relock() on the timer task
  ret,        \* ret[t]: what t's last call returned
  announced   \* .locked of the last ACCESS_EVENT_LOCK_STATE an observer saw

vars == <<pc, gpio, sLocked, armed, relockPc, ret, announced>>

Levels == {"locked", "unlocked"}
UnlockPcs == {"u_gpio", "u_flag", "u_notify", "u_arm"}
LockPcs == {"l_gpio", "l_test", "l_flag", "l_notify"}
RelockPcs == {"idle", "r_gpio", "r_flag", "r_notify"}

TypeOK ==
  /\ pc \in [Threads -> {"idle"} \cup UnlockPcs \cup LockPcs]
  /\ gpio \in Levels
  /\ sLocked \in BOOLEAN
  /\ armed \in BOOLEAN
  /\ relockPc \in RelockPcs
  /\ ret \in [Threads -> {"ok", "invalid_state"}]
  /\ announced \in Levels

Goto(t, label) == pc' = [pc EXCEPT ![t] = label]

(* access_control_init(): the pin is driven locked before anything can run. *)
Init ==
  /\ pc = [t \in Threads |-> "idle"]
  /\ gpio = "locked"
  /\ sLocked = TRUE
  /\ armed = FALSE
  /\ relockPc = "idle"
  /\ ret = [t \in Threads |-> "ok"]
  /\ announced = "locked"

-----------------------------------------------------------------------------
(* access_control_unlock_from() *)

UnlockStop(t) ==
  /\ pc[t] = "idle"
  /\ armed' = FALSE
  /\ Goto(t, "u_gpio")
  /\ UNCHANGED <<gpio, sLocked, relockPc, ret, announced>>

UnlockGpio(t) ==
  /\ pc[t] = "u_gpio"
  /\ gpio' = "unlocked"
  /\ Goto(t, "u_flag")
  /\ UNCHANGED <<sLocked, armed, relockPc, ret, announced>>

UnlockFlag(t) ==
  /\ pc[t] = "u_flag"
  /\ sLocked' = FALSE
  /\ Goto(t, "u_notify")
  /\ UNCHANGED <<gpio, armed, relockPc, ret, announced>>

UnlockNotify(t) ==
  /\ pc[t] = "u_notify"
  /\ announced' = "unlocked"
  /\ Goto(t, "u_arm")
  /\ UNCHANGED <<gpio, sLocked, armed, relockPc, ret>>

(* Mutant: the timer is only armed for a door that was closed before. *)
UnlockArmOnce(t) ==
  /\ pc[t] = "u_arm"
  /\ armed' = (armed \/ announced = "locked")
  /\ ret' = [ret EXCEPT ![t] = IF armed THEN "invalid_state" ELSE "ok"]
  /\ Goto(t, "idle")
  /\ UNCHANGED <<gpio, sLocked, relockPc, announced>>

(* esp_timer_start_once() refuses a timer another thread has armed since. *)
UnlockArm(t) ==
  /\ pc[t] = "u_arm"
  /\ armed' = TRUE
  /\ ret' = [ret EXCEPT ![t] = IF armed THEN "invalid_state" ELSE "ok"]
  /\ Goto(t, "idle")
  /\ UNCHANGED <<gpio, sLocked, relockPc, announced>>

Unlock(t) ==
  \/ UnlockStop(t) \/ UnlockGpio(t) \/ UnlockFlag(t)
  \/ UnlockNotify(t) \/ UnlockArm(t)

-----------------------------------------------------------------------------
(* access_control_lock_from() *)

LockStop(t) ==
  /\ t \in Lockers
  /\ pc[t] = "idle"
  /\ armed' = FALSE
  /\ Goto(t, "l_gpio")
  /\ UNCHANGED <<gpio, sLocked, relockPc, ret, announced>>

LockGpio(t) ==
  /\ pc[t] = "l_gpio"
  /\ gpio' = "locked"
  /\ Goto(t, "l_test")
  /\ UNCHANGED <<sLocked, armed, relockPc, ret, announced>>

(* if (!s_locked): an output that is already locked is not announced again. *)
LockTest(t) ==
  /\ pc[t] = "l_test"
  /\ IF sLocked
     THEN Goto(t, "idle") /\ ret' = [ret EXCEPT ![t] = "ok"]
     ELSE Goto(t, "l_flag") /\ UNCHANGED ret
  /\ UNCHANGED <<gpio, sLocked, armed, relockPc, announced>>

(* Mutant: the flag of a Lock is left to the relock timer, which was stopped. *)
LockFlagLeft(t) ==
  /\ pc[t] = "l_flag"
  /\ Goto(t, "l_notify")
  /\ UNCHANGED <<gpio, sLocked, armed, relockPc, ret, announced>>

LockFlag(t) ==
  /\ pc[t] = "l_flag"
  /\ sLocked' = TRUE
  /\ Goto(t, "l_notify")
  /\ UNCHANGED <<gpio, armed, relockPc, ret, announced>>

LockNotify(t) ==
  /\ pc[t] = "l_notify"
  /\ announced' = "locked"
  /\ ret' = [ret EXCEPT ![t] = "ok"]
  /\ Goto(t, "idle")
  /\ UNCHANGED <<gpio, sLocked, armed, relockPc>>

Lock(t) ==
  \/ LockStop(t) \/ LockGpio(t) \/ LockTest(t) \/ LockFlag(t) \/ LockNotify(t)

-----------------------------------------------------------------------------
(* relock(), on the one esp_timer task *)

RelockFire ==
  /\ armed
  /\ relockPc = "idle"
  /\ armed' = FALSE
  /\ relockPc' = "r_gpio"
  /\ UNCHANGED <<pc, gpio, sLocked, ret, announced>>

(* Mutant: relock() trusts s_locked and leaves the pin of a locked door.     *)
RelockGpioIfNotLocked ==
  /\ relockPc = "r_gpio"
  /\ gpio' = IF sLocked THEN gpio ELSE "locked"
  /\ relockPc' = "r_flag"
  /\ UNCHANGED <<pc, sLocked, armed, ret, announced>>

RelockGpio ==
  /\ relockPc = "r_gpio"
  /\ gpio' = "locked"
  /\ relockPc' = "r_flag"
  /\ UNCHANGED <<pc, sLocked, armed, ret, announced>>

RelockFlag ==
  /\ relockPc = "r_flag"
  /\ sLocked' = TRUE
  /\ relockPc' = "r_notify"
  /\ UNCHANGED <<pc, gpio, armed, ret, announced>>

RelockNotify ==
  /\ relockPc = "r_notify"
  /\ announced' = "locked"
  /\ relockPc' = "idle"
  /\ UNCHANGED <<pc, gpio, sLocked, armed, ret>>

Relock == RelockFire \/ RelockGpio \/ RelockFlag \/ RelockNotify

-----------------------------------------------------------------------------
Next ==
  \/ \E t \in Threads : Unlock(t) \/ Lock(t)
  \/ Relock

Spec == Init /\ [][Next]_vars

(* A call that has begun runs to its end (the tasks block on nothing in      *)
(* here), and an armed timer that stays armed fires; nobody is obliged to    *)
(* call.                                                                     *)
ThreadContinues(t) == pc[t] # "idle" /\ (Unlock(t) \/ Lock(t))

Fairness ==
  /\ \A t \in Threads : WF_vars(ThreadContinues(t))
  /\ WF_vars(Relock)

FairSpec == Spec /\ Fairness

-----------------------------------------------------------------------------
(* Who still has to drive the pin to locked: the armed timer, the running    *)
(* callback, a Lock that has not reached the pin, or an Unlock, which arms   *)
(* the timer as its last statement.                                          *)
Owed ==
  \/ armed
  \/ relockPc = "r_gpio"
  \/ \E t \in Threads : pc[t] \in UnlockPcs \cup {"l_gpio"}

(* The same debt for s_locked, which everyone writes after the pin. *)
FlagOwed ==
  \/ armed
  \/ relockPc \in {"r_gpio", "r_flag"}
  \/ \E t \in Threads : pc[t] \in UnlockPcs \cup {"l_gpio", "l_test", "l_flag"}

(* The pin is never left unlocked with nobody bound to lock it, however the  *)
(* calls of access_control_unlock_from(), access_control_lock_from() and     *)
(* relock() interleave: the timer each of them stops is armed again, or the  *)
(* pin is locked, by a statement still to come.                              *)
NeverLeftOpen == gpio = "unlocked" => Owed

(* s_locked, which the web UI, MQTT and Matter read, is never left FALSE     *)
(* with nobody bound to set it: it cannot keep saying "unlocked" for good.   *)
FlagNeverLeftOpen == ~sLocked => FlagOwed

(* Between calls, with no relock pending or running, the door is locked and  *)
(* access_control_is_locked() says so.                                       *)
AtRest ==
  /\ \A t \in Threads : pc[t] = "idle"
  /\ relockPc = "idle"
  /\ ~armed

AtRestLocked == AtRest => gpio = "locked" /\ sLocked

(* Once the calls stop coming, the door ends up locked for good and the flag *)
(* agrees: the relock of the last unlock is not lost to a race with a Lock,  *)
(* an earlier callback or another unlock's failing esp_timer_start_once().   *)
CallsStop == <>[](\A t \in Threads : pc[t] = "idle")

EndsLocked == CallsStop => <>[](gpio = "locked" /\ sLocked)

-----------------------------------------------------------------------------
(* LockOutput implements Latch: every level change happens under a debt that *)
(* only locking the door pays.                                               *)
Promise == INSTANCE Latch WITH door <- gpio, owed <- Owed

ImplementsLatch == Promise!Spec
=============================================================================
