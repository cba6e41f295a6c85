----------------------------- MODULE LockPublish -----------------------------
(***************************************************************************)
(* How the lock output reaches an MQTT broker: components/mqtt_manager.    *)
(*                                                                         *)
(* The lock state is a retained message.  on_access_event(), on whichever  *)
(* task moved the lock, publishes each change while the client says that   *)
(* it is connected; what changed in between is made up for by the MQTT     *)
(* client's task, which reads s_locked and publishes it when a connection  *)
(* is made, and again when the broker commands LOCK.  That task also opens *)
(* the door when the broker commands UNLOCK.                               *)
(*                                                                         *)
(* The client library and the broker are external.  A message written to a *)
(* connection arrives in order or is lost with the connection, and what    *)
(* was not acknowledged may be sent again over the next one.               *)
(***************************************************************************)
EXTENDS LockOutput, Naturals, Sequences

CONSTANTS
  Mqtt,       \* the MQTT client's task
  MaxFlight   \* messages the connection takes before publishing has to wait

ASSUME MqttAssumption == Mqtt \in Threads \ Lockers
ASSUME FlightAssumption == MaxFlight \in Nat \ {0}

VARIABLES
  boot,       \* mqtt_manager_start(): "down", "client" (started), "watched"
  link,       \* there is a connection to the broker
  connected,  \* s_mqtt.connected
  mqttPc,     \* what the MQTT task does: "idle", "read", "publish"
  answer,     \* the state it has read and not published yet
  flight,     \* levels written to the connection and not arrived
  again,      \* levels the library may send over the next connection
  retained,   \* the level the broker retains
  doubtful    \* history: the level sent last may not be that of the last change

mqttVars == <<boot, link, connected, mqttPc, answer, flight, again, retained, doubtful>>
publishVars == <<vars, mqttVars>>

(* The broker may retain anything from before the boot. *)
PublishInit ==
  /\ Init
  /\ boot = "down" /\ link = FALSE /\ connected = FALSE
  /\ mqttPc = "idle" /\ answer = "locked"
  /\ flight = <<>> /\ again = {}
  /\ retained \in Levels
  /\ doubtful = FALSE

-----------------------------------------------------------------------------
(* The library and the broker *)

(* publish(): the library writes it to the connection, where it may have to  *)
(* wait; without one, it is kept for the next.                               *)
Send(level) ==
  IF link
  THEN /\ Len(flight) < MaxFlight
       /\ flight' = Append(flight, level) /\ UNCHANGED again
  ELSE again' = again \cup {level} /\ UNCHANGED flight

Arrive ==
  /\ flight # <<>>
  /\ retained' = Head(flight) /\ flight' = Tail(flight)
  /\ UNCHANGED <<vars, boot, link, connected, mqttPc, answer, again, doubtful>>

Connect ==
  /\ boot # "down" /\ ~link /\ ~connected
  /\ mqttPc = "idle" /\ pc[Mqtt] = "idle"
  /\ link' = TRUE
  /\ UNCHANGED <<vars, boot, connected, mqttPc, answer, flight, again, retained, doubtful>>

(* Some of what was in flight has arrived, and none is acknowledged. *)
LoseLink ==
  /\ link /\ link' = FALSE
  /\ retained' \in {retained} \cup {flight[i] : i \in DOMAIN flight}
  /\ again' = again \cup {flight[i] : i \in DOMAIN flight}
  /\ flight' = <<>>
  /\ UNCHANGED <<vars, boot, connected, mqttPc, answer, doubtful>>

(* What is sent again may be older than what was sent since. *)
SendAgain ==
  /\ link /\ Len(flight) < MaxFlight
  /\ \E level \in again :
       flight' = Append(flight, level) /\ again' = again \ {level}
  /\ doubtful' = connected
  /\ UNCHANGED <<vars, boot, link, connected, mqttPc, answer, retained>>

Expire ==
  /\ \E level \in again : again' = again \ {level}
  /\ UNCHANGED <<vars, boot, link, connected, mqttPc, answer, flight, retained, doubtful>>

-----------------------------------------------------------------------------
(* mqtt_manager_start(): the observer is registered once the client runs. *)

StartClient ==
  /\ boot = "down" /\ boot' = "client"
  /\ UNCHANGED <<vars, link, connected, mqttPc, answer, flight, again, retained, doubtful>>

AddMqttObserver ==
  /\ boot = "client" /\ boot' = "watched"
  /\ UNCHANGED <<vars, link, connected, mqttPc, answer, flight, again, retained, doubtful>>

-----------------------------------------------------------------------------
(* on_access_event(), on the task that moved the lock *)

(* A change is not published before the observer is there; an answer that    *)
(* was read earlier and says something else comes after it.                  *)
Observe(level) ==
  /\ IF boot = "watched" /\ connected
     THEN Send(level)
     ELSE UNCHANGED <<flight, again>>
  /\ doubtful' = \/ connected /\ boot # "watched"
                 \/ mqttPc = "publish" /\ answer # level
  /\ UNCHANGED <<boot, link, connected, mqttPc, answer, retained>>

(* Other tasks move the lock when they like, the MQTT task on UNLOCK.        *)
Quietly ==
  /\ \/ \E t \in Threads \ {Mqtt} : UnlockStop(t)
     \/ \E t \in Threads : UnlockGpio(t) \/ UnlockFlag(t) \/ UnlockArm(t)
     \/ \E t \in Threads : LockStop(t) \/ LockGpio(t) \/ LockTest(t) \/ LockFlag(t)
     \/ RelockFire \/ RelockGpio \/ RelockFlag
  /\ UNCHANGED mqttVars

Announced ==
  \/ (\E t \in Threads : UnlockNotify(t)) /\ Observe("unlocked")
  \/ (\E t \in Threads : LockNotify(t)) /\ Observe("locked")
  \/ RelockNotify /\ Observe("locked")

-----------------------------------------------------------------------------
(* on_mqtt_event(), on the MQTT task, one event at a time *)

Free == mqttPc = "idle" /\ pc[Mqtt] = "idle"

(* Mutant: nothing is published on a connection: the broker still retains    *)
(* the level.                                                                *)
OnConnectedTrusting ==
  /\ Free /\ link /\ ~connected
  /\ connected' = TRUE /\ UNCHANGED mqttPc
  /\ UNCHANGED <<vars, boot, link, answer, flight, again, retained, doubtful>>

OnConnected ==
  /\ Free /\ link /\ ~connected
  /\ connected' = TRUE /\ mqttPc' = "read"
  /\ UNCHANGED <<vars, boot, link, answer, flight, again, retained, doubtful>>

OnDisconnected ==
  /\ Free /\ ~link /\ connected
  /\ connected' = FALSE /\ doubtful' = FALSE
  /\ UNCHANGED <<vars, boot, link, mqttPc, answer, flight, again, retained>>

(* handle_command() *)
OnUnlock ==
  /\ Free /\ link /\ connected
  /\ UnlockStop(Mqtt)
  /\ UNCHANGED mqttVars

OnLock ==
  /\ Free /\ link /\ connected
  /\ mqttPc' = "read"
  /\ UNCHANGED <<vars, boot, link, connected, answer, flight, again, retained, doubtful>>

(* publish_lock_state(access_control_is_locked()) *)
ReadState ==
  /\ mqttPc = "read"
  /\ answer' = IF sLocked THEN "locked" ELSE "unlocked"
  /\ mqttPc' = "publish"
  /\ doubtful' = FALSE
  /\ UNCHANGED <<vars, boot, link, connected, flight, again, retained>>

PublishState ==
  /\ mqttPc = "publish"
  /\ Send(answer)
  /\ mqttPc' = "idle" /\ answer' = "locked"
  /\ UNCHANGED <<vars, boot, link, connected, retained, doubtful>>

MqttTask == OnConnected \/ OnDisconnected \/ ReadState \/ PublishState

-----------------------------------------------------------------------------
PublishNext ==
  \/ Quietly \/ Announced
  \/ StartClient \/ AddMqttObserver
  \/ MqttTask \/ OnUnlock \/ OnLock
  \/ Connect \/ LoseLink \/ Arrive \/ SendAgain \/ Expire

PublishSpec == PublishInit /\ [][PublishNext]_publishVars

-----------------------------------------------------------------------------
PublishDone ==
  /\ AtRest /\ Free
  /\ link /\ connected
  /\ flight = <<>> /\ again = {}

(* With nothing under way and a connection made, the broker retains what the *)
(* lock does, whatever was announced while there was none and however often  *)
(* it was lost: unless what was sent last was old (doubtful), or the         *)
(* observers themselves were last told that the door is open, which a Lock   *)
(* inside an Unlock and another one after it can leave them with.            *)
RetainedIsState ==
  PublishDone /\ ~doubtful /\ announced = "locked" => retained = gpio
=============================================================================
