------------------------------ MODULE NfcLink -------------------------------
(***************************************************************************)
(* The reader: the task that polls the PN532 and runs a transaction for    *)
(* the phone it finds, and the restarts by which the CHIP task gives it    *)
(* another identity.                                                       *)
(*                                                                         *)
(* Below the task are the PN532 driver (s_pn532) and the adapter that      *)
(* holds its configuration (s_cfg); above it is the Aliro SDK, which is    *)
(* external, as are the chip and the bus it hangs on.  Only one of the two *)
(* tasks uses the driver at a time: a restart waits for the reader task.   *)
(***************************************************************************)
EXTENDS Naturals

CONSTANTS
  Ids,         \* reader group identifiers
  Zero,        \* the one that is all zeros: no beacon
  None,
  Threshold,   \* PN532_RECOVERY_THRESHOLD
  MaxAttempts, \* APDU_MAX_ATTEMPTS
  Apdus,       \* APDUs of a whole transaction
  DeviceSlots, \* devices the bus takes
  ResetWired,  \* whether the board wired RSTPD_N
  SdkFails     \* whether an SDK call on the reader may fail

ASSUME IdsAssumption ==
  /\ Zero \in Ids /\ None \notin Ids
  /\ None \notin [id : Ids, enabled : BOOLEAN]   \* a reader
ASSUME BoundsAssumption == {Threshold, MaxAttempts, Apdus, DeviceSlots} \subseteq Nat \ {0}
ASSUME SwitchesAssumption == {ResetWired, SdkFails} \subseteq BOOLEAN

VARIABLES
  transport, \* s_cfg.reader_id of the adapter
  dev,       \* s_pn532: ready, selected, cfg.reader_id and the beacon's identifier
  started,   \* pn532_begin()'s static flag
  failures,  \* s_consecutive_failures
  devices,   \* devices added to the bus
  chip,      \* "up", or "deaf" until it is reset
  reader,    \* the SDK's reader: its identifier and whether it is enabled, or None
  running,   \* s_reader.running
  task,      \* what the reader task does next; "none" is s_reader.task = NULL
  exchange,  \* the transaction's APDU and the attempt at it
  chipPc,    \* the CHIP task: "idle", "stopping" (waits), "starting"
  wanted     \* the identifier it restarts the reader with

link == <<transport, dev, started, failures, devices, chip>>
sdk == <<reader, running>>
vars == <<link, sdk, task, exchange, chipPc, wanted>>

NoExchange == [apdu |-> 0, attempt |-> 0]
Apdu(n) == [apdu |-> n, attempt |-> 1]

(* At boot app_main starts the reader; afterwards only the CHIP task does. *)
Init ==
  /\ transport = Zero
  /\ dev = [ready |-> FALSE, selected |-> FALSE, id |-> Zero, beacon |-> None]
  /\ started = FALSE /\ failures = 0 /\ devices = 0
  /\ chip \in {"up", "deaf"}
  /\ reader = None /\ running = FALSE
  /\ task = "none" /\ exchange = NoExchange
  /\ chipPc = "starting" /\ wanted \in Ids

(* The chip stops answering: radio bring-up knocks it off the bus. *)
GoesDeaf ==
  /\ chip = "up" /\ chip' = "deaf"
  /\ UNCHANGED <<transport, dev, started, failures, devices, sdk, task, exchange,
                 chipPc, wanted>>

-----------------------------------------------------------------------------
(* The driver *)

(* pn532_command(): acknowledged, and answered by a whole frame for this     *)
(* command.  Whatever else comes back, or nothing, is a failure, which can   *)
(* happen to a chip that is up as well.                                      *)
Answers(c) == c = "up"

(* configure_ecp() *)
Beacon(id) == IF id = Zero THEN None ELSE id

(* bus_init(): the bus once, and on it one more device at every call.        *)
AddDevice == devices < DeviceSlots /\ devices' = devices + 1

(* hardware_reset() and wake() *)
ResetChip == chip' \in IF ResetWired THEN {chip, "up"} ELSE {chip}

(* pn532_start() on the struct d.  ok and dev' are what it returns and       *)
(* leaves; any command of the chip's configuration may fail.                 *)
StartChip(d, ok) ==
  \/ /\ ~ok /\ devices = DeviceSlots
     /\ dev' = d /\ UNCHANGED <<devices, chip>>
  \/ /\ AddDevice /\ ResetChip
     /\ \/ /\ ok /\ Answers(chip')
           /\ dev' = [d EXCEPT !.ready = TRUE, !.beacon = Beacon(d.id)]
        \/ ~ok /\ dev' = d

(* The first call, and every one until the chip has been found. *)
FirstBegin(ok) ==
  /\ ~started /\ started' = ok
  /\ StartChip([ready |-> FALSE, selected |-> FALSE, id |-> transport', beacon |-> None], ok)

(* Mutant: the beacon's frame is renewed and the identifier it is rebuilt    *)
(* from after a recovery is not.                                             *)
BeginFrameOnly(ok) ==
  \/ FirstBegin(ok)
  \/ /\ started /\ ok
     /\ dev' = [dev EXCEPT !.beacon = Beacon(transport')]
     /\ UNCHANGED <<started, devices, chip>>

(* pn532_begin().  After the first success only the beacon is renewed.       *)
Begin(ok) ==
  \/ FirstBegin(ok)
  \/ /\ started /\ ok
     /\ dev' = [dev EXCEPT !.id = transport', !.beacon = Beacon(transport')]
     /\ UNCHANGED <<started, devices, chip>>

(* attempt_recovery() *)
Recover ==
  /\ failures + 1 >= Threshold
  /\ failures' = 0
  /\ \E ok \in BOOLEAN : StartChip([dev EXCEPT !.ready = FALSE], ok)

(* Mutant: a failed poll counts only when the one before it succeeded. *)
PollFailsOnce ==
  /\ failures' = IF failures = 0 THEN 1 ELSE failures
  /\ UNCHANGED <<dev, devices, chip>>

PollFails ==
  \/ Recover
  \/ /\ failures + 1 < Threshold
     /\ failures' = failures + 1
     /\ UNCHANGED <<dev, devices, chip>>

(* An empty field, where broadcast_ecp() sends the beacon and nothing comes  *)
(* of its failures, or something that does not speak ISO 14443-4.            *)
NoTarget == task' = "loop" /\ UNCHANGED dev

(* pn532_activate() *)
Poll ==
  /\ task = "poll"
  /\ \/ /\ ~dev.ready
        /\ task' = "loop" /\ UNCHANGED <<dev, failures, devices, chip>>
     \/ /\ dev.ready
        /\ PollFails /\ task' = "loop"
     \/ /\ dev.ready /\ Answers(chip)
        /\ failures' = 0
        /\ \/ NoTarget
           \/ task' = "create" /\ dev' = [dev EXCEPT !.selected = TRUE]
        /\ UNCHANGED <<devices, chip>>
  /\ UNCHANGED <<transport, started, sdk, exchange, chipPc, wanted>>

-----------------------------------------------------------------------------
(* The reader task *)

(* Mutant: the flag is read once (it is not volatile). *)
LoopFlagCached ==
  /\ task = "loop" /\ task' = "poll"
  /\ UNCHANGED <<link, sdk, exchange, chipPc, wanted>>

Loop ==
  /\ task = "loop"
  /\ task' = IF running THEN "poll" ELSE "none"
  /\ UNCHANGED <<link, sdk, exchange, chipPc, wanted>>

CreateSession ==
  /\ task = "create"
  /\ \/ task' = "exchange" /\ exchange' = Apdu(1)
     \/ SdkFails /\ task' = "release" /\ UNCHANGED exchange
  /\ UNCHANGED <<link, sdk, chipPc, wanted>>

(* The SDK goes on with the next APDU, or has had enough. *)
Answered ==
  /\ UNCHANGED dev
  /\ \/ /\ exchange.apdu < Apdus
        /\ exchange' = Apdu(exchange.apdu + 1) /\ UNCHANGED task
     \/ task' = "delete" /\ exchange' = NoExchange

(* One attempt of on_message_exchange() has failed.  After the last the SDK  *)
(* gives the transaction up.                                                 *)
AttemptFails ==
  IF exchange.attempt < MaxAttempts
  THEN exchange' = [exchange EXCEPT !.attempt = @ + 1] /\ UNCHANGED task
  ELSE exchange' = NoExchange /\ task' = "delete"

(* pn532_message_exchange(): nothing is sent without a target; an answer is  *)
(* the phone's, or an error, which deselects the target; or there is no      *)
(* answer, or none that can be used.                                         *)
Attempt ==
  /\ task = "exchange"
  /\ \/ /\ dev.selected /\ Answers(chip)
        /\ \/ Answered
           \/ AttemptFails /\ dev' = [dev EXCEPT !.selected = FALSE]
     \/ AttemptFails /\ UNCHANGED dev
  /\ UNCHANGED <<transport, started, failures, devices, chip, sdk, chipPc, wanted>>

DeleteSession ==
  /\ task = "delete"
  /\ task' = "release" /\ exchange' = NoExchange
  /\ UNCHANGED <<link, sdk, chipPc, wanted>>

(* pn532_deactivate(), whatever comes of the command; then the result is     *)
(* handed on (module LockOutput).                                            *)
Release ==
  /\ task = "release"
  /\ dev' = [dev EXCEPT !.selected = FALSE]
  /\ task' = "loop"
  /\ UNCHANGED <<transport, started, failures, devices, chip, sdk, exchange, chipPc, wanted>>

ReaderTask ==
  Loop \/ Poll \/ CreateSession \/ Attempt \/ DeleteSession \/ Release

-----------------------------------------------------------------------------
(* The CHIP task: reader_set_identity() stops the reader and starts it anew. *)

(* aliro_reader_stop() does nothing for a reader that does not run. *)
Restart(id) ==
  /\ chipPc = "idle"
  /\ wanted' = id
  /\ running' = FALSE
  /\ chipPc' = IF running THEN "stopping" ELSE "starting"
  /\ UNCHANGED <<link, reader, task, exchange>>

(* Mutant: the reader is torn down without waiting for its task. *)
StopAtOnce ==
  /\ chipPc = "stopping"
  /\ reader' = None
  /\ chipPc' = "starting"
  /\ UNCHANGED <<link, running, task, exchange, wanted>>

(* A failure to disable or delete it is logged, and the restart goes on.     *)
Stop ==
  /\ chipPc = "stopping" /\ task = "none"
  /\ reader' \in {None} \cup IF SdkFails THEN {reader, [reader EXCEPT !.enabled = FALSE]} ELSE {}
  /\ chipPc' = "starting"
  /\ UNCHANGED <<link, running, task, exchange, wanted>>

(* The SDK takes one reader at a time; one that is created and then not      *)
(* enabled is left behind, and one that gets no task is deleted.             *)
StartReader ==
  \/ /\ reader # None \/ SdkFails
     /\ UNCHANGED <<reader, running, task>>
  \/ /\ reader = None /\ SdkFails
     /\ reader' = [id |-> wanted, enabled |-> FALSE]
     /\ UNCHANGED <<running, task>>
  \/ /\ reader = None
     /\ reader' \in {None} \cup IF SdkFails THEN {[id |-> wanted, enabled |-> TRUE]} ELSE {}
     /\ UNCHANGED <<running, task>>
  \/ /\ reader = None
     /\ reader' = [id |-> wanted, enabled |-> TRUE]
     /\ running' = TRUE /\ task' = "loop"

(* nfc_transport_set_reader_id() *)
SetReaderId == transport' = wanted

(* start_reader(): the identifier is handed to the adapter, then             *)
(* aliro_reader_start().                                                     *)
Start ==
  /\ chipPc = "starting"
  /\ SetReaderId
  /\ \/ Begin(TRUE) /\ StartReader
     \/ Begin(FALSE) /\ UNCHANGED <<reader, running, task>>
  /\ chipPc' = "idle"
  /\ UNCHANGED <<failures, exchange, wanted>>

-----------------------------------------------------------------------------
Next ==
  \/ GoesDeaf
  \/ ReaderTask
  \/ \E id \in Ids : Restart(id)
  \/ Stop \/ Start

Spec == Init /\ [][Next]_vars

(* Both tasks are scheduled. Nobody has to restart the reader. *)
Fairness == WF_vars(ReaderTask) /\ WF_vars(Stop \/ Start)

FairSpec == Spec /\ Fairness

-----------------------------------------------------------------------------
(* A transaction runs on a reader that exists and is enabled from its first  *)
(* APDU until its session is deleted, whatever restarts come in between.     *)
SessionHasReader ==
  task \in {"exchange", "delete"} => reader # None /\ reader.enabled

(* While a phone can be met, the beacon names the reader that will run the   *)
(* transaction: across restarts, recoveries, and one after the other.        *)
BeaconNamesReader ==
  task # "none" => dev.beacon = Beacon(reader.id) /\ dev.id = reader.id

(* A restart gets past its wait, with a phone in mid-transaction too.        *)
RestartReturns == chipPc # "idle" ~> chipPc = "idle"

(* A chip that has gone deaf is reset, and answers again or is given up, as  *)
(* long as the reader runs.                                                  *)
DeafIsNoticed ==
  (running /\ dev.ready /\ chip = "deaf") ~> (chip = "up" \/ ~dev.ready \/ ~running)
=============================================================================
