---------------------------- MODULE NfcLinkProofs ----------------------------
(***************************************************************************)
(* The polling task, the restarts of the reader and the recoveries of the  *)
(* chip, for any identifiers, thresholds, attempts and buses: one reader   *)
(* runs, the beacon names it, and no transaction outlives it.              *)
(***************************************************************************)
EXTENDS NfcLink, TLAPS

Driver == [ready : BOOLEAN, selected : BOOLEAN, id : Ids, beacon : Ids \cup {None}]

Placed ==
  /\ task \in {"none", "loop", "poll", "create", "exchange", "delete", "release"}
  /\ chipPc \in {"idle", "stopping", "starting"}
  /\ dev \in Driver /\ transport \in Ids /\ wanted \in Ids
  /\ running \in BOOLEAN

(* Where a restart is, the task has been told to end, and from where the     *)
(* reader is made anew, it has.                                              *)
Handover ==
  /\ chipPc # "idle" => ~running
  /\ chipPc = "starting" \/ (chipPc = "idle" /\ ~running) => task = "none"

(* While the task lives it has the reader it was started with, and the       *)
(* driver's identifier and the frame on air are the reader's.                *)
OneReader ==
  task # "none" =>
    /\ reader # None /\ reader.enabled
    /\ dev.id = reader.id /\ dev.beacon = Beacon(dev.id)

Bound == Placed /\ Handover /\ OneReader

(* pn532_start() keeps the identifier, and the beacon names it or is as it   *)
(* was.                                                                      *)
LEMMA StartChipKeeps ==
  ASSUME NEW d \in Driver, NEW ok \in BOOLEAN, StartChip(d, ok)
  PROVE  /\ dev' \in Driver /\ dev'.id = d.id
         /\ dev'.beacon = d.beacon \/ dev'.beacon = Beacon(d.id)
         /\ ok => dev'.beacon = Beacon(d.id)
<1>1. Zero \in Ids /\ None \notin Ids
  BY IdsAssumption
<1>2. QED BY <1>1 DEF StartChip, Driver, Beacon

(* So does pn532_begin(), with the identifier the adapter has been handed.   *)
LEMMA BeginKeeps ==
  ASSUME dev \in Driver, transport' \in Ids, NEW ok \in BOOLEAN, Begin(ok)
  PROVE  /\ dev' \in Driver
         /\ ok => dev'.id = transport' /\ dev'.beacon = Beacon(transport')
<1>1. Zero \in Ids /\ None \notin Ids
  BY IdsAssumption
<1>2. CASE FirstBegin(ok)
  <2> DEFINE d == [ready |-> FALSE, selected |-> FALSE, id |-> transport', beacon |-> None]
  <2>1. d \in Driver /\ d.id = transport'
    BY DEF Driver
  <2>2. StartChip(d, ok)
    BY <1>2 DEF FirstBegin
  <2> HIDE DEF d
  <2>3. QED BY <2>1, <2>2, StartChipKeeps
<1>3. CASE started /\ ok /\ dev' = [dev EXCEPT !.id = transport', !.beacon = Beacon(transport')]
  BY <1>1, <1>3 DEF Driver, Beacon
<1>4. QED BY <1>2, <1>3 DEF Begin

LEMMA BoundInductive == ASSUME Bound, [Next]_vars PROVE Bound'
<1> USE DEF Bound, Placed, Handover, OneReader
<1>1. CASE GoesDeaf
  BY <1>1 DEF GoesDeaf, sdk
<1>2. CASE Loop
  BY <1>2 DEF Loop, link, sdk
<1>3. CASE Poll
  <2>1. task = "poll" /\ UNCHANGED <<transport, reader, running, chipPc, wanted>>
        /\ task' \in {"loop", "create"}
    BY <1>3 DEF Poll, sdk, NoTarget
  <2>2. dev' \in Driver /\ dev'.id = dev.id
        /\ (dev'.beacon = dev.beacon \/ dev'.beacon = Beacon(dev.id))
    <3>1. CASE Recover
      <4> DEFINE d == [dev EXCEPT !.ready = FALSE]
      <4>1. d \in Driver /\ d.id = dev.id /\ d.beacon = dev.beacon
        BY DEF Driver
      <4>2. PICK ok \in BOOLEAN : StartChip(d, ok)
        BY <3>1 DEF Recover
      <4> HIDE DEF d
      <4>3. QED BY <4>1, <4>2, StartChipKeeps
    <3>2. CASE dev' = dev \/ dev' = [dev EXCEPT !.selected = TRUE]
      BY <3>2 DEF Driver
    <3>3. QED BY <1>3, <3>1, <3>2 DEF Poll, PollFails, NoTarget
  <2>3. QED BY <2>1, <2>2
<1>4. CASE CreateSession
  BY <1>4 DEF CreateSession, link, sdk
<1>5. CASE Attempt
  <2>1. task = "exchange" /\ UNCHANGED <<transport, reader, running, chipPc, wanted>>
        /\ task' \in {"exchange", "delete"}
    BY <1>5 DEF Attempt, Answered, AttemptFails, sdk
  <2>2. dev' = dev \/ dev' = [dev EXCEPT !.selected = FALSE]
    BY <1>5 DEF Attempt, Answered
  <2>3. dev' \in Driver /\ dev'.id = dev.id /\ dev'.beacon = dev.beacon
    BY <2>2 DEF Driver
  <2>4. QED BY <2>1, <2>3
<1>6. CASE DeleteSession
  BY <1>6 DEF DeleteSession, link, sdk
<1>7. CASE Release
  <2>1. dev' \in Driver /\ dev'.id = dev.id /\ dev'.beacon = dev.beacon
    BY <1>7 DEF Release, Driver
  <2>2. QED BY <1>7, <2>1 DEF Release, sdk
<1>8. ASSUME NEW id \in Ids, Restart(id) PROVE Bound'
  BY <1>8 DEF Restart, link
<1>9. CASE Stop
  BY <1>9 DEF Stop, link
<1>10. CASE Start
  <2>1. transport' = wanted /\ task = "none" /\ ~running /\ chipPc' = "idle" /\ wanted' = wanted
    BY <1>10 DEF Start, SetReaderId
  <2>2. CASE Begin(TRUE) /\ StartReader
    <3>1. dev' \in Driver /\ dev'.id = wanted /\ dev'.beacon = Beacon(wanted)
      BY <2>1, <2>2, BeginKeeps
    <3>2. CASE UNCHANGED <<running, task>>
      BY <2>1, <3>1, <3>2
    <3>3. CASE reader' = [id |-> wanted, enabled |-> TRUE] /\ running' = TRUE /\ task' = "loop"
      <4>1. reader' # None /\ reader'.id = wanted /\ reader'.enabled
        <5>1. reader' \in [id : Ids, enabled : BOOLEAN]
          BY <3>3
        <5>2. QED BY <3>3, <5>1, IdsAssumption
      <4>2. QED BY <2>1, <3>1, <3>3, <4>1
    <3>4. QED BY <2>2, <3>2, <3>3 DEF StartReader
  <2>3. CASE Begin(FALSE) /\ UNCHANGED <<reader, running, task>>
    <3>1. dev' \in Driver
      BY <2>1, <2>3, BeginKeeps
    <3>2. QED BY <2>1, <2>3, <3>1
  <2>4. QED BY <1>10, <2>2, <2>3 DEF Start
<1>11. CASE UNCHANGED vars
  BY <1>11 DEF vars, link, sdk
<1>12. QED
  BY <1>1, <1>2, <1>3, <1>4, <1>5, <1>6, <1>7, <1>8, <1>9, <1>10, <1>11
  DEF Next, ReaderTask

LEMMA AlwaysBound == Spec => []Bound
<1>1. Init => Bound
  <2> SUFFICES ASSUME Init PROVE Bound
    OBVIOUS
  <2>1. dev \in Driver /\ transport \in Ids
    BY IdsAssumption DEF Init, Driver
  <2>2. QED BY <2>1 DEF Init, Bound, Placed, Handover, OneReader
<1>2. QED BY <1>1, BoundInductive, PTL DEF Spec

(* From its first APDU until its session is deleted a transaction has a      *)
(* reader that exists and is enabled, whatever restarts come in between.     *)
THEOREM SessionsHaveReaders == Spec => []SessionHasReader
<1>1. Bound => SessionHasReader
  BY DEF Bound, OneReader, SessionHasReader
<1>2. QED BY <1>1, AlwaysBound, PTL

(* While a phone can be met, what is on air and what a recovery would put    *)
(* there name the reader that would run its transaction.                     *)
THEOREM BeaconsNameReaders == Spec => []BeaconNamesReader
<1>1. Bound => BeaconNamesReader
  BY DEF Bound, OneReader, BeaconNamesReader
<1>2. QED BY <1>1, AlwaysBound, PTL
=============================================================================
