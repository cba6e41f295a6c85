# Aliro HomeKey: a TLA+ model of the reader and lock

The firmware turns an ESP32 with an NFC front end into a door lock that opens
for phones holding an Aliro key, and makes it a Matter accessory. The hard part
is not any one function. Five FreeRTOS tasks (the reader task, the CHIP task,
the web server's task, the esp_timer task and MQTT's) call into components that
mostly hold no lock. State is kept twice, in RAM and in NVS, and in two
components at once. Power may fail between any two writes.

The specifications here are of that part. They are checked by TLC on small
instances, and what matters most is proved for all instances with TLAPS.

## The system

| Component | State | Operations | Talks to |
|---|---|---|---|
| `access_control` | lock pin, `s_locked`, relock timer, credential table, observers | unlock, lock, relock, enroll, withdraw, lookup, decide | called by every task; calls its observers |
| `aliro_reader` | SDK reader, polling task | start, stop, one transaction | lookup and result callbacks into `access_control`; APDUs to `nfc_transport` |
| `nfc_transport`, `pn532` | bus, selected target, failure count | init, poll, activate, exchange, recover | used by `aliro_reader` only |
| `matter_lock` | users and credentials (RAM and two NVS blobs), `s_reader_configured` | SetUser, SetCredential, Lock, Unlock, Set/ClearAliroReaderConfig, fabric removed | hooks into `access_control`, `app_main`, `web_server` |
| `app_config` | `s_config`, the NVS document, PEM entries | boot, get, merge, validate, save, reset, save/load/erase PEM | called by `app_main`, the web server, the console; an installer may write its NVS |
| `web_server` | `s_server`, client table, frame queue, send task, status timer, deferral timer, suspension watchdog | start, deferred start, suspend, resume, stop, requests, WebSocket handshake, broadcast | calls `matter_lock` under the stack lock; observes `access_control` |
| `net_manager` | station / setup AP, retry timer, DNS responder | start, join, scan, reconnect | started before the web server |
| `mqtt_manager` | client, retained lock state | start, publish, command | observes `access_control`, unlocks |
| `feedback_io` | LED, buzzer queue | start, react | observes `access_control` |
| `serial_console` | none | unlock, wifi, reset | as the web server |
| `main` | `s_identity`, boot order | boot, adopt or drop a reader identity | wires the rest together |

What is hard, by component:

- **Lock output.** Four tasks stop, arm and act on one timer without a lock.
  The door must never stay open, and `s_locked` must not lie for good.
- **Lock state in Matter.** Some changes are queued for the CHIP task while
  commands set the attribute directly. Order and loss matter.
- **Credentials.** The database, its NVS blobs and the reader's table are three
  copies updated one after another. They must agree between commands and after
  a restart anywhere.
- **Reader identity.** Four NVS entries written one by one by two tasks.
- **Web server.** Started late, stopped while the device is commissioned, and
  the only way into a device with no button: it has to come back.
- **NFC link.** The reader is torn down and restarted with another identity
  while its task polls or runs a transaction; the chip drops off the bus and is
  recovered in between. What the beacon says, what the driver has selected and
  which reader runs have to stay one.
- **Network.** Two timers, the driver's events and a join asked for by the
  browser work on one station and one access point, from three tasks. The device
  has no buttons: it must stay reachable.
- **MQTT.** What a broker retains must catch up with the lock after every lost
  connection, while the lock moves.
- **Web sockets.** Four tasks share a table, a mutex, a queue and a timer. A
  socket number comes back for another page while a failed send of the last one
  is still being cleaned up. An open page must hear of the lock.
- **Configuration.** One document goes from the page through casts of several
  widths into the settings, to NVS and back, with the secrets masked on the way
  out. It may have been written by an installer or for another board.

`PROJECT.json` lists each hazard at its line, with the properties that answer it.

## Modules

**`Latch`** is what a lock output promises: a door may be opened only by taking
on a debt, and only locking the door clears the debt.

**`LockOutput`** models `access_control_unlock_from()`,
`access_control_lock_from()` and `relock()`. Each statement that touches the
pin, the timer, `s_locked` or the observers is an action of its own
(`UnlockStop`, `UnlockGpio`, ...), and `pc[t]` says which one task `t` runs
next. `esp_timer` takes a one-shot timer off its list before it calls back, so
`RelockFire` and the rest of `relock()` are separate, and a callback under way
cannot be stopped. It implements `Latch`: the door is the pin, and the debt
(`Owed`) is an armed timer, a relock that has not reached the pin, or a call
that has yet to arm or lock.

**`LockReport`** extends it with the path to Matter's LockState attribute. Other
tasks' events are posted to the CHIP task (`queue`); the CHIP task's own
commands set `lockState` after the lock has moved. `stage` follows
`start_matter()`, which registers the observer after the cluster has been
initialised.

**`LockPublish`** extends `LockOutput` with the path to an MQTT broker. Every
task that moves the lock publishes the change itself (`Observe`, in the step of
the notification); the MQTT client's task (`mqttPc`) reads `s_locked` and
publishes it when a connection is made or the broker commands LOCK, and runs an
unlock of its own on UNLOCK. The library and the broker are external: `flight`
is what a connection has taken, `again` what may be sent over the next one.
`doubtful` is history: what was sent last may be old.

**`CredentialStore`** models the users and credentials of `matter_lock_store.cpp`,
their NVS blobs (`flashDb`, `flashUsers`), the reader's table and the
transactions that use it. `pc` cuts a command at the points between which power
can fail, or a tap can come: an endpoint key is withdrawn (`SetCredential`), the
slot is written and the new key enrolled (`WriteSlot`), then the blob is written
(`Persist`); a removed fabric's slots go one by one (`ForgetSlot`), and a boot
enrolls the stored keys one by one (`LoadSlot`). A write may fail, and the command
is answered as a success all the same.

An entry of the table is a key with the reader its key slot was derived for, and
is found only if that is the one derived now (`Entry`, `KnownIn`). `reader` is
whose group sub-identifier derivations use, and `running` says that it runs.
`SwapReader` is the second half of `reader_set_identity()`: with the new reader
running, `RefreshSlots` derives the table again, each entry or not, and
`ForgetFast` has the SDK forget its persistent keys; a reader that does not start
leaves both as they are. Enrolling fails when the table is full, and wherever a
key cannot be converted or derived or there is no memory for it; withdrawing,
when the key cannot be derived or nothing is found under its slot. All of this
is logged at most.

`StandardTap` is a lookup by the reader task, `FastTap` a transaction that
completes from keys the SDK kept, `Decide` is
`access_control_on_reader_result()`. The rest is history. `told` and `removed`
are what was answered. What the code does not exclude has four names: `missed`
holds the keys the lookup does not find (refused, not derived again, or withdrawn
from another slot that held them too), `left` the places of the table whose key a
withdrawal did not find, `taken` the keys the table has held since the persistent
keys were last forgotten, and `unsaved` the blobs whose last write failed.

**`ReaderIdentity`** models the key pair, the group identifier and the flag that
says a controller provisioned them, with their NVS writes cut one by one; the
CHIP task's commands; and the web server's requests that write the same
document. The key slots of a new reader are `CredentialStore`'s. `Restart` is the boot sequence of `app_main`. An identity stands for
its two halves and its group at once, so a half of one beside a half of another
can be told.

**`WebLifecycle`** models `web_server.c`'s start, deferred start, suspension and
stop. Three tasks may run the same code, so its actions take the task as a
parameter. The CHIP task holds the stack lock while it handles an event; the
status page (`handler`) needs that lock; `httpd_stop()` waits for the page. The
announcer of an access event (`reader`) takes the mutex that a stop deletes.
Three history variables name what the code does not exclude: `failed` (a start
failed), `missed` (a session suspended nothing) and `overtook` (a session began
between the watchdog's test and its claim).

**`NetManager`** models `net_manager.c`: the event task (`eventPc`), the
esp_timer task (`timerPc`), a join on the web server's task (`joinPc`) and the
WiFi driver behind them, which is external. The driver has a mode (`radio`), a
station (`sta`, `staNet`) and a queue of events. `status` is what the rest of
the firmware is told. A join reads the mode (`JoinRequested`), sets it if the
access point was up (`JoinKeepsAp`), gives the driver its credentials
(`JoinConfigures`) and goes on; the driver may refuse any of these. It waits in two
places, for 500 ms between its tries and for its event bits; everywhere else its
statements are actions, in the order of the code. History: `worked` holds the
networks that have given an address, and `doubtful`, `late`, `swallowed` and
`revived` name what the code does not exclude (an address announced for the
connection the join has just ended; a failure reported late; a lost link that was
left to the join; an access point a join put up again after the stop timer took it
down).

**`NfcLink`** models the polling task of `aliro_reader.c` on top of the PN532
driver, and the CHIP task's `reader_set_identity()`. `task` says what the reader
task does next; one pass of it is `Loop`, `Poll`, then for a phone
`CreateSession`, `Attempt` (one attempt at one APDU), `DeleteSession` and
`Release`. A restart is `Restart`, `Stop`, which waits for the task, and `Start`.
The driver's struct is `dev`; the identifier is kept in three places, the
adapter (`transport`), the driver (`dev.id`) and the frame that goes on air
(`dev.beacon`), and in the SDK's reader. A command of the chip is a choice of
outcomes: answered by a chip that is up, or failed.

**`WebFeed`** models the WebSocket clients of `web_server.c`: the server's task
(`HttpdWorks`), the send task (`SenderWorks`), the status timer's callback and
the task that announces an access event. A broadcast is two steps, for its text
is formatted before it waits for the mutex. The removal of a client decides under
the mutex whether anybody is left, and stops the timer after giving it back. A
frame is of one socket and says something `"new"` or `"old"` of the lock; `told`
holds the pages whose last news is of the last movement. History: `excused`,
`kept` and `halted` name the pages and places the code lets go wrong.

**`AppConfig`** models `app_config.c` and `gpio_rules.c`. A document is a function
from some of the fields to values; `Merged` takes each through the conversion of
its field (`Parsed`: the casts, the clamps, the texts that are cut, the secrets
that are kept when empty), `Valid` is `app_config_validate()` with the chip's
pins, `Printed` is what is stored, or shown with the secrets left out. A step is
a whole request, since `ReaderIdentity` interleaves their writes. A text is one of
the few values its checks tell apart; a number is itself.

Each `...Proofs` module holds the theorems about the module it is named for;
`LockProofs` is about `LockOutput` and the two modules that extend it. Each
`MC...` module gives an instance its constants. In every module an operator whose
comment says "Mutant" is a plausible bug that no specification uses: it is there
to show that the property it is listed under can fail.

## What each run checks

States and times are those of two TLC workers.

| Run | Instance | Distinct states, time | What it shows |
|---|---|---|---|
| `report_all` | the reader and the CHIP task, which also locks, and the relock timer; a queue of 2 | 181,551, 30 s | `NeverLeftOpen`, `FlagNeverLeftOpen`, the refinement of `Latch` (`ImplementsLatch`), and `EndsLocked`: once calls stop, the door is locked for good. `LastReportWins` and `LockStateCatchesUp`: LockState agrees with the pin at rest unless the last event was never posted (`lost`) or the last Lock command had reports under way (`overtaken`) |
| `publish_all` | the MQTT task and one that also locks, two messages in flight | 1,424,882, 50 s | `RetainedIsState`: with nothing under way the broker retains what the lock does |
| `store_all` | two instances of 2 keys: 2 fabrics, an endpoint key's slot, a PIN's and a user's, failing writes; and an evictable and a non-evictable slot, a table of 2, 2 readers, one slot for fast transactions, derivations and readers that fail | 791,117, 75 s | `TypeOK`, `EnrolledIsInDatabase`, `OccupiedIsEnrolled`, `AnsweredIsDurable`, `RemovedStaysRemoved`, `OpensForRecorded` |
| `identity_all` | one identity and the built-in one, two settings, all web requests, failing writes and readers | 829,332, 17 s | `AcceptedIsKept`, `OrphanIsReleased`, `SavedSettingsKept` |
| `web_all` | three sessions, one access event, pages, every failure | 63,052, 8 s | `OneStarter`, `SuspensionIsGuarded`, `ServerIsWhole`, `DownWhileCommissioning`, `ServerComesBack` |
| `web_pages` | one session and status pages | violation | the CHIP task and the server's task wait for each other |
| `feed_all` | two socket numbers, one of them watched, a table and a queue of 1 | 249,846, 75 s | `TableIsSound`, `OpenPagesAreFed`, `TimerRests`, `PageCatchesUp` |
| `config_all` | an ESP32; documents at every limit, forms with edits, two installer's images, failing writes | 7,167, 90 s | `RunningIsValid`, `UneditedFormKeeps`, `AcceptedAsAsked`, `RestartKeeps` |
| `config_s3` | an ESP32-S3 as `boards/` configures it | violation | the settings a device is delivered with are not valid, so no Wi-Fi command is saved |
| `net_all` | no network stored, a good one or a mistyped one; three attempts | 835,365, 60 s | `ReachableUnlessLeft`, `FallbackStays`, `StatusIsTrue`, `AdoptsWhatWorked`, `NeverAwayForGood` |
| `net_reach` | the same, and the driver refuses no call | violation | a join that loses its link, or fails, leaves a device that nothing brings back |
| `nfc_all` | three identifiers (one of them zero), a board with the reset line, SDK calls that fail | 3,732, 3 s | `SessionHasReader`, `BeaconNamesReader`, `RestartReturns`, `DeafIsNoticed` |

The runs that expect a violation show what a comment or document of the
repository says and the code does not do. `PROJECT.json` quotes each under
`findings`. A type invariant is an invariant of a run only where a theorem is
about it (`store_all`, `feed_all`); elsewhere the domain of each variable is in
the comment beside it, or follows from the constants it is assigned.

Further disagreements appear as exceptions that a property names:

- A Lock command that runs while reports of earlier changes are queued sets the
  attribute first and is overwritten by them: `overtaken` in `LockReport`.
- A Lock inside an Unlock can have its "locked" announced before the Unlock's
  "unlocked"; a second Lock then finds `s_locked` set, stops the timer and
  announces nothing. The door is locked, and the status LED, MQTT and the pages
  go on saying it is open: `announced = "unlocked"` in `RetainedIsState`.
- An answer read before a change and published after it, or a message sent again
  after a newer one, stays at the broker: `doubtful` in `LockPublish`.
- After an error the chip reports, the attempts left at an APDU are refused by
  the driver and never sent (pn532.c:831; aliro_reader.c:55 expects them to
  help): `Attempt` in `NfcLink`.
- An access event announced while the server stops takes the deleted mutex:
  `reader = "lost"` in `WebLifecycle`.
- A start that fails in `httpd_start()` (web_server.c:1640) leaves its sender
  task; the start of a watchdog callback that a new session overtook then makes
  another one over its handle, and a suspension leaves the first one's memory
  taken: `failed /\ overtook` in `SuspensionIsGuarded`.
- A key is answered as stored and not enrolled when the table is full, when it
  cannot be converted or derived, or when memory runs out
  (matter_lock_store.cpp:212, access_control.c:140, 149, 162); one that cannot be
  derived for a new reader keeps its old slot (access_control.c:214), and nobody
  asks (app_main.c:268); a key in an evictable and a non-evictable slot is
  withdrawn when either is cleared: `missed` in `CredentialStore`.
- A withdrawal that cannot derive its key, or finds nothing under the slot it
  derives, leaves the entry, and its result is dropped (matter_lock_store.cpp:232):
  `left` in `CredentialStore`. That needs no failing derivation: a reader with a
  new identity that fails to start leaves the key slots stale (app_main.c:260), a
  key cleared then is not found, and the refresh for the next reader derives its
  slot again with the rest. The phone opens the door although no slot of the
  database holds its key: "Withdraw the old key before overwriting it, or the
  reader keeps opening for a phone the controller believes it has just removed"
  (matter_lock_store.cpp:560). With `DeriveFails = FALSE` and without the
  exception, TLC finds this as a violation of `OpensForRecorded`.
- A fast transaction opens the door for a phone whose key was removed after the
  persistent keys were last forgotten: `taken` in `OpensForRecorded`.
- A join that has read the mode before the timer stops the access point puts it up
  again without setting `ap_up`; if it then fails, a device that can be reached
  reports itself unconnected: `revived` in `StatusIsTrue`.
- A failed write of a blob is answered as a success: `unsaved`.
- A form loaded before a controller provisioned the reader and saved after it
  puts the old group identifier back, for "saving from any page sends the
  complete document" (docs/WEB.md:60), although a device that accepted an
  identity "must come back with the identity the controller believes it has"
  (app_main.c:208): `stale` in `AcceptedIsKept`.
- The send task can strike off a page that got a dead page's socket number, and
  can stop the status timer for a page that has just opened: `excused` and
  `halted` in `WebFeed`. The page stays open and hears nothing.
- `mqtt.port` is read inside the branch that reads the web section
  (app_config.c:587), so a document without one leaves the port as it was, where
  docs/WEB.md:26 has only missing keys keep their value: `Read` in `AppConfig`.
- Pins, the SPI host, the I2C address and the gain are cast before they are
  checked, so 260 is accepted as pin 4; `unlock_ms` is kept wide so that a value
  out of range "is rejected by validation instead of silently wrapping into
  range" (app_config.h:69): `StandsIn` in `AppConfig`. A negative frequency of
  a bus that is not in use is stored as it is and comes back from NVS as the
  largest int: `Kept`.
- A setup access point that has a password cannot be opened again from the page:
  an empty password keeps the old one, and app_config.h:77 says "or empty for
  open". `POST /api/config/reset` answers "device rebooting" (web_server.c:866)
  and nothing reboots: `Reset` leaves the defaults in use until a `Restart`
  somebody else asks for.
- The driver's comment (pn532.c:736) says a failed recovery is tried again.
  Nothing does that: `ready` stays false, and `pn532_begin()` only renews the
  beacon. That is why `DeafIsNoticed` has a chip given up as its second outcome.

### Bounds

- `LockOutput` is run as part of `LockReport` and `LockPublish`, with two tasks:
  its races are between two calls and a relock. Calls are unbounded, and the
  state is finite as it stands. The theorems cover any number of tasks.
- `LockReport`: a queue of two. Overflow takes one more report than fits, order
  takes two.
- `LockPublish`: the MQTT task unlocks, the other unlocks and locks, so that
  commands race changes in both directions. `MaxFlight` = 2 messages have an
  order.
- `CredentialStore`: two keys tell "the same" from "another" one. Both halves of the
  module at once are too many states, so `MCCredentialStore` restricts the steps to
  one of two instances, chosen at the start (`only`). In `Durable` two fabrics tell
  the removed one from the one that stays, with a slot of each kind the blobs hold
  (`pin1` is not mirrored); nobody taps, and neither readers nor derivations fail.
  In `Mirror` two slots of different types let a key be held twice, or moved; a
  table of two is full with the boot credential and one key; two readers tell a
  slot derived now from a stale one; one fabric is enough, and writes do not fail,
  for the mirror is of the database in RAM. Keys, fabrics, places and readers are
  symmetric. The theorems cover all sizes, with every failure at once.
- `ReaderIdentity`: one identity next to the built-in one is enough to tell new
  from old in each of the four entries; two settings tell a saved one from an
  older one. The number of commands and restarts is unbounded.
- `WebLifecycle`: `MaxAttempts` = 3. A race between the end of one suspension and
  the next takes two sessions; a sender task that a failed start left and an
  overtaken callback's start forgot is found suspended in the third. The
  theorems cover any number. `MaxEvents` = 1. The system stops when both
  are used up, so deadlock is not checked there; the deadlock that matters is
  `EventsReturn`.
- `NetManager`: `MaxAttempts` = 3 is the code's number, and matters: three
  retries 5 s apart outlast the timer that stops the access point. `MaxEvents`
  = 2 queued events; an address and the loss of it, or a loss on either side of
  a join's disconnect. One
  network that works and one that does not. The system may rest with nothing connected and
  nobody asking, so deadlock is not checked.
- `NfcLink`: `Threshold` = 3 failed polls (the code's is larger; the count is only
  compared), `MaxAttempts` = 3 as in the code, two APDUs so that one can fail
  after another was answered, a bus that is full after three devices, so two
  recoveries. Restarts, polls and transactions are unbounded.

- `WebFeed`: two socket numbers are what it takes for one page to get the
  number of another; a table of one is full with one of them, and a queue of one
  drops. `MaxLate` = 1 wait for the mutex is given up. Only one socket's news is
  followed (`Watched`); the frames of the other take room. Connections and
  movements of the lock are unbounded. The theorems cover all sizes.
- `AppConfig`: the documents of `MCAppConfig` hold one setting at each limit its
  field, its cast or its check has, and the pairs whose checks depend on each
  other; `MaxSaves` = 3 of them in a row reach every combination of three. Pins
  are those of the chip. The theorems cover any documents and chips.

The other runs check deadlock.

### Fairness

- `LockOutput`: a call that has begun goes on, for it blocks on nothing, and an
  armed timer fires. No task has to call.
- `LockReport`: the same, the CHIP event loop turns, and the boot goes on.
- `WebLifecycle`: tasks are scheduled, armed timers expire, and the server's
  task runs its requests where it is not blocked. Neither the end of
  commissioning nor `kServerReady` has to be posted: the watchdog and the
  deadline exist because of that.
- `NetManager`: the three tasks are scheduled, armed timers expire, and every
  attempt to connect ends in an address or a loss. Nobody has to ask for a join,
  and no link has to be lost.
- `WebFeed`: the server's task, the send task and whoever broadcasts go on when
  they are again and again able to (strong fairness: the mutex is taken and given
  back by others in between), and an active timer fires. No page has to come or
  go.
- `NfcLink`: both tasks are scheduled. Nobody has to restart the reader, and no
  phone has to come.

### Assumptions

- `WebLifecycle` takes `httpd_stop()` to succeed.
- In `ReaderIdentity`, two requests that overlap in time void what either was
  promised (`clash`): nothing in the code orders them. `OrphanIsReleased` holds
  even then.
- `NetManager` takes as given that a join's statements between its waits take
  less than 5 s or an association (`Begin`), that an association outlasts a timer
  callback (`AirTime`), and that the join's waits outlast the handlers of what
  was posted before them (`Settled`). The driver may refuse each call of a join
  that the code checks (`DriverErrors`).
- `LockPublish` takes a publish to wait for a connection that is slow, and a
  connection that is lost to be noticed before another one is made: both happen
  on the library's one task.
- `NfcLink` takes the SDK to give up a transaction after an exchange that failed
  for good, and to take one reader at a time.
- `CredentialStore` reads the reader's table in one step and changes it in one.
  The code does neither under a lock: see "What is not modelled".
- `WebFeed` takes a broadcast's waits for room, under the mutex, to be shorter
  than what `GiveUpMutex` bounds: a caller gives up only with clients listed and
  the queue full.

## What is proved

For every value of the constants, in `LockProofs`, of the lock output:

- `DoorNeverLeftOpen`, `FlagSettles`, `RestIsLocked`. The invariants are
  inductive together with the types. `NeverLeftOpen` says that an unlocked pin
  has a debtor. Each action that removes a debtor either locks the pin, arms the
  timer, or passes the debt to its own next statement. The flag's debt reaches
  one statement further than the pin's, because everyone writes `s_locked` after
  the pin.
- `Refinement`: `LockOutput` implements `Latch`, by the same case analysis per
  action, each a `Latch` step or a stutter.
- `TypeCorrect`.

And there of those who follow the lock, for any number of tasks, any queue and
any number of messages in flight:

- `LockRunsHere` and `LockRunsBesideMqtt`: a step of `LockReport` or
  `LockPublish` is a step of `LockOutput` or none of it, so the theorems above
  hold in both, and the door is locked at rest.
- `LastWordIsRight` (`LastReportWins`): `Reported` says that the last word on the
  attribute (the last report queued, or else the attribute) is "locked", or that
  an unlock, an armed timer or a relock still has a word to add.
- `BrokerIsRight` (`RetainedIsState`): `Published` says of the level sent last
  (`LastSent`), and of the one read and about to be sent, that it is "locked", or
  the observers were told last that the door is open, or a "locked" is still to
  be announced (`Told`). Three lemmas say when such an announcement still comes,
  and what sending and the arrival of a message make of the last one.

In `CredentialStoreProofs`, for any keys, fabrics, slots, users and table sizes,
with writes, derivations and readers that fail or not:

- `TypeCorrect`.
- `NothingEnrolledUnrecorded`: `EnrolledIsInDatabase` is not inductive. A key about
  to be overwritten or cleared must already be out of the table, or in a place of
  `left` (`WithdrawnBeforeWrite`); `MirrorInv` adds that.
- `NothingRecordedUnenrolled` (`OccupiedIsEnrolled`): every key of the database is
  `missed`, or found by the lookup, or, while no reader runs or the key slots have
  still to be derived again, at least held (`MirroredFound`); but for the slots a
  command or the boot has still to enroll (`Pending`). The lemmas it rests on are
  that enrolling and withdrawing lose no other key (`OthersStay`, `NoneLost`) and
  that the refresh finds what is held, except what it cannot derive
  (`RefreshFinds`).
- `AnswersAreDurable` (`AnsweredIsDurable`): `Durable` says, for each value of
  `pc`, which of the three copies (as answered, in RAM, in NVS) agree. A fabric
  that has nothing in a table leaves the table as it is, which is why a blob
  that did not change need not be written.
- `RemovalsStay` (`RemovedStaysRemoved`): a fabric removed from the stack's table
  can no longer send commands, the entry about to be written is of a fabric that
  is still there, and a restart brings back what NVS has (from `Durable`).
- `OpeningsAreRecorded` (`OpensForRecorded`): `Decide` asks the table again, and
  what is in the table is in the database or was left there by a withdrawal. For
  the fast transactions, `TakenInv` says that what the table holds, what the
  transaction under way was let in with and what the SDK keeps are all in
  `taken`: that is what makes forgetting the persistent keys enough for a key that
  was removed before.

In `WebFeedProofs`, for any numbers of sockets, places and frames: `FeedIsTyped`,
`TableStaysSound` and `OpenPagesStayFed`. The invariant `Kept` adds to the types
and the two properties where each task may be with which socket (`Placed`), that
a socket about to be closed is out of the table already (`Going`), and the form of `OpenPagesAreFed` that holds while the tasks are busy (`Fed`). The
count equals the number of places taken because the places are distinct.

In `AppConfigProofs`, for any chip, documents and images:

- `SettingsStayValid` (`RunningIsValid`), assuming that the defaults are valid.
  Every value of `running` is the defaults, or passed `Valid`; giving the device
  its own host name keeps a configuration valid.
- `RestartsKeepSettings` (`RestartKeeps`), with no assumption on the defaults.
  `Settled` says that what is in use is what the stored document boots to, but
  for the two kinds the property names, and that every number fits its field:
  what is printed is then read back as itself.
- `WifiStaysSaved` (`WifiIsSaved`), assuming again that the defaults are valid: a
  valid configuration stays valid with another network in it. The run
  `config_s3` violates the property because the assumption is false there.
- `UneditedFormsKeep` (`UneditedFormKeeps`), assuming valid defaults: every value
  in use fits its field (`Settled`), what the page shows is read back as itself,
  and the secrets it does not show are kept because they come back empty.
- `DefaultsNeedPins`: the assumption is a matter of the pins Kconfig gives the
  board; whatever else is in the defaults passes validation on every chip.
- `AcceptedPutsInUse` (`AcceptedAsAsked`), with no assumption: field by field,
  each conversion gives the value asked for, or one that `StandsIn` names.

In `NetManagerProofs`, for any networks and any number of events under way; the
first three with `MaxAttempts >= 3`:

- `FallbackIsKept` (`FallbackStays`). The danger is a timer: a join that was
  answered arms the one that stops the access point in 5 s, and the retries of a
  link that drops right away must not run out before it fires. `InTime` bounds
  `attempts + Left`, where `Left` counts how often the station can still be lost
  before the timer: losses not yet handled, a station that is up or trying, a
  retry that comes before the timer, a failure a join has noted. Each step leaves
  the sum as it is, lowers it, or pays for what it adds (`CountsMove`). The sum is
  at most 3 when the timer is armed (`Adopting`), and that an answered join has so
  few tries left follows from the answer being one of this join (`Answers`).
  The assumption is exact: with two attempts TLC finds the fallback undone.
  `k_max_join_attempts` is 3 (net_manager.c:38), the least number that works.
- `StatusTellsTheTruth` (`StatusIsTrue`): the last event in the queue tells what
  the station is (`LastEventTells`), and an access point that is up is in
  `connected`, unless a join has put it up again (`revived`).
- `Reachable` (`ReachableUnlessLeft`): a station that is down in station mode,
  and was not left to a join, has a retry armed or under way, a fallback begun or
  a loss still to be handled (`Retried`).
- `AdoptsOnlyWhatWorked` (`AdoptsWhatWorked`), for any number of attempts: after
  a join has disconnected, an address that is announced is of the network it
  asked for, unless it was there before (`Answers`).

In `NfcLinkProofs`, for any identifiers, thresholds, attempts and buses:
`SessionsHaveReaders` (`SessionHasReader`) and `BeaconsNameReaders`
(`BeaconNamesReader`). Its invariant says where the polling task can be while a
restart is under way (`Handover`: it has been told to end before the wait and
has ended after it), and that for as long as it lives the adapter, the driver
and the frame on air have the reader's identifier (`OneReader`).

In `WebLifecycleProofs`, for any number of sessions and access events:

- `StarterIsOne` (`OneStarter`): whoever is starting the server is the only one
  (`OneAtATime`), because the first start, a start after a resume and the start
  of a watchdog's callback each presuppose what the others rule out
  (`FirstStart`, `Resuming`, `Stopping`).
- `DownForSessions` (`DownWhileCommissioning`), `SuspensionsAreGuarded`
  (`SuspensionIsGuarded`) and `ServersAreWhole` (`ServerIsWhole`): until a
  session overtakes the watchdog's callback, nobody resumes what is being
  suspended (`InTurn`), and there is one sender task for each server that
  listens, is being started or is being taken down (`Counted`). After a start
  that failed nobody starts the server again unless overtaken (`GivenUp`), which
  is why the task left behind is not joined by a second one.

In `ReaderIdentityProofs`, for any identities and settings, with web requests,
failing writes and failing readers switched on or off:

- `OrphansAreReleased` (`OrphanIsReleased`), with requests overlapping at will.
- `AcceptedStays` (`AcceptedIsKept`): `Progress` says how much of an identity is
  where at each step of a command that no request overlaps; `PromiseInv` that
  what was answered survives each step of the web's requests, whose candidate
  document has the same group unless its form is `stale`.
- `SavedSettingsStay` (`SavedSettingsKept`): the copy of the configuration a
  command is about to write has the settings last saved, as no request overlaps
  it unnoticed (`OverlapInv`).

Every invariant and every action property that a run checks is so a theorem.
Only model-checked is liveness, with everything else that needs fairness or
`ENABLED`, which is out of the prover's reach: `EndsLocked`,
`LockStateCatchesUp`, `ServerComesBack`, `NeverAwayForGood`, `RestartReturns`,
`DeafIsNoticed`, `TimerRests` and `PageCatchesUp`; and so are the disagreements
the three other runs show. No module here declares a RECURSIVE operator.

## What is not modelled

- The OTA upload and the flag that admits one at a time: it holds the server's
  only task from the claim to the last byte.
- The DNS responder of the setup page: its start and stop follow the access
  point, whose mode `NetManager` has.
- The Wi-Fi scan: it changes nothing a property is about.
- The commissioning window, pairing codes and attribute defaults: chip's state.
- `AutoRelockTime` and `unlock_ms` only scale a timer, and are left out with the
  overflow of the first (matter_lock.cpp:293: 4294968 s become 704 ms).
- The buzzer's queue, the denied LED's pulse, the log page: nothing depends on
  them.
- The lookup that walks the credential table while the CHIP task compacts it
  (access_control.c:246) is a data race inside one function; what it returns
  depends on how a struct is copied.
- The observer tables are filled at boot and have room for all there is. The one
  place that is emptied and filled again is the web server's; its observer can
  outlive the mutex (web_server.c:2013), which `WebLifecycle` has as
  `reader = "lost"` and no property excludes.
- The framing and checksums of the PN532 protocol, another board's driver
  (`m5nfc.c`), JSON parsing and page rendering (layout and wording), the Aliro
  cryptography (a closed library: external), the web pages, the site and the
  build tools.

What the plan has left: abstract specifications, with refinement proofs, of the
components that have none (`Latch` is the lock output's only).
