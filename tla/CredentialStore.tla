--------------------------- MODULE CredentialStore ---------------------------
(***************************************************************************)
(* Who may open the door: the Matter credential database and its mirror    *)
(* in the reader.                                                          *)
(*                                                                         *)
(* components/matter_lock/matter_lock_store.cpp keeps the database a       *)
(* controller writes (in RAM, with one NVS blob for the credentials and    *)
(* one for the users) and mirrors every occupied Aliro endpoint key into   *)
(* the table of components/access_control, which lives in RAM only and is  *)
(* rebuilt at boot.  An entry of the table is found by its key slot, which *)
(* is derived from the key and the group sub-identifier of the reader that *)
(* was last created: a new reader identity makes every entry stale until   *)
(* app_main has the key slots derived again.  A key that cannot be         *)
(* converted or derived, and one that is not found, is logged and no more. *)
(* The reader task looks keys up in the table while the CHIP task changes  *)
(* it.  Power may fail between any two steps.                              *)
(***************************************************************************)
EXTENDS Naturals, FiniteSets

CONSTANTS
  Keys,        \* endpoint keys of phones
  BootKey,     \* the credential app_main registers at boot
  Phones,      \* those of Keys whose phones come to the door
  Fabrics,     \* fabrics commissioned when the model starts
  EvSlots,     \* database slots for evictable endpoint keys
  NevSlots,    \* database slots for non-evictable endpoint keys
  OtherSlots,  \* slots that are never mirrored (PINs, issuer keys)
  Users,       \* user slots
  Places,      \* places of the reader's table (CONFIG_ALIRO_MAX_CREDENTIALS)
  Readers,     \* reader identities, each with a group sub-identifier of its own
  FastSlots,   \* fast_transaction_slots, 0 to disable fast transactions
  FlashFails,  \* TRUE when an NVS write may fail
  ReaderFails, \* TRUE when the reader may fail to start
  DeriveFails, \* TRUE when a key may not be usable: it cannot be converted or
               \* derived, or there is no memory to keep it
  None

Slots == EvSlots \cup NevSlots \cup OtherSlots
EndpointSlots == EvSlots \cup NevSlots

ASSUME KeysAssumption ==
  /\ BootKey \notin Keys /\ Phones \subseteq Keys
  /\ None \notin Keys \cup {BootKey} \cup Fabrics \cup Readers
ASSUME SlotsAssumption ==
  /\ EvSlots \cap NevSlots = {}
  /\ EndpointSlots \cap OtherSlots = {}
ASSUME SizesAssumption == Places # {} /\ Readers # {} /\ FastSlots \in Nat
ASSUME FailuresAssumption == {FlashFails, ReaderFails, DeriveFails} \subseteq BOOLEAN

Credential == [key : Keys, creator : Fabrics]
Free == [key |-> None, creator |-> None]
Databases == [Slots -> Credential \cup {Free}]
UserTables == [Users -> Fabrics \cup {None}]

(* An enrolled key with the reader its key slot was derived for. *)
Enrolled == [key : Keys \cup {BootKey}, reader : Readers]
Vacant == [key |-> None, reader |-> None]

VARIABLES
  db, users,             \* s_credentials and s_users, in RAM
  flashDb, flashUsers,   \* their NVS blobs
  loaded,                \* s_loaded
  table,                 \* access_control's s_credentials
  reader,                \* the reader key slots are now derived for, or None
                         \* when there is nothing to derive them with
  running,               \* that reader runs
  booted,                \* the boot credential has had its turn
  pc,                    \* what the CHIP task has still to do
  request,               \* the request it is serving
  fabrics,               \* the fabric table, persisted by the Matter stack
  tap,                   \* the reader task's transaction
  fastKeys,              \* persistent keys the SDK stored, in NVS
  opened,                \* the key the last tap opened the door with
  told, removed,         \* history: database as answered, removals answered
  unsaved,               \* history: blobs whose last write failed
  missed,                \* history: keys the lookup does not find since they
                         \* were refused, not derived again, or withdrawn
                         \* (which another slot may still hold)
  left,                  \* history: places whose key a withdrawal did not find
  taken                  \* history: keys the table has held since the
                         \* persistent keys were last forgotten

storeVars == <<db, users, flashDb, flashUsers, loaded>>
mirrorVars == <<table, missed, left, taken>>
readerVars == <<reader, running>>
tapVars == <<tap, fastKeys, opened>>
answerVars == <<told, removed, unsaved>>
vars == <<storeVars, mirrorVars, readerVars, booted, pc, request, fabrics,
          tapVars, answerVars>>

EmptyDb == [s \in Slots |-> Free]
NoUsers == [u \in Users |-> None]
EmptyTable == [p \in Places |-> Vacant]
NoTap == [key |-> None, known |-> FALSE, fast |-> FALSE]
Blobs == {"db", "users"}
NoRequest == [slot |-> None, entry |-> Free, fabric |-> None, changed |-> {}, todo |-> {}]
Requests ==
  [slot : Slots \cup {None}, entry : Credential \cup {Free},
   fabric : Fabrics \cup {None}, changed : SUBSET Blobs, todo : SUBSET EndpointSlots]
Steps == {"idle", "load", "write", "persist", "forget", "persist_all",
          "persist_users", "refresh", "forget_fast"}

TypeOK ==
  /\ db \in Databases /\ flashDb \in Databases /\ told \in Databases
  /\ users \in UserTables /\ flashUsers \in UserTables
  /\ loaded \in BOOLEAN /\ booted \in BOOLEAN
  /\ table \in [Places -> Enrolled \cup {Vacant}]
  /\ reader \in Readers \cup {None} /\ running \in BOOLEAN
  /\ running \/ tap # NoTap => reader # None
  /\ pc \in Steps /\ request \in Requests
  /\ fabrics \subseteq Fabrics /\ removed \subseteq Fabrics
  /\ tap \in [key : Keys, known : BOOLEAN, fast : BOOLEAN] \cup {NoTap}
  /\ fastKeys \subseteq Enrolled
  /\ opened \in Keys \cup {None}
  /\ unsaved \subseteq Blobs /\ missed \subseteq Keys /\ left \subseteq Places
  /\ taken \subseteq Keys \cup {BootKey}

(* start_reader() leaves the reader running, or fails before or after there  *)
(* is a group sub-identifier.                                                *)
StartReader ==
  \/ reader' \in Readers /\ running' = TRUE
  \/ ReaderFails /\ reader' \in Readers \cup {None} /\ running' = FALSE

Init ==
  /\ db = EmptyDb /\ flashDb = EmptyDb /\ told = EmptyDb
  /\ users = NoUsers /\ flashUsers = NoUsers
  /\ loaded = FALSE /\ booted = FALSE /\ table = EmptyTable
  /\ \/ reader \in Readers /\ running = TRUE
     \/ ReaderFails /\ reader \in Readers \cup {None} /\ running = FALSE
  /\ pc = "idle" /\ request = NoRequest
  /\ fabrics = Fabrics /\ removed = {} /\ unsaved = {}
  /\ tap = NoTap /\ fastKeys = {} /\ opened = None
  /\ missed = {} /\ left = {} /\ taken = {}

-----------------------------------------------------------------------------
(* The reader's table *)

(* The endpoint slots that d occupies, and their keys. *)
Occupied(d) == {s \in EndpointSlots : d[s] # Free}
KeysIn(d) == {d[s].key : s \in Occupied(d)}

(* What find_by_key_slot() compares: the key slot derived now. *)
Entry(k) == [key |-> k, reader |-> reader]
KnownIn(t, k) == \E p \in Places : t[p] = Entry(k)

Holding(k) == {p \in Places : table[p].key = k}
HeldKeys == {table[p].key : p \in {q \in Places : table[q] # Vacant}}

(* Of the keys missed before and those that something happens to now, the    *)
(* ones that the lookup will not find.                                       *)
Unknown(keys) == {k \in (missed \cup keys) \cap Keys : ~KnownIn(table', k)}

(* access_control_add_credential(): replaced, added, or refused because it   *)
(* cannot be derived or kept or because the table is full.                   *)
Enroll(k) ==
  /\ \/ \E p \in Places :
          /\ reader # None
          /\ table[p] = Entry(k) \/ (table[p] = Vacant /\ ~KnownIn(table, k))
          /\ table' = [table EXCEPT ![p] = Entry(k)]
          /\ left' = left \ {p} /\ taken' = taken \cup {k}
     \/ /\ \/ DeriveFails \/ reader = None
           \/ ~KnownIn(table, k) /\ \A p \in Places : table[p] # Vacant
        /\ UNCHANGED <<table, left, taken>>
  /\ missed' = Unknown({k})

(* access_control_remove_credential(): the entry with the key slot derived   *)
(* now, if it can be derived and found; the caller drops the error.          *)
Withdraw(k) ==
  /\ \/ \E p \in Places :
          table[p] = Entry(k) /\ table' = [table EXCEPT ![p] = Vacant]
     \/ (DeriveFails \/ ~KnownIn(table, k)) /\ UNCHANGED table
  /\ left' = {p \in left \cup Holding(k) : table'[p] # Vacant}
  /\ missed' = Unknown({k})
  /\ UNCHANGED taken

-----------------------------------------------------------------------------
(* Boot and power failure *)

AddBootCredential ==
  /\ ~booted
  /\ booted' = TRUE
  /\ IF running THEN Enroll(BootKey) ELSE UNCHANGED mirrorVars
  /\ UNCHANGED <<storeVars, readerVars, pc, request, fabrics, tapVars, answerVars>>

(* Mutant: the blobs are read back and nothing is enrolled. *)
StoreLoadOnly ==
  /\ booted /\ ~loaded /\ pc = "idle"
  /\ loaded' = TRUE
  /\ db' = flashDb /\ users' = flashUsers
  /\ UNCHANGED <<flashDb, flashUsers, mirrorVars, readerVars, booted, pc, request,
                 fabrics, tapVars, answerVars>>

(* store_load(): the blobs, and then every endpoint key in turn. *)
StoreLoad ==
  /\ booted /\ ~loaded /\ pc = "idle"
  /\ loaded' = TRUE
  /\ db' = flashDb /\ users' = flashUsers
  /\ request' = [NoRequest EXCEPT !.todo = Occupied(flashDb)]
  /\ pc' = IF Occupied(flashDb) = {} THEN "idle" ELSE "load"
  /\ UNCHANGED <<flashDb, flashUsers, mirrorVars, readerVars, booted, fabrics,
                 tapVars, answerVars>>

LoadSlot(s) ==
  /\ pc = "load" /\ s \in request.todo
  /\ Enroll(db[s].key)
  /\ request' = [request EXCEPT !.todo = request.todo \ {s}]
  /\ pc' = IF request'.todo = {} THEN "idle" ELSE "load"
  /\ UNCHANGED <<storeVars, readerVars, booted, fabrics, tapVars, answerVars>>

(* Power fails or the device restarts: NVS is what remains.  A request that  *)
(* was not answered may have been carried out or not, and what could not be  *)
(* written is lost.  The reader starts with the identity then in NVS.        *)
Restart ==
  /\ booted
  /\ db' = EmptyDb /\ users' = NoUsers /\ loaded' = FALSE
  /\ table' = EmptyTable /\ booted' = FALSE
  /\ StartReader
  /\ pc' = "idle" /\ request' = NoRequest
  /\ tap' = NoTap /\ opened' = None
  /\ told' = IF pc = "idle" /\ "db" \notin unsaved THEN told ELSE flashDb
  /\ missed' = {} /\ left' = {} /\ unsaved' = {}
  /\ UNCHANGED <<flashDb, flashUsers, fabrics, fastKeys, removed, taken>>

-----------------------------------------------------------------------------
(* emberAfPluginDoorLockSetCredential(), for a SetCredential command (entry  *)
(* is a credential) or a ClearCredential command (entry is Free).  The       *)
(* cluster server refuses a key that another slot of the same type holds.    *)

SameType(s) == CHOOSE T \in {EvSlots, NevSlots, OtherSlots} : s \in T

SetCredential(s, entry) ==
  /\ loaded /\ pc = "idle"
  /\ \/ /\ entry.creator \in fabrics
        /\ db[s].creator \in {None, entry.creator}
        /\ \A o \in SameType(s) \ {s} : db[o].key # entry.key
     \/ entry = Free /\ db[s] # Free
  /\ IF s \in Occupied(db) THEN Withdraw(db[s].key) ELSE UNCHANGED mirrorVars
  /\ request' = [NoRequest EXCEPT !.slot = s, !.entry = entry, !.changed = {"db"}]
  /\ pc' = "write"
  /\ UNCHANGED <<storeVars, readerVars, booted, fabrics, tapVars, answerVars>>

(* Mutant: an endpoint slot is mirrored whether or not it is now occupied. *)
WriteSlotAlwaysEnroll ==
  /\ pc = "write"
  /\ db' = [db EXCEPT ![request.slot] = request.entry]
  /\ IF request.slot \in EndpointSlots
     THEN Enroll(request.entry.key) ELSE UNCHANGED mirrorVars
  /\ pc' = "persist"
  /\ UNCHANGED <<users, flashDb, flashUsers, loaded, readerVars, booted, request,
                 fabrics, tapVars, answerVars>>

WriteSlot ==
  /\ pc = "write"
  /\ db' = [db EXCEPT ![request.slot] = request.entry]
  /\ IF request.slot \in Occupied(db')
     THEN Enroll(request.entry.key) ELSE UNCHANGED mirrorVars
  /\ pc' = "persist"
  /\ UNCHANGED <<users, flashDb, flashUsers, loaded, readerVars, booted, request,
                 fabrics, tapVars, answerVars>>

Done == pc' = "idle" /\ request' = NoRequest

(* persist(): the blob in NVS and what RAM holds.  A failure is only logged, *)
(* and the command succeeds all the same.                                    *)
Write(blob, flash, data) ==
  \/ flash' = data /\ unsaved' = unsaved \ {blob}
  \/ FlashFails /\ UNCHANGED flash /\ unsaved' = unsaved \cup {blob}

(* Mutant: a cleared slot is not written back. *)
PersistOccupied ==
  /\ pc = "persist"
  /\ IF request.entry = Free
     THEN UNCHANGED <<flashDb, unsaved>> ELSE Write("db", flashDb, db)
  /\ told' = db
  /\ Done
  /\ UNCHANGED <<db, users, flashUsers, loaded, mirrorVars, readerVars, booted,
                 fabrics, tapVars, removed>>

Persist ==
  /\ pc = "persist"
  /\ Write("db", flashDb, db)
  /\ told' = db
  /\ Done
  /\ UNCHANGED <<db, users, flashUsers, loaded, mirrorVars, readerVars, booted,
                 fabrics, tapVars, removed>>

(* emberAfPluginDoorLockSetUser(); entry None is an available slot. *)
SetUser(u, f) ==
  /\ loaded /\ pc = "idle"
  /\ f \in fabrics \cup {None}
  /\ users' = [users EXCEPT ![u] = f]
  /\ request' = [NoRequest EXCEPT !.changed = {"users"}]
  /\ pc' = "persist_users"
  /\ UNCHANGED <<db, flashDb, flashUsers, loaded, mirrorVars, readerVars, booted,
                 fabrics, tapVars, answerVars>>

PersistUsers ==
  /\ pc = "persist_users"
  /\ IF "users" \in request.changed
     THEN Write("users", flashUsers, users) ELSE UNCHANGED <<flashUsers, unsaved>>
  /\ removed' = IF unsaved' = {} THEN removed \cup ({request.fabric} \ {None}) ELSE removed
  /\ Done
  /\ UNCHANGED <<db, users, flashDb, loaded, mirrorVars, readerVars, booted, fabrics,
                 tapVars, told>>

-----------------------------------------------------------------------------
(* A fabric leaves: the stack deletes it, then calls OnFabricRemoved(), which *)
(* runs matter_lock_store_forget_fabric().                                    *)

RemoveFabric(f) ==
  /\ loaded /\ pc = "idle"
  /\ f \in fabrics
  /\ fabrics' = fabrics \ {f}
  /\ request' = [NoRequest EXCEPT !.fabric = f]
  /\ pc' = "forget"
  /\ UNCHANGED <<storeVars, mirrorVars, readerVars, booted, tapVars, answerVars>>

SlotsOf(f) == {s \in Slots : db[s].creator = f}
UsersOf(f) == {u \in Users : users[u] = f}

(* Mutant: a key that was cleared first is not there to be withdrawn. *)
ForgetSlotClearingFirst(s) ==
  /\ pc = "forget" /\ s \in SlotsOf(request.fabric)
  /\ db' = [db EXCEPT ![s] = Free]
  /\ request' = [request EXCEPT !.changed = request.changed \cup {"db"}]
  /\ UNCHANGED <<users, flashDb, flashUsers, loaded, mirrorVars, readerVars, booted,
                 pc, fabrics, tapVars, answerVars>>

(* One turn of the loop over the credential tables. *)
ForgetSlot(s) ==
  /\ pc = "forget" /\ s \in SlotsOf(request.fabric)
  /\ IF s \in EndpointSlots THEN Withdraw(db[s].key) ELSE UNCHANGED mirrorVars
  /\ db' = [db EXCEPT ![s] = Free]
  /\ request' = [request EXCEPT !.changed = request.changed \cup {"db"}]
  /\ UNCHANGED <<users, flashDb, flashUsers, loaded, readerVars, booted, pc, fabrics,
                 tapVars, answerVars>>

(* Mutant: the users of the fabric stay. *)
ForgetNoUsers ==
  /\ pc = "forget" /\ SlotsOf(request.fabric) = {}
  /\ pc' = "persist_all"
  /\ UNCHANGED <<storeVars, request, mirrorVars, readerVars, booted, fabrics,
                 tapVars, answerVars>>

ForgetUsers ==
  /\ pc = "forget" /\ SlotsOf(request.fabric) = {}
  /\ users' = [u \in Users |-> IF u \in UsersOf(request.fabric) THEN None ELSE users[u]]
  /\ request' = [request EXCEPT !.changed =
                   request.changed \cup (IF users' = users THEN {} ELSE {"users"})]
  /\ pc' = "persist_all"
  /\ UNCHANGED <<db, flashDb, flashUsers, loaded, mirrorVars, readerVars, booted,
                 fabrics, tapVars, answerVars>>

(* The credentials blob first, the users blob after it; each only when it    *)
(* changed.                                                                  *)
PersistForgotten ==
  /\ pc = "persist_all"
  /\ IF "db" \in request.changed
     THEN Write("db", flashDb, db) ELSE UNCHANGED <<flashDb, unsaved>>
  /\ told' = db
  /\ pc' = "persist_users"
  /\ UNCHANGED <<db, users, flashUsers, loaded, mirrorVars, readerVars, booted,
                 request, fabrics, tapVars, removed>>

-----------------------------------------------------------------------------
(* reader_set_identity(), once the identity is stored: aliro_reader_stop()   *)
(* waits for the reader task, and a reader that does not come back is an     *)
(* error that leaves the key slots and the persistent keys as they are.      *)
SwapReader ==
  /\ booted /\ pc = "idle" /\ tap = NoTap
  /\ StartReader
  /\ pc' = IF running' THEN "refresh" ELSE "idle"
  /\ UNCHANGED <<storeVars, mirrorVars, booted, request, fabrics, tapVars, answerVars>>

(* access_control_refresh_key_slots(): a key that cannot be derived keeps    *)
(* the slot it had, and the caller does not ask.                             *)
RefreshSlots ==
  /\ pc = "refresh"
  /\ \E kept \in {{}} \cup (IF DeriveFails THEN SUBSET Places ELSE {}) :
       /\ table' = [p \in Places |-> IF p \in kept \/ table[p] = Vacant
                                     THEN table[p] ELSE Entry(table[p].key)]
       /\ missed' = Unknown({table[p].key : p \in kept})
  /\ pc' = "forget_fast"
  /\ UNCHANGED <<storeVars, left, taken, readerVars, booted, request, fabrics,
                 tapVars, answerVars>>

(* aliro_reader_forget_fast_transactions(); the transaction that is running  *)
(* goes on with the key it has.                                              *)
ForgetFastTransactions ==
  /\ fastKeys' = {}
  /\ taken' = HeldKeys \cup {k \in {tap.key} : tap.known \/ tap.fast}

ForgetFast ==
  /\ pc = "forget_fast" /\ pc' = "idle"
  /\ ForgetFastTransactions
  /\ UNCHANGED <<storeVars, table, missed, left, readerVars, booted, request, fabrics,
                 tap, opened, answerVars>>

(* reader_clear_identity(), on the CHIP task or on the web server's: the     *)
(* reader keeps the identity it has.                                         *)
ClearReaderIdentity ==
  /\ booted
  /\ ForgetFastTransactions
  /\ UNCHANGED <<storeVars, table, missed, left, readerVars, booted, pc, request,
                 fabrics, tap, opened, answerVars>>

-----------------------------------------------------------------------------
(* The reader task *)

TapBegins(k) ==
  /\ booted /\ running /\ tap = NoTap
  /\ opened' = None
  /\ UNCHANGED <<storeVars, mirrorVars, readerVars, booted, pc, request, fabrics,
                 fastKeys, answerVars>>

(* on_lookup_credential_pubkey(), in a standard transaction of k's phone. *)
StandardTap(k) ==
  /\ TapBegins(k)
  /\ tap' = [key |-> k, known |-> KnownIn(table, k), fast |-> FALSE]

(* The SDK recognises a persistent key of this reader: no key slot, no       *)
(* lookup.                                                                   *)
FastTap(k) ==
  /\ TapBegins(k)
  /\ Entry(k) \in fastKeys
  /\ tap' = [key |-> k, known |-> FALSE, fast |-> TRUE]

(* A standard transaction may leave a persistent key with the SDK, in place  *)
(* of another when its slots are full.                                       *)
TapEnds ==
  /\ tap # NoTap /\ tap' = NoTap
  /\ \/ UNCHANGED fastKeys
     \/ /\ tap.known
        /\ \E kept \in SUBSET (fastKeys \cup {Entry(tap.key)}) :
             Cardinality(kept) <= FastSlots /\ fastKeys' = kept
  /\ UNCHANGED <<storeVars, mirrorVars, readerVars, booted, pc, request, fabrics,
                 answerVars>>

(* Mutant: what the lookup found is trusted when the decision is made. *)
DecideOnLookup ==
  /\ TapEnds
  /\ opened' = IF tap.fast \/ tap.known THEN tap.key ELSE None

(* access_control_on_reader_result() on a transaction that succeeded. *)
Decide ==
  /\ TapEnds
  /\ opened' = IF tap.fast \/ (tap.known /\ KnownIn(table, tap.key)) THEN tap.key ELSE None

(* ... and on one that failed, which it denies. *)
TransactionFails == TapEnds /\ UNCHANGED opened

-----------------------------------------------------------------------------
Commands ==
  \/ \E s \in Slots, e \in Credential \cup {Free} : SetCredential(s, e)
  \/ \E u \in Users, f \in Fabrics \cup {None} : SetUser(u, f)
  \/ \E f \in Fabrics : RemoveFabric(f)
  \/ \E s \in Slots : LoadSlot(s) \/ ForgetSlot(s)
  \/ WriteSlot \/ Persist \/ PersistUsers \/ ForgetUsers \/ PersistForgotten

Identity == SwapReader \/ RefreshSlots \/ ForgetFast \/ ClearReaderIdentity

Taps ==
  \/ \E k \in Phones : StandardTap(k) \/ FastTap(k)
  \/ Decide \/ TransactionFails

Next == AddBootCredential \/ StoreLoad \/ Restart \/ Commands \/ Identity \/ Taps

Spec == Init /\ [][Next]_vars

-----------------------------------------------------------------------------
(* Nothing stays enrolled in the reader without a database slot that holds   *)
(* its key, at every step of the commands and across restarts, however       *)
(* derivations, table places and reader starts fail: but for an entry that a *)
(* withdrawal did not find.                                                  *)
EnrolledIsInDatabase ==
  \A p \in Places \ left : table[p] = Vacant \/ table[p].key \in KeysIn(db) \cup {BootKey}

(* Between commands, the running reader's lookup finds every endpoint key    *)
(* the database reports as occupied, through changes of the reader's         *)
(* identity as well, but for those whose enrolment or derivation failed or   *)
(* that were cleared from another slot: "without this a reboot would         *)
(* silently stop opening the door ... with the cluster still cheerfully      *)
(* reporting them as enrolled".                                              *)
OccupiedIsEnrolled ==
  loaded /\ running /\ pc = "idle" => \A k \in KeysIn(db) \ missed : KnownIn(table, k)

(* What was answered to the controller is what NVS holds between commands,   *)
(* and so what a restart brings back, unless the last write of the blob has  *)
(* failed: a later one makes up for it.                                      *)
AnsweredIsDurable ==
  /\ pc = "idle" /\ "db" \notin unsaved => flashDb = told /\ (loaded => db = told)
  /\ pc = "idle" /\ "users" \notin unsaved /\ loaded => users = flashUsers

(* Once the removal of a fabric has been answered with everything written,   *)
(* none of its credentials and users comes back, not even with a restart.    *)
RemovedStaysRemoved ==
  \A f \in removed :
    /\ \A s \in Slots : f \notin {db[s].creator, flashDb[s].creator}
    /\ \A u \in Users : f \notin {users[u], flashUsers[u]}

(* The door opens in a standard transaction only for a key that the database *)
(* holds at that moment (or one that a withdrawal did not find), although    *)
(* the lookup, the decision and the command that removes the key are on two  *)
(* tasks and in three steps; and in a fast one only for a key the table has  *)
(* held since the persistent keys were last forgotten, so none that was      *)
(* removed before that.                                                      *)
OpensForRecorded ==
  [][opened' # opened /\ opened' # None =>
       IF tap.fast THEN opened' \in taken
       ELSE opened' \in KeysIn(db) \cup {table[p].key : p \in left}]_vars
=============================================================================
