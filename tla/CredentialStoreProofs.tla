------------------------ MODULE CredentialStoreProofs ------------------------
(***************************************************************************)
(* Proofs about the credential database and its mirror in the reader, for  *)
(* any number of keys, fabrics, slots, table places and reader identities, *)
(* with derivations, reader starts and NVS writes that fail and restarts   *)
(* between any two steps.                                                  *)
(***************************************************************************)
EXTENDS CredentialStore, TLAPS

LEMMA TapTyped ==
  ASSUME NEW k \in Keys, NEW b \in BOOLEAN, NEW c \in BOOLEAN
  PROVE  [key |-> k, known |-> b, fast |-> c]
           \in [key : Keys, known : BOOLEAN, fast : BOOLEAN]
OBVIOUS

LEMMA EntryTyped ==
  ASSUME NEW k \in Keys \cup {BootKey}, reader \in Readers
  PROVE  Entry(k) \in Enrolled /\ Entry(k).key = k
BY DEF Entry, Enrolled

(* An occupied slot holds a key, and the keys of a database are keys. *)
LEMMA OccupiedTyped ==
  ASSUME NEW d \in Databases, NEW s \in Occupied(d)
  PROVE  d[s] \in Credential /\ d[s].key \in Keys /\ s \in Slots
BY DEF Occupied, Databases, Credential, EndpointSlots, Slots

(* What TypeOK says of the reader's table and its histories. *)
MirrorTyped ==
  /\ table \in [Places -> Enrolled \cup {Vacant}]
  /\ missed \subseteq Keys /\ left \subseteq Places
  /\ taken \subseteq Keys \cup {BootKey}

LEMMA EnrollTyped ==
  ASSUME TypeOK, NEW k \in Keys \cup {BootKey}, Enroll(k)
  PROVE  MirrorTyped'
<1>1. missed' \subseteq Keys
  BY DEF Enroll, Unknown
<1>2. CASE UNCHANGED <<table, left, taken>>
  BY <1>1, <1>2 DEF MirrorTyped, TypeOK
<1>3. ASSUME NEW p \in Places, reader # None,
             table' = [table EXCEPT ![p] = Entry(k)],
             left' = left \ {p}, taken' = taken \cup {k}
      PROVE  MirrorTyped'
  <2>1. Entry(k) \in Enrolled
    BY <1>3, EntryTyped DEF TypeOK
  <2>2. QED BY <1>1, <1>3, <2>1 DEF MirrorTyped, TypeOK
<1>4. QED BY <1>2, <1>3 DEF Enroll

LEMMA WithdrawTyped ==
  ASSUME TypeOK, NEW k, Withdraw(k)
  PROVE  MirrorTyped'
<1>1. missed' \subseteq Keys /\ left' \subseteq Places /\ UNCHANGED taken
  BY DEF Withdraw, Unknown, Holding, TypeOK
<1>2. table' \in [Places -> Enrolled \cup {Vacant}]
  BY DEF Withdraw, TypeOK
<1>3. QED BY <1>1, <1>2 DEF MirrorTyped, TypeOK

LEMMA TapEndsTyped ==
  ASSUME TypeOK, TapEnds
  PROVE  tap' = NoTap /\ tap.key \in Keys /\ fastKeys' \subseteq Enrolled
<1>1. tap \in [key : Keys, known : BOOLEAN, fast : BOOLEAN] /\ reader \in Readers
  BY DEF TypeOK, TapEnds
<1>2. Entry(tap.key) \in Enrolled
  BY <1>1, EntryTyped
<1>3. QED BY <1>1, <1>2 DEF TapEnds, TypeOK

(* While store_load() enrolls, what it has still to do is occupied, and       *)
(* until it runs there is nothing in the RAM copy and no command to serve.   *)
TodoOccupied == pc = "load" => request.todo \subseteq Occupied(db)
NothingBeforeLoad ==
  /\ ~booted => ~loaded /\ pc = "idle"
  /\ ~loaded => db = EmptyDb /\ pc \in {"idle", "refresh", "forget_fast"}

RefreshedRunning == pc = "refresh" => running

TypeInv == TypeOK /\ TodoOccupied /\ NothingBeforeLoad /\ RefreshedRunning

LEMMA EmptyIsUnoccupied == Occupied(EmptyDb) = {} /\ KeysIn(EmptyDb) = {}
BY DEF KeysIn, Occupied, EmptyDb, EndpointSlots, Slots

LEMMA TypesInitially == Init => TypeInv
<1> USE DEF Databases, UserTables, Credential, Free, NoRequest, NoTap, Requests, Steps,
            EmptyDb, NoUsers, EmptyTable, Blobs
<1>1. /\ EmptyDb \in Databases /\ NoUsers \in UserTables
      /\ NoRequest \in Requests
      /\ EmptyTable \in [Places -> Enrolled \cup {Vacant}]
  OBVIOUS
<1>2. QED
  BY <1>1, KeysAssumption
  DEF Init, TypeInv, TypeOK, TodoOccupied, NothingBeforeLoad, RefreshedRunning, Occupied

LEMMA TypesInductive ==
  ASSUME TypeInv, [Next]_vars
  PROVE  TypeInv'
<1> USE DEF TypeInv, TodoOccupied, NothingBeforeLoad, RefreshedRunning, Databases,
            UserTables, Credential, Free, NoRequest, NoTap, Requests, Steps, EmptyDb, NoUsers, EmptyTable, Blobs,
            storeVars, mirrorVars, readerVars, tapVars, answerVars, Done
<1>1. CASE AddBootCredential
  <2>1. MirrorTyped'
    BY <1>1, EnrollTyped DEF AddBootCredential, MirrorTyped, TypeOK
  <2>2. QED BY <1>1, <2>1 DEF AddBootCredential, MirrorTyped, TypeOK
<1>2. CASE StoreLoad
  BY <1>2 DEF StoreLoad, TypeOK, Occupied
<1>3. ASSUME NEW s \in Slots, LoadSlot(s)
      PROVE  TypeInv'
  <2>1. db[s].key \in Keys /\ Enroll(db[s].key)
    BY <1>3, OccupiedTyped DEF LoadSlot, TypeOK
  <2>2. MirrorTyped'
    BY <2>1, EnrollTyped
  <2>3. /\ pc = "load" /\ pc' \in {"idle", "load"} /\ request' \in Requests
        /\ request'.todo \subseteq request.todo
    BY <1>3 DEF LoadSlot, TypeOK
  <2>4. UNCHANGED <<storeVars, readerVars, booted, fabrics, tapVars, answerVars>>
    BY <1>3 DEF LoadSlot
  <2>5. QED BY <2>2, <2>3, <2>4 DEF MirrorTyped, TypeOK, Occupied
<1>4. CASE Restart
  <2>1. /\ EmptyDb \in Databases /\ NoUsers \in UserTables /\ NoRequest \in Requests
        /\ EmptyTable \in [Places -> Enrolled \cup {Vacant}]
    OBVIOUS
  <2>2. QED BY <1>4, <2>1, KeysAssumption DEF Restart, StartReader, TypeOK
<1>5. ASSUME NEW s \in Slots, NEW e \in Credential \cup {Free}, SetCredential(s, e)
      PROVE  TypeInv'
  <2>1. MirrorTyped'
    BY <1>5, WithdrawTyped DEF SetCredential, MirrorTyped, TypeOK
  <2>2. QED BY <1>5, <2>1 DEF SetCredential, MirrorTyped, TypeOK
<1>6. ASSUME NEW u \in Users, NEW f \in Fabrics \cup {None}, SetUser(u, f)
      PROVE  TypeInv'
  BY <1>6 DEF SetUser, TypeOK
<1>7. ASSUME NEW f \in Fabrics, RemoveFabric(f)
      PROVE  TypeInv'
  BY <1>7 DEF RemoveFabric, TypeOK
<1>8. CASE WriteSlot
  <2>1. db' \in Databases /\ pc = "write" /\ pc' = "persist"
    BY <1>8 DEF WriteSlot, TypeOK
  <2>2. MirrorTyped'
    <3>1. CASE request.slot \in Occupied(db')
      <4>1. request.slot \in Slots /\ request.entry = db'[request.slot]
        BY <1>8, <2>1, <3>1, OccupiedTyped DEF WriteSlot, TypeOK
      <4>2. request.entry.key \in Keys
        BY <2>1, <3>1, <4>1, OccupiedTyped
      <4>3. QED BY <1>8, <3>1, <4>2, EnrollTyped DEF WriteSlot
    <3>2. CASE request.slot \notin Occupied(db')
      BY <1>8, <3>2 DEF WriteSlot, MirrorTyped, TypeOK
    <3>3. QED BY <3>1, <3>2
  <2>3. UNCHANGED <<users, flashDb, flashUsers, loaded, readerVars, booted, request,
                    fabrics, tapVars, answerVars>>
    BY <1>8 DEF WriteSlot
  <2>4. QED BY <2>1, <2>2, <2>3 DEF MirrorTyped, TypeOK
<1>9. CASE Persist
  BY <1>9 DEF Persist, Write, TypeOK
<1>10. CASE PersistUsers
  BY <1>10 DEF PersistUsers, Write, TypeOK
<1>11. ASSUME NEW s \in Slots, ForgetSlot(s)
       PROVE  TypeInv'
  <2>1. MirrorTyped'
    BY <1>11, WithdrawTyped DEF ForgetSlot, MirrorTyped, TypeOK
  <2>2. /\ db' \in Databases /\ request' \in Requests
        /\ pc = "forget" /\ UNCHANGED pc
    BY <1>11 DEF ForgetSlot, TypeOK
  <2>3. UNCHANGED <<users, flashDb, flashUsers, loaded, readerVars, booted, pc, fabrics,
                    tapVars, answerVars>>
    BY <1>11 DEF ForgetSlot
  <2>4. QED BY <2>1, <2>2, <2>3 DEF MirrorTyped, TypeOK
<1>12. CASE ForgetUsers
  <2>1. users' \in UserTables /\ request' \in Requests
    BY <1>12 DEF ForgetUsers, TypeOK
  <2>2. QED BY <1>12, <2>1 DEF ForgetUsers, TypeOK
<1>13. CASE PersistForgotten
  BY <1>13 DEF PersistForgotten, Write, TypeOK
<1>14. CASE SwapReader
  BY <1>14, KeysAssumption DEF SwapReader, StartReader, TypeOK
<1>15. CASE RefreshSlots
  <2>1. PICK kept \in SUBSET Places :
          table' = [p \in Places |-> IF p \in kept \/ table[p] = Vacant
                                     THEN table[p] ELSE Entry(table[p].key)]
    BY <1>15 DEF RefreshSlots
  <2>2. ASSUME NEW p \in Places
        PROVE  table'[p] \in Enrolled \cup {Vacant}
    <3>1. CASE p \in kept \/ table[p] = Vacant
      BY <2>1, <3>1 DEF TypeOK
    <3>2. CASE ~(p \in kept \/ table[p] = Vacant)
      <4>1. table[p].key \in Keys \cup {BootKey}
        BY <3>2 DEF TypeOK, Enrolled
      <4>2. reader \in Readers
        BY <1>15 DEF RefreshSlots, TypeOK
      <4>3. QED BY <2>1, <3>2, <4>1, <4>2, EntryTyped
    <3>3. QED BY <3>1, <3>2
  <2>3. missed' \subseteq Keys
    BY <1>15 DEF RefreshSlots, Unknown
  <2>4. table' \in [Places -> Enrolled \cup {Vacant}]
    BY <2>1, <2>2
  <2>5. QED BY <1>15, <2>3, <2>4 DEF RefreshSlots, TypeOK
<1>16. CASE ForgetFast \/ ClearReaderIdentity
  <2>1. HeldKeys \subseteq Keys \cup {BootKey}
    BY DEF HeldKeys, TypeOK, Enrolled
  <2>2. taken' \subseteq Keys \cup {BootKey}
    BY <1>16, <2>1 DEF ForgetFast, ClearReaderIdentity, ForgetFastTransactions, TypeOK
  <2>3. UNCHANGED <<storeVars, table, missed, left, readerVars, booted, request, fabrics,
                    tap, opened, answerVars>> /\ fastKeys' = {}
    BY <1>16 DEF ForgetFast, ClearReaderIdentity, ForgetFastTransactions
  <2>4. pc' = pc \/ pc' = "idle"
    BY <1>16 DEF ForgetFast, ClearReaderIdentity
  <2>5. QED BY <2>2, <2>3, <2>4 DEF TypeOK, Occupied
<1>17. ASSUME NEW k \in Phones, StandardTap(k) \/ FastTap(k)
       PROVE  TypeInv'
  <2>1. k \in Keys
    BY KeysAssumption
  <2>2. TapBegins(k)
    BY <1>17 DEF StandardTap, FastTap
  <2>3. KnownIn(table, k) \in BOOLEAN
    BY DEF KnownIn
  <2>4. \/ tap' = [key |-> k, known |-> KnownIn(table, k), fast |-> FALSE]
        \/ tap' = [key |-> k, known |-> FALSE, fast |-> TRUE]
    BY <1>17, Zenon DEF StandardTap, FastTap
  <2>5. tap' \in [key : Keys, known : BOOLEAN, fast : BOOLEAN]
    BY <2>1, <2>3, <2>4, TapTyped, Zenon
  <2>6. QED BY <2>2, <2>5 DEF TapBegins, TypeOK
<1>18. CASE Decide \/ TransactionFails
  <2>1. TapEnds /\ tap' = NoTap /\ tap.key \in Keys /\ fastKeys' \subseteq Enrolled
    BY <1>18, TapEndsTyped DEF Decide, TransactionFails
  <2>2. opened' \in Keys \cup {None}
    BY <1>18, <2>1 DEF Decide, TransactionFails, TypeOK
  <2>3. QED BY <2>1, <2>2 DEF TapEnds, TypeOK
<1>19. CASE UNCHANGED vars
  BY <1>19 DEF vars, TypeOK
<1>20. QED
  BY <1>1, <1>2, <1>3, <1>4, <1>5, <1>6, <1>7, <1>8, <1>9, <1>10, <1>11, <1>12,
     <1>13, <1>14, <1>15, <1>16, <1>17, <1>18, <1>19
  DEF Next, Commands, Identity, Taps

(* The types are kept by every command, tap, change of identity and restart. *)
THEOREM TypeCorrect == Spec => []TypeOK
<1>1. TypeInv => TypeOK
  BY DEF TypeInv
<1>2. QED BY <1>1, TypesInitially, TypesInductive, PTL DEF Spec

(* TypeInv, the inductive form of the types, always holds. *)
LEMMA AlwaysTyped == Spec => []TypeInv
BY TypesInitially, TypesInductive, PTL DEF Spec

-----------------------------------------------------------------------------
(* What makes EnrolledIsInDatabase inductive: between withdrawing the old    *)
(* key of a slot and overwriting it, every place that holds that key is one  *)
(* the withdrawal did not find.                                              *)
WithdrawnBeforeWrite ==
  pc = "write" =>
    /\ request.slot \in Slots
    /\ request.slot \in Occupied(db) => Holding(db[request.slot].key) \subseteq left

MirrorInv == EnrolledIsInDatabase /\ WithdrawnBeforeWrite

(* A key that some endpoint slot of d holds. *)
LEMMA KeyHeld ==
  ASSUME NEW d, NEW k
  PROVE  k \in KeysIn(d) <=> \E s \in Occupied(d) : d[s].key = k
BY DEF KeysIn

(* Overwriting one slot loses at most the key it held. *)
LEMMA OverwriteLosesOne ==
  ASSUME NEW d \in Databases, NEW s \in Slots, NEW e, NEW k \in KeysIn(d),
         ~(s \in Occupied(d) /\ d[s].key = k)
  PROVE  k \in KeysIn([d EXCEPT ![s] = e])
<1>1. PICK o \in Occupied(d) : d[o].key = k
  BY KeyHeld
<1>2. o # s
  BY <1>1
<1>3. [d EXCEPT ![s] = e][o] = d[o]
  BY <1>2 DEF Databases, Slots, EndpointSlots, Occupied
<1>4. o \in Occupied([d EXCEPT ![s] = e])
  BY <1>3 DEF Occupied
<1>5. QED BY <1>1, <1>3, <1>4, KeyHeld

(* Enrolling changes one place, to its key, and withdrawing leaves nothing   *)
(* of a key but in places it is then known to have missed.                   *)
LEMMA EnrollChangesOne ==
  ASSUME TypeOK, NEW k, Enroll(k), NEW p \in Places
  PROVE  \/ table'[p] = Entry(k) /\ p \notin left'
         \/ table'[p] = table[p] /\ (p \in left' <=> p \in left)
<1>1. ASSUME NEW q \in Places, table' = [table EXCEPT ![q] = Entry(k)], left' = left \ {q}
      PROVE  \/ table'[p] = Entry(k) /\ p \notin left'
             \/ table'[p] = table[p] /\ (p \in left' <=> p \in left)
  BY <1>1 DEF TypeOK
<1>2. QED BY <1>1 DEF Enroll

LEMMA WithdrawLeaves ==
  ASSUME TypeOK, NEW k, Withdraw(k), NEW p \in Places \ left', table'[p] # Vacant
  PROVE  p \notin left /\ table'[p] = table[p] /\ table[p].key # k
<1>1. p \notin left /\ p \notin Holding(k)
  BY DEF Withdraw
<1>2. table'[p] = table[p]
  <2>1. ASSUME NEW q \in Places, table' = [table EXCEPT ![q] = Vacant]
        PROVE  table'[p] = table[p]
    BY <2>1 DEF TypeOK
  <2>2. QED BY <2>1 DEF Withdraw
<1>3. QED BY <1>1, <1>2 DEF Holding

LEMMA EntryKey == ASSUME NEW k PROVE Entry(k).key = k
BY DEF Entry

LEMMA MirrorInductive ==
  ASSUME TypeInv, MirrorInv, [Next]_vars
  PROVE  MirrorInv'
<1> USE DEF MirrorInv, EnrolledIsInDatabase, WithdrawnBeforeWrite
<1>0. TypeOK
  BY DEF TypeInv
<1>1. CASE AddBootCredential
  <2>1. pc' = "idle" /\ UNCHANGED db
    BY <1>1 DEF AddBootCredential, TypeInv, NothingBeforeLoad, storeVars
  <2>2. ASSUME NEW p \in Places \ left'
        PROVE  table'[p] = Vacant \/ table'[p].key \in KeysIn(db) \cup {BootKey}
    <3>1. CASE Enroll(BootKey)
      BY <1>0, <2>2, <3>1, EnrollChangesOne, EntryKey
    <3>2. CASE UNCHANGED mirrorVars
      BY <2>2, <3>2 DEF mirrorVars
    <3>3. QED BY <1>1, <3>1, <3>2 DEF AddBootCredential
  <2>3. KeysIn(db') = KeysIn(db)
    BY <2>1
  <2>4. QED BY <2>1, <2>2, <2>3
<1>2. CASE StoreLoad
  <2>1. ~loaded /\ UNCHANGED <<table, left>> /\ pc' # "write"
    BY <1>2 DEF StoreLoad, mirrorVars
  <2>2. \A p \in Places \ left : table[p] = Vacant \/ table[p].key = BootKey
    BY <2>1, EmptyIsUnoccupied DEF TypeInv, NothingBeforeLoad
  <2>3. QED BY <2>1, <2>2
<1>3. ASSUME NEW s \in Slots, LoadSlot(s)
      PROVE  MirrorInv'
  <2>1. Enroll(db[s].key) /\ UNCHANGED db /\ pc' # "write" /\ s \in Occupied(db)
    BY <1>3 DEF LoadSlot, storeVars, TypeInv, TodoOccupied
  <2>2. ASSUME NEW p \in Places \ left'
        PROVE  table'[p] = Vacant \/ table'[p].key \in KeysIn(db) \cup {BootKey}
    BY <1>0, <2>1, <2>2, EnrollChangesOne, EntryKey, KeyHeld
  <2>3. KeysIn(db') = KeysIn(db)
    BY <2>1
  <2>4. QED BY <2>1, <2>2, <2>3
<1>4. CASE Restart
  BY <1>4 DEF Restart, EmptyTable
<1>5. ASSUME NEW s \in Slots, NEW e \in Credential \cup {Free}, SetCredential(s, e)
      PROVE  MirrorInv'
  <2>1. UNCHANGED db /\ request'.slot = s
    BY <1>5 DEF SetCredential, storeVars, NoRequest
  <2>2. KeysIn(db') = KeysIn(db) /\ Occupied(db') = Occupied(db)
    BY <2>1
  <2>3. CASE s \in Occupied(db)
    <3>1. Withdraw(db[s].key)
      BY <1>5, <2>3 DEF SetCredential
    <3>2. ASSUME NEW p \in Places \ left'
          PROVE  table'[p] = Vacant \/ table'[p].key \in KeysIn(db) \cup {BootKey}
      BY <1>0, <3>1, <3>2, WithdrawLeaves
    <3>3. ASSUME NEW p \in Places, table'[p].key = db[s].key
          PROVE  p \in left'
      <4>1. db[s].key \in Keys
        BY <1>0, <2>3, OccupiedTyped DEF TypeOK
      <4>2. table'[p] # Vacant
        BY <3>3, <4>1, KeysAssumption DEF Vacant
      <4>3. QED BY <1>0, <3>1, <3>3, <4>2, WithdrawLeaves
    <3>4. (Holding(db[s].key) \subseteq left)'
      BY <2>1, <3>3 DEF Holding
    <3>5. QED BY <2>1, <2>2, <3>2, <3>4
  <2>4. CASE s \notin Occupied(db)
    BY <1>5, <2>1, <2>2, <2>4 DEF SetCredential, mirrorVars
  <2>5. QED BY <2>3, <2>4
<1>6. CASE WriteSlot
  <2> DEFINE s == request.slot
             e == request.entry
  <2>1. /\ pc = "write" /\ pc' = "persist" /\ s \in Slots
        /\ db' = [db EXCEPT ![s] = e] /\ db'[s] = e
    BY <1>0, <1>6 DEF WriteSlot, TypeOK, Databases
  <2>2. ASSUME NEW p \in Places \ left, table[p] # Vacant, table[p].key # BootKey
        PROVE  table[p].key \in KeysIn(db')
    <3>1. table[p].key \in KeysIn(db)
      BY <2>2
    <3>2. ~(s \in Occupied(db) /\ db[s].key = table[p].key)
      BY <2>1, <2>2 DEF Holding
    <3>3. QED BY <1>0, <2>1, <3>1, <3>2, OverwriteLosesOne DEF TypeOK
  <2>3. ASSUME NEW p \in Places \ left'
        PROVE  table'[p] = Vacant \/ table'[p].key \in KeysIn(db') \cup {BootKey}
    <3>1. CASE s \in Occupied(db')
      <4>1. Enroll(e.key) /\ e.key \in KeysIn(db')
        BY <1>6, <2>1, <3>1, KeyHeld DEF WriteSlot
      <4>2. QED BY <1>0, <2>2, <2>3, <4>1, EnrollChangesOne, EntryKey
    <3>2. CASE s \notin Occupied(db')
      BY <1>6, <2>2, <2>3, <3>2 DEF WriteSlot, mirrorVars
    <3>3. QED BY <3>1, <3>2
  <2>4. QED BY <2>1, <2>3
<1>7. ASSUME NEW s \in Slots, ForgetSlot(s)
      PROVE  MirrorInv'
  <2>1. /\ db' = [db EXCEPT ![s] = Free] /\ pc' = "forget"
        /\ s \in EndpointSlots => Withdraw(db[s].key)
        /\ s \notin EndpointSlots => UNCHANGED mirrorVars
    BY <1>7 DEF ForgetSlot
  <2>2. ASSUME NEW p \in Places \ left', table'[p] # Vacant, table'[p].key # BootKey
        PROVE  table'[p].key \in KeysIn(db')
    <3>1. p \notin left /\ table'[p] = table[p]
      BY <1>0, <2>1, <2>2, WithdrawLeaves DEF mirrorVars
    <3>2. ~(s \in Occupied(db) /\ db[s].key = table[p].key)
      BY <1>0, <2>1, <2>2, WithdrawLeaves DEF Occupied
    <3>3. table[p].key \in KeysIn(db)
      BY <2>2, <3>1
    <3>4. QED BY <1>0, <2>1, <3>1, <3>2, <3>3, OverwriteLosesOne DEF TypeOK
  <2>3. QED BY <2>1, <2>2
<1>8. CASE RefreshSlots
  <2>1. UNCHANGED <<db, left>> /\ pc' # "write"
    BY <1>8 DEF RefreshSlots, storeVars
  <2>2. ASSUME NEW p \in Places
        PROVE  \/ table'[p] = Vacant /\ table[p] = Vacant
               \/ table[p] # Vacant /\ table'[p].key = table[p].key
    BY <1>8, EntryKey DEF RefreshSlots
  <2>3. KeysIn(db') = KeysIn(db)
    BY <2>1
  <2>4. QED BY <2>1, <2>2, <2>3
<1>9. ASSUME UNCHANGED <<db, table, left>>, pc' # "write"
      PROVE  MirrorInv'
  BY <1>9 DEF KeysIn, Occupied
<1>10. CASE UNCHANGED <<db, table, left, pc, request>>
  BY <1>10 DEF KeysIn, Occupied, Holding
<1>11. ASSUME NEW u \in Users, NEW f \in Fabrics \cup {None}, SetUser(u, f)
       PROVE  MirrorInv'
  BY <1>9, <1>11 DEF SetUser, mirrorVars
<1>12. ASSUME NEW f \in Fabrics, RemoveFabric(f)
       PROVE  MirrorInv'
  BY <1>9, <1>12 DEF RemoveFabric, mirrorVars, storeVars
<1>13. CASE Persist \/ PersistUsers \/ ForgetUsers \/ PersistForgotten
  BY <1>9, <1>13 DEF Persist, PersistUsers, ForgetUsers, PersistForgotten, mirrorVars, Done
<1>14. CASE SwapReader \/ ForgetFast
  BY <1>9, <1>14 DEF SwapReader, ForgetFast, mirrorVars, storeVars
<1>15. CASE ClearReaderIdentity
  BY <1>10, <1>15 DEF ClearReaderIdentity, storeVars
<1>16. CASE Taps
  BY <1>10, <1>16 DEF Taps, StandardTap, FastTap, TapBegins, Decide, TransactionFails,
                      TapEnds, storeVars, mirrorVars
<1>17. CASE UNCHANGED vars
  BY <1>10, <1>17 DEF vars, storeVars, mirrorVars
<1>18. QED
  BY <1>1, <1>2, <1>3, <1>4, <1>5, <1>6, <1>7, <1>8, <1>11, <1>12, <1>13, <1>14,
     <1>15, <1>16, <1>17
  DEF Next, Commands, Identity

(* MirrorInv, the inductive form of the next theorem, always holds. *)
LEMMA AlwaysMirrored == Spec => []MirrorInv
<1>1. Init => MirrorInv
  BY DEF Init, MirrorInv, EnrolledIsInDatabase, WithdrawnBeforeWrite, EmptyTable
<1>2. QED BY <1>1, MirrorInductive, AlwaysTyped, PTL DEF Spec

(* Whatever fails - a derivation, a full table, an NVS write, the reader's   *)
(* start - nothing is enrolled in the reader that no database slot holds,    *)
(* but in a place whose withdrawal did not find it.                          *)
THEOREM NothingEnrolledUnrecorded == Spec => []EnrolledIsInDatabase
<1>1. MirrorInv => EnrolledIsInDatabase
  BY DEF MirrorInv
<1>2. QED BY <1>1, AlwaysMirrored, PTL

-----------------------------------------------------------------------------
(* The other direction: every key of the database is missed, or else found   *)
(* by the running reader - held at least, while no reader runs or the key    *)
(* slots have still to be derived again - but for the slots a command has    *)
(* still to enroll.                                                          *)
Pending == IF pc = "write" THEN {request.slot}
           ELSE IF pc = "load" THEN request.todo ELSE {}
Fitting == running /\ pc # "refresh"
Found(k) == \/ k \in missed
            \/ IF Fitting THEN KnownIn(table, k) ELSE k \in HeldKeys
MirroredFound == \A s \in Occupied(db) \ Pending : Found(db[s].key)

LEMMA HeldAt ==
  ASSUME NEW k
  PROVE  k \in HeldKeys <=> \E p \in Places : table[p] # Vacant /\ table[p].key = k
BY DEF HeldKeys

(* An entry the lookup finds is held, and stays so when its slot is stale.   *)
LEMMA KnownIsHeld ==
  ASSUME NEW k \in Keys, KnownIn(table, k)
  PROVE  k \in HeldKeys
BY HeldAt, KeysAssumption DEF KnownIn, Entry, Vacant

LEMMA KnownIsHeldNext ==
  ASSUME NEW k \in Keys, KnownIn(table, k)'
  PROVE  (k \in HeldKeys)'
BY KnownIsHeld, PTL

(* Neither enrolling nor withdrawing a key changes an entry of another, and  *)
(* after both that key itself is found or missed, so none is lost from       *)
(* sight.                                                                    *)
LEMMA OthersStay ==
  ASSUME TypeOK, NEW k, Enroll(k) \/ Withdraw(k), NEW p \in Places,
         table[p] # Vacant, table[p].key # k
  PROVE  table'[p] = table[p]
<1>1. ASSUME NEW q \in Places, NEW e, table[q] \in {Entry(k), Vacant},
             table' = [table EXCEPT ![q] = e]
      PROVE  table'[p] = table[p]
  BY <1>1, EntryKey DEF TypeOK
<1>2. QED BY <1>1 DEF Enroll, Withdraw

LEMMA NoneLost ==
  ASSUME TypeOK, NEW k, Enroll(k) \/ Withdraw(k), UNCHANGED reader,
         Fitting' = Fitting, NEW j \in Keys, j = k \/ Found(j)
  PROVE  Found(j)'
<1>1. missed' = Unknown({k})
  BY DEF Enroll, Withdraw
<1>2. KnownIn(table', j) <=> KnownIn(table, j)'
  BY DEF KnownIn, Entry
<1>3. KnownIn(table, j)' => Found(j)'
  BY KnownIsHeldNext DEF Found
<1>4. CASE j = k \/ j \in missed
  BY <1>1, <1>2, <1>3, <1>4 DEF Unknown, Found
<1>5. CASE j # k /\ Fitting /\ KnownIn(table, j)
  <2>1. PICK p \in Places : table[p] = Entry(j)
    BY <1>5 DEF KnownIn
  <2>2. table[p] # Vacant /\ table[p].key = j
    BY <2>1, KeysAssumption DEF Entry, Vacant
  <2>3. table'[p] = Entry(j)
    BY <1>5, <2>1, <2>2, OthersStay
  <2>4. QED BY <1>2, <1>3, <2>3 DEF KnownIn
<1>6. CASE j # k /\ ~Fitting /\ j \in HeldKeys
  <2>1. PICK p \in Places : table[p] # Vacant /\ table[p].key = j
    BY <1>6, HeldAt
  <2>2. table'[p] = table[p]
    BY <1>6, <2>1, OthersStay
  <2>3. (j \in HeldKeys)'
    BY <2>1, <2>2 DEF HeldKeys
  <2>4. QED BY <1>6, <2>3 DEF Found
<1>7. QED BY <1>4, <1>5, <1>6 DEF Found

(* Deriving every key slot again finds what is held, but for those that fail. *)
LEMMA RefreshFinds ==
  ASSUME TypeOK, RefreshSlots, running, NEW j \in Keys, j \in missed \/ j \in HeldKeys
  PROVE  Found(j)'
<1>1. PICK kept \in SUBSET Places :
        /\ table' = [p \in Places |-> IF p \in kept \/ table[p] = Vacant
                                      THEN table[p] ELSE Entry(table[p].key)]
        /\ missed' = Unknown({table[p].key : p \in kept})
  BY DEF RefreshSlots
<1>2. reader' = reader /\ Fitting'
  BY DEF RefreshSlots, readerVars, Fitting
<1>3. KnownIn(table', j) <=> KnownIn(table, j)'
  BY <1>2 DEF KnownIn, Entry
<1>4. CASE j \in missed \/ \E p \in kept : table[p].key = j
  BY <1>1, <1>2, <1>3, <1>4 DEF Unknown, Found
<1>5. ASSUME NEW p \in Places \ kept, table[p] # Vacant, table[p].key = j
      PROVE  Found(j)'
  <2>1. table'[p] = Entry(j)
    BY <1>1, <1>5
  <2>2. QED BY <1>2, <1>3, <2>1 DEF KnownIn, Found
<1>6. QED BY <1>4, <1>5, HeldAt

LEMMA FoundInductive ==
  ASSUME TypeInv, MirroredFound, [Next]_vars
  PROVE  MirroredFound'
<1>0. TypeOK
  BY DEF TypeInv
<1>a. ASSUME NEW s \in Occupied(db)
      PROVE  db[s].key \in Keys
  BY <1>0, OccupiedTyped DEF TypeOK
<1>1. CASE AddBootCredential
  <2>1. /\ pc = "idle" /\ UNCHANGED <<db, pc, reader, running, request>>
        /\ Enroll(BootKey) \/ UNCHANGED <<table, missed>>
    BY <1>1 DEF AddBootCredential, TypeInv, NothingBeforeLoad, storeVars, readerVars,
                mirrorVars
  <2>2. db = EmptyDb
    BY <1>1 DEF AddBootCredential, TypeInv, NothingBeforeLoad
  <2>3. Occupied(db') = {}
    BY <2>1, <2>2, EmptyIsUnoccupied
  <2>4. QED BY <2>3 DEF MirroredFound
<1>2. CASE StoreLoad
  <2>1. db' = flashDb /\ (Pending' = Occupied(flashDb) \/ Occupied(flashDb) = {})
    BY <1>2 DEF StoreLoad, Pending, NoRequest
  <2>2. Occupied(db') = Occupied(flashDb)
    BY <2>1
  <2>3. QED BY <2>1, <2>2 DEF MirroredFound
<1>3. ASSUME NEW s \in Slots, LoadSlot(s)
      PROVE  MirroredFound'
  <2>1. /\ pc = "load" /\ pc' \in {"idle", "load"} /\ UNCHANGED <<db, reader, running>>
        /\ s \in request.todo /\ Enroll(db[s].key)
        /\ request'.todo = request.todo \ {s}
        /\ pc' = "idle" => request'.todo = {}
    BY <1>0, <1>3 DEF LoadSlot, storeVars, readerVars, TypeOK, Requests
  <2>2. Pending = request.todo /\ Pending' = request.todo \ {s} /\ Fitting' = Fitting
    BY <2>1 DEF Pending, Fitting
  <2>3. s \in Occupied(db)
    BY <2>1 DEF TypeInv, TodoOccupied
  <2>4. ASSUME NEW o \in Occupied(db) \ (request.todo \ {s})
        PROVE  Found(db[o].key)'
    <3>1. db[o].key = db[s].key \/ Found(db[o].key)
      BY <2>2, <2>4 DEF MirroredFound
    <3>2. QED BY <1>0, <1>a, <2>1, <2>2, <2>3, <3>1, NoneLost
  <2>5. Occupied(db') = Occupied(db)
    BY <2>1
  <2>6. QED BY <2>1, <2>2, <2>4, <2>5 DEF MirroredFound
<1>4. CASE Restart
  BY <1>4, EmptyIsUnoccupied DEF Restart, MirroredFound, Occupied
<1>5. ASSUME NEW s \in Slots, NEW e \in Credential \cup {Free}, SetCredential(s, e)
      PROVE  MirroredFound'
  <2>1. /\ pc = "idle" /\ pc' = "write" /\ UNCHANGED <<db, reader, running>>
        /\ request'.slot = s
    BY <1>5 DEF SetCredential, storeVars, readerVars, NoRequest
  <2>2. Pending = {} /\ Pending' = {s} /\ Fitting' = Fitting
    BY <2>1 DEF Pending, Fitting
  <2>3. ASSUME NEW o \in Occupied(db)
        PROVE  Found(db[o].key)'
    <3>1. Found(db[o].key)
      BY <2>2 DEF MirroredFound
    <3>2. CASE s \in Occupied(db)
      <4>1. Withdraw(db[s].key)
        BY <1>5, <3>2 DEF SetCredential
      <4>2. QED BY <1>0, <1>a, <2>1, <2>2, <3>1, <3>2, <4>1, NoneLost
    <3>3. CASE UNCHANGED mirrorVars
      BY <2>1, <2>2, <3>1, <3>3 DEF Found, mirrorVars, KnownIn, Entry, HeldKeys
    <3>4. QED BY <1>5, <3>2, <3>3 DEF SetCredential
  <2>4. Occupied(db') = Occupied(db)
    BY <2>1
  <2>5. QED BY <2>1, <2>3, <2>4 DEF MirroredFound
<1>6. CASE WriteSlot
  <2> DEFINE s == request.slot
             e == request.entry
  <2>1. /\ pc = "write" /\ pc' = "persist" /\ UNCHANGED <<reader, running>>
        /\ db' = [db EXCEPT ![s] = e]
        /\ IF s \in Occupied(db') THEN Enroll(e.key) ELSE UNCHANGED mirrorVars
    BY <1>6 DEF WriteSlot, readerVars
  <2>2. Pending = {s} /\ Pending' = {} /\ Fitting' = Fitting
    BY <2>1 DEF Pending, Fitting
  <2>0. db \in [Slots -> Credential \cup {Free}] /\ e \in Credential \cup {Free}
    BY <1>0 DEF TypeOK, Databases, Requests
  <2>3. db' \in Databases
    BY <2>0, <2>1 DEF Databases
  <2>4. ASSUME NEW o \in Occupied(db'), NEW j, j = db'[o].key
        PROVE  Found(j)'
    <3>0. j \in Keys /\ o \in Slots
      BY <2>3, <2>4, OccupiedTyped
    <3>1. CASE o = s
      <4>1. db'[o] = e
        BY <2>0, <2>1, <3>0, <3>1
      <4>2. QED BY <1>0, <2>1, <2>2, <2>4, <3>0, <3>1, <4>1, NoneLost
    <3>2. CASE o # s
      <4>1. db'[o] = db[o] /\ o \in Occupied(db)
        BY <2>0, <2>1, <2>4, <3>0, <3>2 DEF Occupied
      <4>2. Found(j)
        BY <2>2, <2>4, <3>2, <4>1 DEF MirroredFound
      <4>3. CASE s \in Occupied(db')
        <5>1. s \in Slots /\ db'[s] = e
          BY <2>0, <2>1, <2>3, <4>3, OccupiedTyped
        <5>2. e.key \in Keys
          BY <2>3, <4>3, <5>1, OccupiedTyped
        <5>3. QED BY <1>0, <2>1, <2>2, <3>0, <4>1, <4>2, <4>3, <5>2, NoneLost
      <4>4. CASE s \notin Occupied(db')
        BY <2>1, <2>2, <4>1, <4>2, <4>4 DEF Found, mirrorVars, KnownIn, Entry, HeldKeys
      <4>5. QED BY <4>3, <4>4
    <3>3. QED BY <3>1, <3>2
  <2>5. QED BY <2>2, <2>4 DEF MirroredFound
<1>7. ASSUME NEW s \in Slots, ForgetSlot(s)
      PROVE  MirroredFound'
  <2>1. /\ pc = "forget" /\ pc' = "forget" /\ UNCHANGED <<reader, running>>
        /\ db' = [db EXCEPT ![s] = Free]
        /\ s \in SlotsOf(request.fabric)
        /\ IF s \in EndpointSlots THEN Withdraw(db[s].key) ELSE UNCHANGED mirrorVars
    BY <1>7 DEF ForgetSlot, readerVars
  <2>2. Pending = {} /\ Pending' = {} /\ Fitting' = Fitting
    BY <2>1 DEF Pending, Fitting
  <2>3. ASSUME NEW o \in Occupied(db'), NEW j, j = db'[o].key
        PROVE  Found(j)'
    <3>0. o \in Slots /\ db'[o] # Free /\ db \in [Slots -> Credential \cup {Free}]
      BY <1>0, <2>3 DEF TypeOK, Databases, Occupied, EndpointSlots, Slots
    <3>1. db'[o] = db[o] /\ o \in Occupied(db)
      BY <2>1, <2>3, <3>0 DEF Occupied
    <3>2. Found(j) /\ j \in Keys
      BY <1>a, <2>2, <2>3, <3>1 DEF MirroredFound
    <3>3. CASE s \in EndpointSlots
      BY <1>0, <2>1, <2>2, <3>1, <3>2, <3>3, NoneLost
    <3>4. CASE s \notin EndpointSlots
      BY <2>1, <2>2, <3>1, <3>2, <3>4 DEF Found, mirrorVars, KnownIn, Entry, HeldKeys
    <3>5. QED BY <3>3, <3>4
  <2>4. QED BY <2>2, <2>3 DEF MirroredFound
<1>8. CASE SwapReader
  <2>1. /\ pc = "idle" /\ Pending = {} /\ Pending' = {} /\ ~Fitting'
        /\ UNCHANGED <<db, table, missed>>
    BY <1>8 DEF SwapReader, storeVars, mirrorVars, Pending, Fitting, StartReader
  <2>2. ASSUME NEW o \in Occupied(db)
        PROVE  Found(db[o].key)'
    <3>1. db[o].key \in missed \/ db[o].key \in HeldKeys
      BY <1>a, <2>1, <2>2, KnownIsHeld DEF MirroredFound, Found
    <3>2. HeldKeys' = HeldKeys
      BY <2>1 DEF HeldKeys
    <3>3. QED BY <2>1, <3>1, <3>2 DEF Found
  <2>3. Occupied(db') = Occupied(db)
    BY <2>1
  <2>4. QED BY <2>1, <2>2, <2>3 DEF MirroredFound
<1>9. CASE RefreshSlots
  <2>1. /\ pc = "refresh" /\ running /\ Pending = {} /\ Pending' = {} /\ ~Fitting
        /\ UNCHANGED db
    BY <1>9 DEF RefreshSlots, storeVars, Pending, Fitting, TypeInv, RefreshedRunning
  <2>2. ASSUME NEW o \in Occupied(db)
        PROVE  Found(db[o].key)'
    <3>1. db[o].key \in missed \/ db[o].key \in HeldKeys
      BY <2>1, <2>2 DEF MirroredFound, Found
    <3>2. QED BY <1>0, <1>9, <1>a, <2>1, <3>1, RefreshFinds
  <2>3. Occupied(db') = Occupied(db)
    BY <2>1
  <2>4. QED BY <2>1, <2>2, <2>3 DEF MirroredFound
<1>10. ASSUME UNCHANGED <<db, table, missed, reader, running>>, pc # "write", pc # "load",
              (pc = "refresh") = (pc' = "refresh")
       PROVE  MirroredFound'
  BY <1>10 DEF MirroredFound, Found, Fitting, Pending, KnownIn, Entry, HeldKeys, Occupied
<1>11. CASE UNCHANGED <<db, table, missed, reader, running, pc, request>>
  BY <1>11 DEF MirroredFound, Found, Fitting, Pending, KnownIn, Entry, HeldKeys, Occupied
<1>12. ASSUME NEW u \in Users, NEW f \in Fabrics \cup {None}, SetUser(u, f)
       PROVE  MirroredFound'
  BY <1>10, <1>12 DEF SetUser, mirrorVars, readerVars
<1>13. ASSUME NEW f \in Fabrics, RemoveFabric(f)
       PROVE  MirroredFound'
  BY <1>10, <1>13 DEF RemoveFabric, mirrorVars, storeVars, readerVars
<1>14. CASE Persist \/ PersistUsers \/ ForgetUsers \/ PersistForgotten
  BY <1>10, <1>14 DEF Persist, PersistUsers, ForgetUsers, PersistForgotten, mirrorVars,
                      readerVars, Done
<1>15. CASE ForgetFast
  BY <1>10, <1>15 DEF ForgetFast, storeVars, readerVars
<1>16. CASE ClearReaderIdentity
  BY <1>11, <1>16 DEF ClearReaderIdentity, storeVars, readerVars
<1>17. CASE Taps
  BY <1>11, <1>17 DEF Taps, StandardTap, FastTap, TapBegins, Decide, TransactionFails,
                      TapEnds, storeVars, mirrorVars, readerVars
<1>18. CASE UNCHANGED vars
  BY <1>11, <1>18 DEF vars, storeVars, mirrorVars, readerVars
<1>19. QED
  BY <1>1, <1>2, <1>3, <1>4, <1>5, <1>6, <1>7, <1>8, <1>9, <1>12, <1>13, <1>14,
     <1>15, <1>16, <1>17, <1>18
  DEF Next, Commands, Identity

(* Whatever the reader's identity becomes and whatever fails, the running    *)
(* reader finds every key of the database between commands, but for those    *)
(* that were refused, not derived, or cleared from another slot.             *)
THEOREM NothingRecordedUnenrolled == Spec => []OccupiedIsEnrolled
<1>1. Init => MirroredFound
  BY EmptyIsUnoccupied DEF Init, MirroredFound
<1>2. ASSUME TypeOK, MirroredFound
      PROVE  OccupiedIsEnrolled
  <2>1. SUFFICES ASSUME running, pc = "idle", NEW k \in KeysIn(db) \ missed
                 PROVE  KnownIn(table, k)
    BY DEF OccupiedIsEnrolled
  <2>2. PICK s \in Occupied(db) : db[s].key = k
    BY KeyHeld
  <2>3. Found(k) /\ Fitting
    BY <1>2, <2>1, <2>2 DEF MirroredFound, Pending, Fitting
  <2>4. QED BY <2>1, <2>3 DEF Found
<1>3. TypeInv => TypeOK
  BY DEF TypeInv
<1>4. QED BY <1>1, <1>2, <1>3, FoundInductive, AlwaysTyped, PTL DEF Spec

-----------------------------------------------------------------------------
(* NVS and RAM: each blob whose last write did not fail is what was          *)
(* answered, and what RAM holds but for a change on its way to it.           *)
Forgetting == pc \in {"persist_all", "persist_users"}

DbDurable ==
  "db" \notin unsaved =>
    /\ flashDb = told
    /\ loaded /\ pc # "persist" /\ ~(pc \in {"forget", "persist_all"} /\ "db" \in request.changed)
         => db = told
UsersDurable ==
  "users" \notin unsaved /\ loaded /\ ~(Forgetting /\ "users" \in request.changed)
    => users = flashUsers
Durable == DbDurable /\ UsersDurable

LEMMA DurableInductive ==
  ASSUME TypeInv, Durable, [Next]_vars
  PROVE  Durable'
<1> USE DEF Durable, DbDurable, UsersDurable, Forgetting, storeVars, answerVars, Done
<1>0. /\ ~loaded => pc \in {"idle", "refresh", "forget_fast"}
      /\ request \in Requests /\ db \in Databases
  BY DEF TypeInv, NothingBeforeLoad, TypeOK
<1>1. CASE StoreLoad
  <2>1. pc = "idle" /\ pc' \in {"idle", "load"} /\ db' = flashDb /\ users' = flashUsers
        /\ UNCHANGED <<flashDb, flashUsers, told, unsaved>>
    BY <1>1 DEF StoreLoad
  <2>2. QED BY <2>1
<1>2. CASE Restart
  BY <1>2 DEF Restart
<1>3. ASSUME NEW s \in Slots, LoadSlot(s)
      PROVE  Durable'
  BY <1>3 DEF LoadSlot
<1>4. ASSUME NEW s \in Slots, NEW e \in Credential \cup {Free}, SetCredential(s, e)
      PROVE  Durable'
  BY <1>4 DEF SetCredential
<1>5. CASE WriteSlot
  BY <1>5 DEF WriteSlot
<1>6. CASE Persist
  BY <1>6 DEF Persist, Write
<1>7. ASSUME NEW u \in Users, NEW f \in Fabrics \cup {None}, SetUser(u, f)
      PROVE  Durable'
  <2>1. request'.changed = {"users"}
    BY <1>7 DEF SetUser, NoRequest
  <2>2. QED BY <1>7, <2>1 DEF SetUser
<1>8. CASE PersistUsers
  <2>1. CASE "users" \in request.changed
    BY <1>8, <2>1 DEF PersistUsers, Write
  <2>2. CASE "users" \notin request.changed
    BY <1>8, <2>2 DEF PersistUsers
  <2>3. QED BY <2>1, <2>2
<1>9. ASSUME NEW f \in Fabrics, RemoveFabric(f)
      PROVE  Durable'
  BY <1>9 DEF RemoveFabric
<1>10. ASSUME NEW s \in Slots, ForgetSlot(s)
       PROVE  Durable'
  <2>1. "db" \in request'.changed
    BY <1>0, <1>10 DEF ForgetSlot, Requests
  <2>2. QED BY <1>10, <2>1 DEF ForgetSlot
<1>11. CASE ForgetUsers
  <2>1. request'.changed = request.changed \cup (IF users' = users THEN {} ELSE {"users"})
    BY <1>0, <1>11 DEF ForgetUsers, Requests
  <2>2. /\ "db" \in request'.changed <=> "db" \in request.changed
        /\ "users" \notin request'.changed => users' = users
    BY <2>1
  <2>3. pc = "forget" /\ pc' = "persist_all"
        /\ UNCHANGED <<db, flashDb, flashUsers, told, unsaved, loaded>>
    BY <1>11 DEF ForgetUsers
  <2>4. QED BY <2>2, <2>3
<1>12. CASE PersistForgotten
  <2>1. CASE "db" \in request.changed
    BY <1>12, <2>1 DEF PersistForgotten, Write
  <2>2. CASE "db" \notin request.changed
    BY <1>0, <1>12, <2>2 DEF PersistForgotten
  <2>3. QED BY <2>1, <2>2
<1>13. CASE AddBootCredential \/ Taps
  BY <1>13 DEF AddBootCredential, Taps, StandardTap, FastTap, TapBegins, Decide,
               TransactionFails, TapEnds
<1>14. CASE Identity
  BY <1>14 DEF Identity, SwapReader, RefreshSlots, ForgetFast, ClearReaderIdentity
<1>15. CASE UNCHANGED vars
  BY <1>15 DEF vars
<1>16. QED
  BY <1>1, <1>2, <1>3, <1>4, <1>5, <1>6, <1>7, <1>8, <1>9, <1>10, <1>11, <1>12,
     <1>13, <1>14, <1>15
  DEF Next, Commands

(* Durable, the inductive form of what is answered and kept, always holds.   *)
LEMMA AlwaysDurable == Spec => []Durable
<1>1. Init => Durable
  BY DEF Init, Durable, DbDurable, UsersDurable
<1>2. QED BY <1>1, DurableInductive, AlwaysTyped, PTL DEF Spec

(* What was answered is what a restart brings back, wherever power fails and *)
(* whichever writes fail, but for a blob whose last write did.               *)
THEOREM AnswersAreDurable == Spec => []AnsweredIsDurable
<1>1. Durable => AnsweredIsDurable
  BY DEF Durable, DbDurable, UsersDurable, Forgetting, AnsweredIsDurable
<1>2. QED BY <1>1, AlwaysDurable, PTL

-----------------------------------------------------------------------------
(* Nothing of fabric f is in RAM, and nothing in NVS. *)
GoneFromRam(f) ==
  /\ \A s \in Slots : db[s].creator # f
  /\ \A u \in Users : users[u] # f
GoneFromNvs(f) ==
  /\ \A s \in Slots : flashDb[s].creator # f
  /\ \A u \in Users : flashUsers[u] # f

(* A fabric whose removal was answered is not in the table of fabrics, so no *)
(* command on its way can bring anything of it back; one whose removal is on *)
(* its way is gone from RAM before anything is written.                      *)
RemovalInv ==
  /\ \A f \in removed : f \notin fabrics /\ GoneFromRam(f) /\ GoneFromNvs(f)
  /\ pc = "write" => request.entry = Free \/ request.entry.creator \in fabrics
  /\ request.fabric # None => request.fabric \in Fabrics \ fabrics
  /\ Forgetting /\ request.fabric # None => GoneFromRam(request.fabric)

LEMMA RemovalInductive ==
  ASSUME TypeInv, Durable, RemovalInv, [Next]_vars
  PROVE  RemovalInv'
<1> USE DEF RemovalInv, Forgetting, storeVars, answerVars, Done
<1>00. TypeOK /\ (~loaded => pc \in {"idle", "refresh", "forget_fast"})
  BY DEF TypeInv, NothingBeforeLoad
<1>0. /\ None \notin Fabrics /\ Free.creator = None /\ NoRequest.fabric = None
      /\ removed \subseteq Fabrics
  BY <1>00, KeysAssumption DEF Free, NoRequest, TypeOK
<1>1. CASE StoreLoad
  <2>1. /\ pc' \in {"idle", "load"} /\ request'.fabric = None
        /\ db' = flashDb /\ users' = flashUsers
        /\ UNCHANGED <<flashDb, flashUsers, fabrics, removed>>
    BY <1>1 DEF StoreLoad, NoRequest
  <2>2. QED BY <2>1 DEF GoneFromRam, GoneFromNvs
<1>2. CASE Restart
  <2>1. /\ db' = EmptyDb /\ users' = NoUsers /\ pc' = "idle" /\ request' = NoRequest
        /\ UNCHANGED <<flashDb, flashUsers, fabrics, removed>>
    BY <1>2 DEF Restart
  <2>2. \A f \in Fabrics : GoneFromRam(f)'
    BY <1>0, <2>1 DEF GoneFromRam, EmptyDb, NoUsers
  <2>3. QED BY <1>0, <2>1, <2>2 DEF GoneFromNvs
<1>3. ASSUME NEW s \in Slots, NEW e \in Credential \cup {Free}, SetCredential(s, e)
      PROVE  RemovalInv'
  <2>1. /\ e = Free \/ e.creator \in fabrics
        /\ request'.entry = e /\ request'.fabric = None /\ pc' = "write"
        /\ UNCHANGED <<db, users, flashDb, flashUsers, fabrics, removed>>
    BY <1>3 DEF SetCredential, NoRequest
  <2>2. QED BY <2>1 DEF GoneFromRam, GoneFromNvs
<1>4. CASE WriteSlot
  <2>1. /\ pc' = "persist" /\ db' = [db EXCEPT ![request.slot] = request.entry]
        /\ request.entry = Free \/ request.entry.creator \in fabrics
        /\ UNCHANGED <<users, flashDb, flashUsers, fabrics, removed, request>>
    BY <1>4 DEF WriteSlot
  <2>2. ASSUME NEW f \in removed
        PROVE  GoneFromRam(f)'
    <3>1. request.entry.creator # f
      BY <1>0, <2>1, <2>2
    <3>2. ASSUME NEW o \in Slots PROVE db'[o].creator # f
      BY <1>00, <2>1, <2>2, <3>1 DEF GoneFromRam, TypeOK, Databases
    <3>3. QED BY <2>1, <2>2, <3>2 DEF GoneFromRam
  <2>3. QED BY <2>1, <2>2 DEF GoneFromNvs
<1>5. CASE Persist
  <2>1. /\ pc' = "idle" /\ request' = NoRequest /\ flashDb' \in {db, flashDb}
        /\ UNCHANGED <<db, users, flashUsers, fabrics, removed>>
    BY <1>5 DEF Persist, Write
  <2>2. QED BY <1>0, <2>1 DEF GoneFromRam, GoneFromNvs
<1>6. ASSUME NEW u \in Users, NEW g \in Fabrics \cup {None}, SetUser(u, g)
      PROVE  RemovalInv'
  <2>1. /\ g \in fabrics \cup {None} /\ users' = [users EXCEPT ![u] = g]
        /\ pc' = "persist_users" /\ request'.fabric = None
        /\ UNCHANGED <<db, flashDb, flashUsers, fabrics, removed>>
    BY <1>6 DEF SetUser, NoRequest
  <2>2. ASSUME NEW f \in removed
        PROVE  GoneFromRam(f)'
    <3>1. g # f
      BY <1>0, <2>1, <2>2
    <3>2. ASSUME NEW o \in Users PROVE users'[o] # f
      BY <1>00, <2>1, <2>2, <3>1 DEF GoneFromRam, TypeOK, UserTables
    <3>3. QED BY <2>1, <2>2, <3>2 DEF GoneFromRam
  <2>3. QED BY <2>1, <2>2 DEF GoneFromNvs
<1>7. CASE PersistUsers
  <2>1. /\ pc = "persist_users" /\ pc' = "idle" /\ request' = NoRequest /\ loaded
        /\ flashUsers' \in {users, flashUsers}
        /\ UNCHANGED <<db, users, flashDb, fabrics>>
    BY <1>00, <1>7 DEF PersistUsers, Write
  <2>2. ASSUME NEW f \in removed', f \notin removed
        PROVE  f \notin fabrics /\ GoneFromRam(f) /\ GoneFromNvs(f)'
    <3>1. f = request.fabric /\ f # None /\ unsaved' = {}
      BY <1>7, <2>2 DEF PersistUsers
    <3>2. f \notin fabrics /\ GoneFromRam(f)
      BY <2>1, <3>1
    <3>3. "db" \notin unsaved
      BY <1>7, <3>1 DEF PersistUsers, Write
    <3>4. flashDb = db
      BY <2>1, <3>3 DEF Durable, DbDurable
    <3>5. flashUsers' = users
      <4>1. CASE "users" \in request.changed
        BY <1>7, <3>1, <4>1 DEF PersistUsers, Write
      <4>2. CASE "users" \notin request.changed
        <5>1. "users" \notin unsaved /\ flashUsers' = flashUsers
          BY <1>7, <3>1, <4>2 DEF PersistUsers
        <5>2. QED BY <2>1, <4>2, <5>1 DEF Durable, UsersDurable
      <4>3. QED BY <4>1, <4>2
    <3>6. QED BY <2>1, <3>2, <3>4, <3>5 DEF GoneFromRam, GoneFromNvs
  <2>3. ASSUME NEW f \in removed
        PROVE  f \notin fabrics /\ GoneFromRam(f) /\ GoneFromNvs(f)'
    BY <2>1, <2>3 DEF GoneFromRam, GoneFromNvs
  <2>4. ASSUME NEW f \in removed'
        PROVE  f \notin fabrics' /\ GoneFromRam(f)' /\ GoneFromNvs(f)'
    BY <2>1, <2>2, <2>3, <2>4 DEF GoneFromRam
  <2>5. QED BY <1>0, <2>1, <2>4
<1>8. ASSUME NEW f \in Fabrics, RemoveFabric(f)
      PROVE  RemovalInv'
  <2>1. /\ fabrics' = fabrics \ {f} /\ request'.fabric = f /\ pc' = "forget"
        /\ UNCHANGED <<db, users, flashDb, flashUsers, removed>>
    BY <1>8 DEF RemoveFabric, NoRequest
  <2>2. QED BY <2>1 DEF GoneFromRam, GoneFromNvs
<1>9. ASSUME NEW s \in Slots, ForgetSlot(s)
      PROVE  RemovalInv'
  <2>1. /\ db' = [db EXCEPT ![s] = Free] /\ pc' = "forget" /\ pc = "forget"
        /\ UNCHANGED <<users, flashDb, flashUsers, fabrics, removed>>
    BY <1>9 DEF ForgetSlot
  <2>2. request'.fabric = request.fabric
    BY <1>00, <1>9 DEF ForgetSlot, TypeOK, Requests
  <2>3. ASSUME NEW f \in Fabrics, GoneFromRam(f)
        PROVE  GoneFromRam(f)'
    BY <1>0, <1>00, <2>1, <2>3 DEF GoneFromRam, TypeOK, Databases
  <2>4. QED BY <1>0, <2>1, <2>2, <2>3 DEF GoneFromNvs
<1>a. CASE ForgetUsers
  <2> DEFINE g == request.fabric
  <2>1. /\ users' = [u \in Users |-> IF u \in UsersOf(g) THEN None ELSE users[u]]
        /\ SlotsOf(g) = {} /\ pc' = "persist_all"
        /\ UNCHANGED <<db, flashDb, flashUsers, fabrics, removed>>
    BY <1>a DEF ForgetUsers
  <2>2. request'.fabric = g
    BY <1>00, <1>a DEF ForgetUsers, TypeOK, Requests
  <2>3. ASSUME NEW f \in Fabrics, f = g \/ GoneFromRam(f)
        PROVE  GoneFromRam(f)'
    <3>1. ASSUME NEW s \in Slots PROVE db'[s].creator # f
      BY <2>1, <2>3 DEF GoneFromRam, SlotsOf
    <3>2. ASSUME NEW u \in Users PROVE users'[u] # f
      BY <1>0, <2>1, <2>3 DEF GoneFromRam, UsersOf
    <3>3. QED BY <3>1, <3>2 DEF GoneFromRam
  <2>4. QED BY <1>0, <2>1, <2>2, <2>3 DEF GoneFromNvs
<1>10. CASE PersistForgotten
  <2>1. /\ pc = "persist_all" /\ pc' = "persist_users" /\ flashDb' \in {db, flashDb}
        /\ UNCHANGED <<db, users, flashUsers, fabrics, removed, request>>
    BY <1>10 DEF PersistForgotten, Write
  <2>2. QED BY <2>1 DEF GoneFromRam, GoneFromNvs
<1>11. CASE UNCHANGED <<db, users, flashDb, flashUsers, fabrics, removed, pc, request>>
  BY <1>11 DEF GoneFromRam, GoneFromNvs
<1>12. CASE AddBootCredential \/ Taps
  BY <1>11, <1>12 DEF AddBootCredential, Taps, StandardTap, FastTap, TapBegins, Decide,
                      TransactionFails, TapEnds
<1>13. ASSUME UNCHANGED <<db, users, flashDb, flashUsers, fabrics, removed>>,
              request'.fabric = request.fabric, pc' \notin {"write", "persist_all", "persist_users"}
       PROVE  RemovalInv'
  BY <1>13 DEF GoneFromRam, GoneFromNvs
<1>14. ASSUME NEW s \in Slots, LoadSlot(s)
       PROVE  RemovalInv'
  <2>1. request'.fabric = request.fabric
    BY <1>00, <1>14 DEF LoadSlot, TypeOK, Requests
  <2>2. QED BY <1>13, <1>14, <2>1 DEF LoadSlot
<1>15. CASE SwapReader \/ RefreshSlots \/ ForgetFast
  BY <1>13, <1>15 DEF SwapReader, RefreshSlots, ForgetFast
<1>16. CASE ClearReaderIdentity
  BY <1>11, <1>16 DEF ClearReaderIdentity
<1>17. CASE UNCHANGED vars
  BY <1>11, <1>17 DEF vars
<1>18. QED
  BY <1>1, <1>2, <1>3, <1>4, <1>5, <1>6, <1>7, <1>8, <1>9, <1>a, <1>10, <1>12, <1>14,
     <1>15, <1>16, <1>17
  DEF Next, Commands, Identity

(* A fabric whose removal was answered with everything written never comes   *)
(* back, wherever power fails after.                                         *)
THEOREM RemovalsStay == Spec => []RemovedStaysRemoved
<1>1. Init => RemovalInv
  BY DEF Init, RemovalInv, Forgetting, NoRequest
<1>2. TypeInv /\ Durable /\ RemovalInv /\ [Next]_vars => RemovalInv'
  BY RemovalInductive
<1>3. RemovalInv => RemovedStaysRemoved
  BY DEF RemovalInv, GoneFromRam, GoneFromNvs, RemovedStaysRemoved
<1>4. QED BY <1>1, <1>2, <1>3, AlwaysTyped, AlwaysDurable, PTL DEF Spec

-----------------------------------------------------------------------------
(* Every key a fast transaction could open with is one the table has held    *)
(* since the persistent keys were last forgotten.                            *)
TakenInv ==
  /\ HeldKeys \subseteq taken
  /\ \A e \in fastKeys : e.key \in taken
  /\ tap.known \/ tap.fast => tap.key \in taken

LEMMA EnrollTakes ==
  ASSUME TypeOK, NEW k \in Keys \cup {BootKey}, Enroll(k), HeldKeys \subseteq taken
  PROVE  HeldKeys' \subseteq taken' /\ taken \subseteq taken'
<1>1. CASE UNCHANGED <<table, taken>>
  BY <1>1 DEF HeldKeys
<1>2. ASSUME NEW p \in Places, table' = [table EXCEPT ![p] = Entry(k)], taken' = taken \cup {k}
      PROVE  HeldKeys' \subseteq taken' /\ taken \subseteq taken'
  <2>1. ASSUME NEW q \in Places, table'[q] # Vacant
        PROVE  table'[q].key \in taken'
    BY <1>2, <2>1, EntryKey DEF HeldKeys, TypeOK
  <2>2. QED BY <1>2, <2>1 DEF HeldKeys
<1>3. QED BY <1>1, <1>2 DEF Enroll

LEMMA WithdrawTakes ==
  ASSUME TypeOK, NEW k, Withdraw(k), HeldKeys \subseteq taken
  PROVE  HeldKeys' \subseteq taken' /\ taken \subseteq taken'
<1>1. ASSUME NEW q \in Places, table'[q] # Vacant
      PROVE  table'[q] = table[q]
  BY <1>1 DEF Withdraw, TypeOK
<1>2. UNCHANGED taken
  BY DEF Withdraw
<1>3. QED BY <1>1, <1>2 DEF HeldKeys

LEMMA TakenInductive ==
  ASSUME TypeInv, TakenInv, [Next]_vars
  PROVE  TakenInv'
<1>0. TypeOK
  BY DEF TypeInv
<1>1. ASSUME UNCHANGED <<tap, fastKeys>>, HeldKeys' \subseteq taken', taken \subseteq taken'
      PROVE  TakenInv'
  BY <1>1 DEF TakenInv
<1>2. ASSUME UNCHANGED <<tap, fastKeys, table, taken>>
      PROVE  TakenInv'
  BY <1>2 DEF TakenInv, HeldKeys
<1>3. CASE AddBootCredential
  <2>1. CASE Enroll(BootKey)
    BY <1>0, <1>1, <1>3, <2>1, EnrollTakes DEF AddBootCredential, tapVars, TakenInv
  <2>2. CASE UNCHANGED mirrorVars
    BY <1>2, <1>3, <2>2 DEF AddBootCredential, tapVars, mirrorVars
  <2>3. QED BY <1>3, <2>1, <2>2 DEF AddBootCredential
<1>4. ASSUME NEW s \in Slots, LoadSlot(s)
      PROVE  TakenInv'
  <2>1. db[s].key \in Keys /\ Enroll(db[s].key)
    BY <1>0, <1>4, OccupiedTyped DEF LoadSlot, TypeInv, TodoOccupied, TypeOK
  <2>2. QED BY <1>0, <1>1, <1>4, <2>1, EnrollTakes DEF LoadSlot, tapVars, TakenInv
<1>5. CASE Restart
  BY <1>5 DEF Restart, TakenInv, HeldKeys, EmptyTable, NoTap
<1>6. ASSUME NEW s \in Slots, NEW e \in Credential \cup {Free}, SetCredential(s, e)
      PROVE  TakenInv'
  <2>1. CASE Withdraw(db[s].key)
    BY <1>0, <1>1, <1>6, <2>1, WithdrawTakes DEF SetCredential, tapVars, TakenInv
  <2>2. CASE UNCHANGED mirrorVars
    BY <1>2, <1>6, <2>2 DEF SetCredential, tapVars, mirrorVars
  <2>3. QED BY <1>6, <2>1, <2>2 DEF SetCredential
<1>7. CASE WriteSlot
  <2>1. CASE request.slot \in Occupied(db')
    <3>1. db' = [db EXCEPT ![request.slot] = request.entry] /\ Enroll(request.entry.key)
      BY <1>7, <2>1 DEF WriteSlot
    <3>2. db \in Databases /\ request.entry \in Credential \cup {Free}
      BY <1>0 DEF TypeOK, Requests
    <3>3. request.slot \in Slots /\ db'[request.slot] = request.entry
      BY <2>1, <3>1, <3>2 DEF Databases, Occupied, EndpointSlots, Slots
    <3>4. request.entry.key \in Keys
      BY <2>1, <3>2, <3>3 DEF Occupied, Credential
    <3>5. QED BY <1>0, <1>1, <1>7, <3>1, <3>4, EnrollTakes DEF WriteSlot, tapVars, TakenInv
  <2>2. CASE request.slot \notin Occupied(db')
    BY <1>2, <1>7, <2>2 DEF WriteSlot, tapVars, mirrorVars
  <2>3. QED BY <2>1, <2>2
<1>8. ASSUME NEW s \in Slots, ForgetSlot(s)
      PROVE  TakenInv'
  <2>1. CASE Withdraw(db[s].key)
    BY <1>0, <1>1, <1>8, <2>1, WithdrawTakes DEF ForgetSlot, tapVars, TakenInv
  <2>2. CASE UNCHANGED mirrorVars
    BY <1>2, <1>8, <2>2 DEF ForgetSlot, tapVars, mirrorVars
  <2>3. QED BY <1>8, <2>1, <2>2 DEF ForgetSlot
<1>9. CASE RefreshSlots
  <2>1. UNCHANGED <<tap, fastKeys, taken>>
    BY <1>9 DEF RefreshSlots, tapVars
  <2>2. ASSUME NEW q \in Places, table'[q] # Vacant
        PROVE  table[q] # Vacant /\ table'[q].key = table[q].key
    BY <1>9, <2>2, EntryKey DEF RefreshSlots
  <2>3. HeldKeys' \subseteq taken'
    BY <2>1, <2>2 DEF TakenInv, HeldKeys
  <2>4. QED BY <1>1, <2>1, <2>3
<1>10. CASE ForgetFast \/ ClearReaderIdentity
  <2>1. ForgetFastTransactions /\ UNCHANGED <<table, tap>>
    BY <1>10 DEF ForgetFast, ClearReaderIdentity
  <2>2. HeldKeys' = HeldKeys
    BY <2>1 DEF HeldKeys
  <2>3. QED BY <2>1, <2>2 DEF ForgetFastTransactions, TakenInv
<1>11. ASSUME NEW k \in Phones, TapBegins(k), tap'.known => KnownIn(table, k),
              tap'.fast => Entry(k) \in fastKeys, tap'.key = k
       PROVE  TakenInv'
  <2>1. UNCHANGED <<table, taken, fastKeys>> /\ k \in Keys
    BY <1>11, KeysAssumption DEF TapBegins, mirrorVars
  <2>2. KnownIn(table, k) => k \in taken
    BY <2>1, KnownIsHeld DEF TakenInv
  <2>3. Entry(k) \in fastKeys => k \in taken
    BY EntryKey DEF TakenInv
  <2>4. QED BY <1>11, <2>1, <2>2, <2>3 DEF TakenInv, HeldKeys
<1>12. ASSUME NEW k \in Phones, StandardTap(k)
       PROVE  TakenInv'
  BY <1>11, <1>12 DEF StandardTap
<1>13. ASSUME NEW k \in Phones, FastTap(k)
       PROVE  TakenInv'
  BY <1>11, <1>13 DEF FastTap
<1>14. CASE Decide \/ TransactionFails
  <2>1. TapEnds /\ tap' = NoTap /\ UNCHANGED <<table, taken>>
    BY <1>14 DEF Decide, TransactionFails, TapEnds, mirrorVars
  <2>2. ASSUME NEW e \in fastKeys'
        PROVE  e.key \in taken
    <3>1. e \in fastKeys \/ (tap.known /\ e = Entry(tap.key))
      BY <2>1, <2>2 DEF TapEnds
    <3>2. QED BY <3>1, EntryKey DEF TakenInv
  <2>3. QED BY <2>1, <2>2 DEF TakenInv, HeldKeys, NoTap
<1>15. ASSUME NEW u \in Users, NEW f \in Fabrics \cup {None}, SetUser(u, f)
       PROVE  TakenInv'
  BY <1>2, <1>15 DEF SetUser, mirrorVars, tapVars
<1>16. ASSUME NEW f \in Fabrics, RemoveFabric(f)
       PROVE  TakenInv'
  BY <1>2, <1>16 DEF RemoveFabric, mirrorVars, tapVars
<1>17. CASE StoreLoad \/ Persist \/ PersistUsers \/ ForgetUsers \/ PersistForgotten \/ SwapReader
  BY <1>2, <1>17 DEF StoreLoad, Persist, PersistUsers, ForgetUsers, PersistForgotten,
                     SwapReader, mirrorVars, tapVars
<1>18. CASE UNCHANGED vars
  BY <1>2, <1>18 DEF vars, mirrorVars, tapVars
<1>19. QED
  BY <1>3, <1>4, <1>5, <1>6, <1>7, <1>8, <1>9, <1>10, <1>12, <1>13, <1>14, <1>15,
     <1>16, <1>17, <1>18
  DEF Next, Commands, Identity, Taps

(* A standard transaction opens for a key the database holds, or one that a  *)
(* withdrawal did not find: access_control asks its table again when it      *)
(* decides.  A fast one opens for a key the table has held since the         *)
(* persistent keys were forgotten, with any number of SDK slots.             *)
THEOREM OpeningsAreRecorded == Spec => OpensForRecorded
<1> DEFINE Recorded == opened' # opened /\ opened' # None =>
                         IF tap.fast THEN opened' \in taken
                         ELSE opened' \in KeysIn(db) \cup {table[p].key : p \in left}
<1>1. ASSUME TypeOK, EnrolledIsInDatabase, TakenInv, Next, opened' # opened, opened' # None
      PROVE  Decide
  <2>1. CASE AddBootCredential \/ StoreLoad \/ Commands
    BY <1>1, <2>1 DEF AddBootCredential, StoreLoad, Commands, SetCredential, SetUser,
       RemoveFabric, LoadSlot, ForgetSlot, WriteSlot, Persist, PersistUsers, ForgetUsers,
       PersistForgotten, tapVars
  <2>2. CASE Restart \/ Identity
    BY <1>1, <2>2 DEF Restart, Identity, SwapReader, RefreshSlots, ForgetFast,
       ClearReaderIdentity, tapVars
  <2>3. CASE Taps
    BY <1>1, <2>3 DEF Taps, StandardTap, FastTap, TapBegins, TransactionFails
  <2>4. QED BY <1>1, <2>1, <2>2, <2>3 DEF Next
<1>2. ASSUME TypeOK, EnrolledIsInDatabase, TakenInv, Decide, opened' # None
      PROVE  IF tap.fast THEN opened' \in taken
             ELSE opened' \in KeysIn(db) \cup {table[p].key : p \in left}
  <2>1. opened' = tap.key /\ tap.key \in Keys /\ (tap.fast \/ KnownIn(table, tap.key))
    BY <1>2, TapEndsTyped DEF Decide
  <2>2. CASE tap.fast
    BY <1>2, <2>1, <2>2 DEF TakenInv
  <2>3. CASE ~tap.fast
    <3>1. PICK p \in Places : table[p] # Vacant /\ table[p].key = tap.key
      BY <2>1, <2>3, KnownIsHeld, HeldAt
    <3>2. p \in left \/ tap.key \in KeysIn(db)
      BY <1>2, <2>1, <3>1, KeysAssumption DEF EnrolledIsInDatabase
    <3>3. QED BY <2>1, <2>3, <3>1, <3>2
  <2>4. QED BY <2>2, <2>3
<1>3. TypeOK /\ EnrolledIsInDatabase /\ TakenInv /\ [Next]_vars => [Recorded]_vars
  BY <1>1, <1>2
<1>4. Init => TakenInv
  BY DEF Init, TakenInv, HeldKeys, EmptyTable, NoTap
<1>5. Spec => []TakenInv
  BY <1>4, TakenInductive, AlwaysTyped, PTL DEF Spec
<1>6. QED
  BY <1>3, <1>5, TypeCorrect, NothingEnrolledUnrecorded, PTL DEF Spec, OpensForRecorded
=============================================================================
