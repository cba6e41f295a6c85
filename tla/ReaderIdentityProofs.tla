------------------------- MODULE ReaderIdentityProofs -------------------------
(***************************************************************************)
(* What becomes of a reader identity and of saved settings, for any        *)
(* identities and settings, with requests of two tasks, writes that fail   *)
(* and restarts between any two of them.                                   *)
(***************************************************************************)
EXTENDS ReaderIdentity, TLAPS

Config == [group : Groups, rest : Settings]
SetPlaces == {"save_pub", "save_priv", "take", "store", "assign", "swap", "flag_on",
              "flag_on_nvs"}
ReleasePlaces == {"erase_pub", "erase_priv", "flag_off", "flag_off_nvs"}

Values ==
  /\ nvs \in [pub : Ids \cup {None}, priv : Ids \cup {None}, cfg : Config, configured : BOOLEAN]
  /\ cfg \in Config /\ cand \in [Tasks -> Config]
  /\ newId \in Ids \cup {Dev} /\ form \in Groups \cup {None}
  /\ promised \in Ids \cup {None} /\ saved \in Settings \cup {None}
Places ==
  /\ pc \in [Tasks -> {"off", "idle", "reset"} \cup SetPlaces \cup ReleasePlaces]
  /\ pc["chip"] \notin {"off", "reset"}
  /\ pc["web"] \in {"off", "idle", "reset", "store", "assign"} \cup ReleasePlaces
  /\ pc["chip"] \in SetPlaces => newId \in Ids
Typed == Values /\ Places

Setting == pc["chip"] \in SetPlaces

(* An orphaned identity is being released.                                   *)
OrphanInv ==
  /\ Setting => ~orphaned
  /\ orphaned /\ configured =>
       \E p \in Tasks : pc[p] \in {"erase_pub", "erase_priv", "flag_off"}

(* Two requests that overlap are noticed, and nothing is promised or saved   *)
(* by either.                                                                *)
Overlap == ~Quiet("chip") /\ ~Quiet("web")
OverlapInv == Overlap => clash /\ saved = None

(* How far a command that no web request overlaps has come.                  *)
Progress ==
  Setting /\ ~clash =>
    /\ pc["chip"] # "save_pub" => nvs.pub = newId
    /\ pc["chip"] \notin {"save_pub", "save_priv"} => nvs.priv = newId
    /\ pc["chip"] \in {"store", "assign"} => cand["chip"].group = newId
    /\ pc["chip"] \notin {"save_pub", "save_priv", "take", "store"} => nvs.cfg.group = newId
    /\ pc["chip"] \in {"swap", "flag_on", "flag_on_nvs"} => cfg.group = newId
    /\ pc["chip"] \in {"flag_on", "flag_on_nvs"} =>
         ident = [pub |-> newId, priv |-> newId]

(* What has been promised holds at every step of the web's requests.         *)
PromiseInv ==
  promised # None =>
    /\ Quiet("chip") /\ pc["web"] \in {"off", "idle", "store", "assign"}
    /\ ~stale => Accepted /\ (pc["web"] \in {"store", "assign"} => cand["web"].group = promised)

(* So do the settings saved, until others are.                               *)
SavedInv ==
  /\ pc["web"] = "assign" /\ ~clash => nvs.cfg = cand["web"]
  /\ saved # None =>
       /\ cfg.rest = saved /\ (pc["web"] # "assign" => nvs.cfg.rest = saved)
       /\ pc["chip"] \in {"store", "assign"} => cand["chip"].rest = saved
       /\ pc["web"] # "reset"

Kept ==
  Typed /\ OrphanInv /\ OverlapInv /\ Progress /\ PromiseInv /\ SavedInv

(* The values of the variables and the places of the two tasks. *)
LEMMA TypedInductive ==
    ASSUME Typed, [Next]_vars
    PROVE  Typed'
<1> USE IdsAssumption, SettingsAssumption DEF Typed, Values, Places, Config, SetPlaces, ReleasePlaces, Factory, Goto, Tasks, Groups, ramVars, histVars
<1>1. ASSUME NEW id \in Ids, SetAliroReaderConfig(id) PROVE Typed'
  BY <1>1 DEF SetAliroReaderConfig, Begin, VerificationKeyNull, Unless
<1>2. CASE SavePub
  BY <1>2 DEF SavePub, Write, Carried
<1>3. CASE SavePriv
  BY <1>3 DEF SavePriv, Write, Carried
<1>4. CASE TakeConfig
  BY <1>4 DEF TakeConfig
<1>5. CASE SwapReader
  BY <1>5 DEF SwapReader, Started, Carried
<1>7. CASE FlagOn
  BY <1>7 DEF FlagOn
<1>8. CASE FlagOnNvs
  BY <1>8 DEF FlagOnNvs, WriteAnyhow, Carried, Unless
<1>9. ASSUME NEW p \in Tasks, StoreConfig(p) PROVE Typed'
  BY <1>9 DEF StoreConfig, Write, Carried
<1>10. ASSUME NEW p \in Tasks, AssignConfig(p) PROVE Typed'
  BY <1>10 DEF AssignConfig, Unless
<1>11. ASSUME NEW p \in Tasks, ErasePub(p) PROVE Typed'
  BY <1>11 DEF ErasePub, WriteAnyhow
<1>12. ASSUME NEW p \in Tasks, ErasePriv(p) PROVE Typed'
  BY <1>12 DEF ErasePriv, WriteAnyhow
<1>13. ASSUME NEW p \in Tasks, FlagOff(p) PROVE Typed'
  BY <1>13 DEF FlagOff
<1>14. ASSUME NEW p \in Tasks, FlagOffNvs(p) PROVE Typed'
  BY <1>14 DEF FlagOffNvs, WriteAnyhow
<1>15. CASE ClearAliroReaderConfig
  BY <1>15 DEF ClearAliroReaderConfig, Begin, Unless
<1>16. CASE FabricRemoved
  <2>1. Values'
    BY <1>16 DEF FabricRemoved, Begin, Unless
  <2>2. (pc' = pc \/ pc' = [pc EXCEPT !["chip"] = "erase_pub"]) /\ newId' = newId
    BY <1>16 DEF FabricRemoved, Begin
  <2>3. Places'
    BY <2>2
  <2> HIDE DEF Values, Places
  <2>4. QED BY <2>1, <2>3 DEF Typed
<1>17. CASE EnrollKey
  BY <1>17 DEF EnrollKey
<1>18. CASE ClearLastKey
  BY <1>18 DEF ClearLastKey
<1>19. CASE WebStart
  BY <1>19 DEF WebStart
<1>20. CASE WebRelease
  BY <1>20 DEF WebRelease, Begin, Unless
<1>21. CASE LoadPage
  BY <1>21 DEF LoadPage
<1>22. CASE ResetNvs
  BY <1>22 DEF ResetNvs, Begin, Write
<1>23. CASE ResetRam
  BY <1>23 DEF ResetRam
<1>24. ASSUME NEW rest \in Settings, SavePage(rest) PROVE Typed'
  BY <1>24 DEF SavePage, Begin, Unless
<1>25. ASSUME NEW rest \in Settings, PatchConfig(rest) PROVE Typed'
  BY <1>25 DEF PatchConfig, Begin, Unless
<1>26. CASE Restart
  BY <1>26 DEF Restart, Loaded, Started, Factory
<1>27. CASE UNCHANGED vars
  BY <1>27 DEF vars
<1> HIDE DEF Typed, Values, Places, Config, SetPlaces, ReleasePlaces, Factory, Goto, Tasks, Groups, ramVars, histVars
<1>28. QED
  BY <1>1, <1>2, <1>3, <1>4, <1>5, <1>7, <1>8, <1>9, <1>10, <1>11, <1>12, <1>13, <1>14,
     <1>15, <1>16, <1>17, <1>18, <1>19, <1>20, <1>21, <1>22, <1>23, <1>24, <1>25, <1>26, <1>27
  DEF Next, Set, Web, Release

(* An orphan found is an orphan being released. *)
LEMMA OrphanInductive ==
    ASSUME Typed, OrphanInv, [Next]_vars
    PROVE  OrphanInv'
<1> USE IdsAssumption, SettingsAssumption DEF Typed, Values, Places, OrphanInv, Setting, SetPlaces, Goto, Tasks, Groups, ramVars, histVars
<1>1. ASSUME NEW id \in Ids, SetAliroReaderConfig(id) PROVE OrphanInv'
  BY <1>1 DEF SetAliroReaderConfig, Begin, VerificationKeyNull, Unless
<1>2. CASE SavePub
  BY <1>2 DEF SavePub, Write, Carried
<1>3. CASE SavePriv
  BY <1>3 DEF SavePriv, Write, Carried
<1>4. CASE TakeConfig
  BY <1>4 DEF TakeConfig
<1>5. CASE SwapReader
  BY <1>5 DEF SwapReader, Started, Carried
<1>7. CASE FlagOn
  BY <1>7 DEF FlagOn
<1>8. CASE FlagOnNvs
  BY <1>8 DEF FlagOnNvs, WriteAnyhow, Carried, Unless
<1>9. ASSUME NEW p \in Tasks, StoreConfig(p) PROVE OrphanInv'
  BY <1>9 DEF StoreConfig, Write, Carried
<1>10. ASSUME NEW p \in Tasks, AssignConfig(p) PROVE OrphanInv'
  BY <1>10 DEF AssignConfig, Unless
<1>11. ASSUME NEW p \in Tasks, ErasePub(p) PROVE OrphanInv'
  BY <1>11 DEF ErasePub, WriteAnyhow
<1>12. ASSUME NEW p \in Tasks, ErasePriv(p) PROVE OrphanInv'
  BY <1>12 DEF ErasePriv, WriteAnyhow
<1>13. ASSUME NEW p \in Tasks, FlagOff(p) PROVE OrphanInv'
  BY <1>13 DEF FlagOff
<1>14. ASSUME NEW p \in Tasks, FlagOffNvs(p) PROVE OrphanInv'
  BY <1>14 DEF FlagOffNvs, WriteAnyhow
<1>15. CASE ClearAliroReaderConfig
  BY <1>15 DEF ClearAliroReaderConfig, Begin, Unless
<1>16. CASE FabricRemoved
  BY <1>16 DEF FabricRemoved, Begin, Unless
<1>17. CASE EnrollKey
  BY <1>17 DEF EnrollKey
<1>18. CASE ClearLastKey
  BY <1>18 DEF ClearLastKey
<1>19. CASE WebStart
  BY <1>19 DEF WebStart
<1>20. CASE WebRelease
  BY <1>20 DEF WebRelease, Begin, Unless
<1>21. CASE LoadPage
  BY <1>21 DEF LoadPage
<1>22. CASE ResetNvs
  BY <1>22 DEF ResetNvs, Begin, Write
<1>23. CASE ResetRam
  BY <1>23 DEF ResetRam
<1>24. ASSUME NEW rest \in Settings, SavePage(rest) PROVE OrphanInv'
  BY <1>24 DEF SavePage, Begin, Unless
<1>25. ASSUME NEW rest \in Settings, PatchConfig(rest) PROVE OrphanInv'
  BY <1>25 DEF PatchConfig, Begin, Unless
<1>26. CASE Restart
  BY <1>26 DEF Restart, Loaded, Started, Factory
<1>27. CASE UNCHANGED vars
  BY <1>27 DEF vars
<1> HIDE DEF Typed, Values, Places, OrphanInv, Setting, SetPlaces, Goto, Tasks, Groups, ramVars, histVars
<1>28. QED
  BY <1>1, <1>2, <1>3, <1>4, <1>5, <1>7, <1>8, <1>9, <1>10, <1>11, <1>12, <1>13, <1>14,
     <1>15, <1>16, <1>17, <1>18, <1>19, <1>20, <1>21, <1>22, <1>23, <1>24, <1>25, <1>26, <1>27
  DEF Next, Set, Web, Release

(* The second of two requests that overlap notices. *)
LEMMA OverlapInductive ==
    ASSUME Typed, OverlapInv, [Next]_vars
    PROVE  OverlapInv'
<1> USE IdsAssumption, SettingsAssumption DEF Typed, Values, Places, OverlapInv, Overlap, Quiet, SetPlaces, ReleasePlaces, Goto, Tasks, Groups, ramVars, histVars
<1>1. ASSUME NEW id \in Ids, SetAliroReaderConfig(id) PROVE OverlapInv'
  BY <1>1 DEF SetAliroReaderConfig, Begin, VerificationKeyNull, Unless
<1>2. CASE SavePub
  BY <1>2 DEF SavePub, Write, Carried
<1>3. CASE SavePriv
  BY <1>3 DEF SavePriv, Write, Carried
<1>4. CASE TakeConfig
  BY <1>4 DEF TakeConfig
<1>5. CASE SwapReader
  BY <1>5 DEF SwapReader, Started, Carried
<1>7. CASE FlagOn
  BY <1>7 DEF FlagOn
<1>8. CASE FlagOnNvs
  BY <1>8 DEF FlagOnNvs, WriteAnyhow, Carried, Unless
<1>9. ASSUME NEW p \in Tasks, StoreConfig(p) PROVE OverlapInv'
  BY <1>9 DEF StoreConfig, Write, Carried
<1>10. ASSUME NEW p \in Tasks, AssignConfig(p) PROVE OverlapInv'
  BY <1>10 DEF AssignConfig, Unless
<1>11. ASSUME NEW p \in Tasks, ErasePub(p) PROVE OverlapInv'
  BY <1>11 DEF ErasePub, WriteAnyhow
<1>12. ASSUME NEW p \in Tasks, ErasePriv(p) PROVE OverlapInv'
  BY <1>12 DEF ErasePriv, WriteAnyhow
<1>13. ASSUME NEW p \in Tasks, FlagOff(p) PROVE OverlapInv'
  BY <1>13 DEF FlagOff
<1>14. ASSUME NEW p \in Tasks, FlagOffNvs(p) PROVE OverlapInv'
  BY <1>14 DEF FlagOffNvs, WriteAnyhow
<1>15. CASE ClearAliroReaderConfig
  BY <1>15 DEF ClearAliroReaderConfig, Begin, Unless
<1>16. CASE FabricRemoved
  BY <1>16 DEF FabricRemoved, Begin, Unless
<1>17. CASE EnrollKey
  BY <1>17 DEF EnrollKey
<1>18. CASE ClearLastKey
  BY <1>18 DEF ClearLastKey
<1>19. CASE WebStart
  BY <1>19 DEF WebStart
<1>20. CASE WebRelease
  BY <1>20 DEF WebRelease, Begin, Unless
<1>21. CASE LoadPage
  BY <1>21 DEF LoadPage
<1>22. CASE ResetNvs
  BY <1>22 DEF ResetNvs, Begin, Write
<1>23. CASE ResetRam
  BY <1>23 DEF ResetRam
<1>24. ASSUME NEW rest \in Settings, SavePage(rest) PROVE OverlapInv'
  BY <1>24 DEF SavePage, Begin, Unless
<1>25. ASSUME NEW rest \in Settings, PatchConfig(rest) PROVE OverlapInv'
  BY <1>25 DEF PatchConfig, Begin, Unless
<1>26. CASE Restart
  BY <1>26 DEF Restart, Loaded, Started, Factory
<1>27. CASE UNCHANGED vars
  BY <1>27 DEF vars
<1> HIDE DEF Typed, Values, Places, OverlapInv, Overlap, Quiet, SetPlaces, ReleasePlaces, Goto, Tasks, Groups, ramVars, histVars
<1>28. QED
  BY <1>1, <1>2, <1>3, <1>4, <1>5, <1>7, <1>8, <1>9, <1>10, <1>11, <1>12, <1>13, <1>14,
     <1>15, <1>16, <1>17, <1>18, <1>19, <1>20, <1>21, <1>22, <1>23, <1>24, <1>25, <1>26, <1>27
  DEF Next, Set, Web, Release

(* A command that nothing overlaps has done what it has passed. *)
LEMMA ProgressInductive ==
    ASSUME Typed, OverlapInv, Progress, [Next]_vars
    PROVE  Progress'
<1> USE IdsAssumption, SettingsAssumption DEF Typed, Values, Places, OverlapInv, Progress, Overlap, Setting, Quiet, SetPlaces, ReleasePlaces, Goto, Tasks, Groups, ramVars, histVars
<1>1. ASSUME NEW id \in Ids, SetAliroReaderConfig(id) PROVE Progress'
  BY <1>1 DEF SetAliroReaderConfig, Begin, VerificationKeyNull, Unless
<1>2. CASE SavePub
  BY <1>2 DEF SavePub, Write, Carried
<1>3. CASE SavePriv
  BY <1>3 DEF SavePriv, Write, Carried
<1>4. CASE TakeConfig
  BY <1>4 DEF TakeConfig
<1>5. CASE SwapReader
  BY <1>5 DEF SwapReader, Started, Carried
<1>7. CASE FlagOn
  BY <1>7 DEF FlagOn
<1>8. CASE FlagOnNvs
  BY <1>8 DEF FlagOnNvs, WriteAnyhow, Carried, Unless
<1>9. ASSUME NEW p \in Tasks, StoreConfig(p) PROVE Progress'
  BY <1>9 DEF StoreConfig, Write, Carried
<1>10. ASSUME NEW p \in Tasks, AssignConfig(p) PROVE Progress'
  BY <1>10 DEF AssignConfig, Unless
<1>11. ASSUME NEW p \in Tasks, ErasePub(p) PROVE Progress'
  BY <1>11 DEF ErasePub, WriteAnyhow
<1>12. ASSUME NEW p \in Tasks, ErasePriv(p) PROVE Progress'
  BY <1>12 DEF ErasePriv, WriteAnyhow
<1>13. ASSUME NEW p \in Tasks, FlagOff(p) PROVE Progress'
  BY <1>13 DEF FlagOff
<1>14. ASSUME NEW p \in Tasks, FlagOffNvs(p) PROVE Progress'
  BY <1>14 DEF FlagOffNvs, WriteAnyhow
<1>15. CASE ClearAliroReaderConfig
  BY <1>15 DEF ClearAliroReaderConfig, Begin, Unless
<1>16. CASE FabricRemoved
  BY <1>16 DEF FabricRemoved, Begin, Unless
<1>17. CASE EnrollKey
  BY <1>17 DEF EnrollKey
<1>18. CASE ClearLastKey
  BY <1>18 DEF ClearLastKey
<1>19. CASE WebStart
  BY <1>19 DEF WebStart
<1>20. CASE WebRelease
  BY <1>20 DEF WebRelease, Begin, Unless
<1>21. CASE LoadPage
  BY <1>21 DEF LoadPage
<1>22. CASE ResetNvs
  BY <1>22 DEF ResetNvs, Begin, Write
<1>23. CASE ResetRam
  BY <1>23 DEF ResetRam
<1>24. ASSUME NEW rest \in Settings, SavePage(rest) PROVE Progress'
  BY <1>24 DEF SavePage, Begin, Unless
<1>25. ASSUME NEW rest \in Settings, PatchConfig(rest) PROVE Progress'
  BY <1>25 DEF PatchConfig, Begin, Unless
<1>26. CASE Restart
  BY <1>26 DEF Restart, Loaded, Started, Factory
<1>27. CASE UNCHANGED vars
  BY <1>27 DEF vars
<1> HIDE DEF Typed, Values, Places, OverlapInv, Progress, Overlap, Setting, Quiet, SetPlaces, ReleasePlaces, Goto, Tasks, Groups, ramVars, histVars
<1>28. QED
  BY <1>1, <1>2, <1>3, <1>4, <1>5, <1>7, <1>8, <1>9, <1>10, <1>11, <1>12, <1>13, <1>14,
     <1>15, <1>16, <1>17, <1>18, <1>19, <1>20, <1>21, <1>22, <1>23, <1>24, <1>25, <1>26, <1>27
  DEF Next, Set, Web, Release

(* What has been answered stays in NVS and in use. *)
LEMMA PromiseInductive ==
    ASSUME Typed, OverlapInv, Progress, PromiseInv, [Next]_vars
    PROVE  PromiseInv'
<1> USE IdsAssumption, SettingsAssumption DEF Typed, Values, Places, OverlapInv, Progress, PromiseInv, Accepted, Overlap, Setting, Quiet, SetPlaces, ReleasePlaces, Goto, Tasks, Groups, ramVars, histVars
<1>1. ASSUME NEW id \in Ids, SetAliroReaderConfig(id) PROVE PromiseInv'
  BY <1>1 DEF SetAliroReaderConfig, Begin, VerificationKeyNull, Unless
<1>2. CASE SavePub
  BY <1>2 DEF SavePub, Write, Carried
<1>3. CASE SavePriv
  BY <1>3 DEF SavePriv, Write, Carried
<1>4. CASE TakeConfig
  BY <1>4 DEF TakeConfig
<1>5. CASE SwapReader
  BY <1>5 DEF SwapReader, Started, Carried
<1>7. CASE FlagOn
  BY <1>7 DEF FlagOn
<1>8. CASE FlagOnNvs
  BY <1>8 DEF FlagOnNvs, WriteAnyhow, Carried, Unless
<1>9. ASSUME NEW p \in Tasks, StoreConfig(p) PROVE PromiseInv'
  BY <1>9 DEF StoreConfig, Write, Carried
<1>10. ASSUME NEW p \in Tasks, AssignConfig(p) PROVE PromiseInv'
  BY <1>10 DEF AssignConfig, Unless
<1>11. ASSUME NEW p \in Tasks, ErasePub(p) PROVE PromiseInv'
  BY <1>11 DEF ErasePub, WriteAnyhow
<1>12. ASSUME NEW p \in Tasks, ErasePriv(p) PROVE PromiseInv'
  BY <1>12 DEF ErasePriv, WriteAnyhow
<1>13. ASSUME NEW p \in Tasks, FlagOff(p) PROVE PromiseInv'
  BY <1>13 DEF FlagOff
<1>14. ASSUME NEW p \in Tasks, FlagOffNvs(p) PROVE PromiseInv'
  BY <1>14 DEF FlagOffNvs, WriteAnyhow
<1>15. CASE ClearAliroReaderConfig
  BY <1>15 DEF ClearAliroReaderConfig, Begin, Unless
<1>16. CASE FabricRemoved
  BY <1>16 DEF FabricRemoved, Begin, Unless
<1>17. CASE EnrollKey
  BY <1>17 DEF EnrollKey
<1>18. CASE ClearLastKey
  BY <1>18 DEF ClearLastKey
<1>19. CASE WebStart
  BY <1>19 DEF WebStart
<1>20. CASE WebRelease
  BY <1>20 DEF WebRelease, Begin, Unless
<1>21. CASE LoadPage
  BY <1>21 DEF LoadPage
<1>22. CASE ResetNvs
  BY <1>22 DEF ResetNvs, Begin, Write
<1>23. CASE ResetRam
  BY <1>23 DEF ResetRam
<1>24. ASSUME NEW rest \in Settings, SavePage(rest) PROVE PromiseInv'
  BY <1>24 DEF SavePage, Begin, Unless
<1>25. ASSUME NEW rest \in Settings, PatchConfig(rest) PROVE PromiseInv'
  BY <1>25 DEF PatchConfig, Begin, Unless
<1>26. CASE Restart
  BY <1>26 DEF Restart, Loaded, Started, Factory
<1>27. CASE UNCHANGED vars
  BY <1>27 DEF vars
<1> HIDE DEF Typed, Values, Places, OverlapInv, Progress, PromiseInv, Accepted, Overlap, Setting, Quiet, SetPlaces, ReleasePlaces, Goto, Tasks, Groups, ramVars, histVars
<1>28. QED
  BY <1>1, <1>2, <1>3, <1>4, <1>5, <1>7, <1>8, <1>9, <1>10, <1>11, <1>12, <1>13, <1>14,
     <1>15, <1>16, <1>17, <1>18, <1>19, <1>20, <1>21, <1>22, <1>23, <1>24, <1>25, <1>26, <1>27
  DEF Next, Set, Web, Release

(* So do the settings. *)
LEMMA SavedInductive ==
    ASSUME Typed, OverlapInv, SavedInv, [Next]_vars
    PROVE  SavedInv'
<1> USE IdsAssumption, SettingsAssumption DEF Typed, Values, Places, Config, OverlapInv, SavedInv, Overlap, Quiet, SetPlaces, ReleasePlaces, Goto, Tasks, Groups, ramVars, histVars
<1>1. ASSUME NEW id \in Ids, SetAliroReaderConfig(id) PROVE SavedInv'
  BY <1>1 DEF SetAliroReaderConfig, Begin, VerificationKeyNull, Unless
<1>2. CASE SavePub
  BY <1>2 DEF SavePub, Write, Carried
<1>3. CASE SavePriv
  BY <1>3 DEF SavePriv, Write, Carried
<1>4. CASE TakeConfig
  BY <1>4 DEF TakeConfig
<1>5. CASE SwapReader
  BY <1>5 DEF SwapReader, Started, Carried
<1>7. CASE FlagOn
  BY <1>7 DEF FlagOn
<1>8. CASE FlagOnNvs
  BY <1>8 DEF FlagOnNvs, WriteAnyhow, Carried, Unless
<1>9. ASSUME NEW p \in Tasks, StoreConfig(p) PROVE SavedInv'
  BY <1>9 DEF StoreConfig, Write, Carried
<1>10. ASSUME NEW p \in Tasks, AssignConfig(p) PROVE SavedInv'
  BY <1>10 DEF AssignConfig, Unless
<1>11. ASSUME NEW p \in Tasks, ErasePub(p) PROVE SavedInv'
  BY <1>11 DEF ErasePub, WriteAnyhow
<1>12. ASSUME NEW p \in Tasks, ErasePriv(p) PROVE SavedInv'
  BY <1>12 DEF ErasePriv, WriteAnyhow
<1>13. ASSUME NEW p \in Tasks, FlagOff(p) PROVE SavedInv'
  BY <1>13 DEF FlagOff
<1>14. ASSUME NEW p \in Tasks, FlagOffNvs(p) PROVE SavedInv'
  BY <1>14 DEF FlagOffNvs, WriteAnyhow
<1>15. CASE ClearAliroReaderConfig
  BY <1>15 DEF ClearAliroReaderConfig, Begin, Unless
<1>16. CASE FabricRemoved
  BY <1>16 DEF FabricRemoved, Begin, Unless
<1>17. CASE EnrollKey
  BY <1>17 DEF EnrollKey
<1>18. CASE ClearLastKey
  BY <1>18 DEF ClearLastKey
<1>19. CASE WebStart
  BY <1>19 DEF WebStart
<1>20. CASE WebRelease
  BY <1>20 DEF WebRelease, Begin, Unless
<1>21. CASE LoadPage
  BY <1>21 DEF LoadPage
<1>22. CASE ResetNvs
  BY <1>22 DEF ResetNvs, Begin, Write
<1>23. CASE ResetRam
  BY <1>23 DEF ResetRam
<1>24. ASSUME NEW rest \in Settings, SavePage(rest) PROVE SavedInv'
  BY <1>24 DEF SavePage, Begin, Unless
<1>25. ASSUME NEW rest \in Settings, PatchConfig(rest) PROVE SavedInv'
  BY <1>25 DEF PatchConfig, Begin, Unless
<1>26. CASE Restart
  BY <1>26 DEF Restart, Loaded, Started, Factory
<1>27. CASE UNCHANGED vars
  BY <1>27 DEF vars
<1> HIDE DEF Typed, Values, Places, Config, OverlapInv, SavedInv, Overlap, Quiet, SetPlaces, ReleasePlaces, Goto, Tasks, Groups, ramVars, histVars
<1>28. QED
  BY <1>1, <1>2, <1>3, <1>4, <1>5, <1>7, <1>8, <1>9, <1>10, <1>11, <1>12, <1>13, <1>14,
     <1>15, <1>16, <1>17, <1>18, <1>19, <1>20, <1>21, <1>22, <1>23, <1>24, <1>25, <1>26, <1>27
  DEF Next, Set, Web, Release

(* All of it holds at boot. *)
LEMMA KeptInitially ==
    ASSUME Init
    PROVE  Kept
<1> USE IdsAssumption, SettingsAssumption
<1>1. /\ pc["chip"] = "idle" /\ pc["web"] = "off"
      /\ pc \in [Tasks -> {"off", "idle"}]
  BY DEF Init, Tasks
<1>2. Typed
  BY <1>1 DEF Init, Typed, Values, Places, Config, Groups, Factory, SetPlaces, ReleasePlaces
<1>3. OrphanInv
  BY <1>1 DEF Init, OrphanInv, Setting, SetPlaces
<1>4. OverlapInv /\ Progress
  BY <1>1 DEF OverlapInv, Overlap, Quiet, Progress, Setting, SetPlaces
<1>5. PromiseInv /\ SavedInv
  BY <1>1 DEF Init, PromiseInv, SavedInv
<1>6. QED
  BY <1>2, <1>3, <1>4, <1>5 DEF Kept

(* ... and at every step after it. *)
LEMMA AlwaysKept == Spec => []Kept
<1>1. ASSUME Kept, [Next]_vars PROVE Kept'
  <2>1. Typed /\ OrphanInv /\ OverlapInv /\ Progress /\ PromiseInv /\ SavedInv
    BY <1>1 DEF Kept
  <2>2. [Next]_vars
    BY <1>1
  <2>3. Typed'
    BY <2>1, <2>2, TypedInductive
  <2>4. OrphanInv' /\ OverlapInv'
    BY <2>1, <2>2, OrphanInductive, OverlapInductive
  <2>5. Progress'
    BY <2>1, <2>2, ProgressInductive
  <2>6. PromiseInv' /\ SavedInv'
    BY <2>1, <2>2, PromiseInductive, SavedInductive
  <2>7. QED
    BY <2>3, <2>4, <2>5, <2>6 DEF Kept
<1>2. QED
  BY <1>1, KeptInitially, PTL DEF Spec

-----------------------------------------------------------------------------
(* An identity that serves nobody does not block the next controller: with   *)
(* requests of both tasks overlapping and writes that fail.                  *)
THEOREM OrphansAreReleased == Spec => []OrphanIsReleased
<1>1. Kept => OrphanIsReleased
  BY DEF Kept, OrphanInv, OrphanIsReleased, AllQuiet, Quiet
<1>2. QED
  BY <1>1, AlwaysKept, PTL

(* An identity answered and not released since is in NVS and in use, also    *)
(* after any number of restarts and saves of a form loaded since.            *)
THEOREM AcceptedStays == Spec => []AcceptedIsKept
<1>1. Kept => AcceptedIsKept
  BY DEF Kept, PromiseInv, AcceptedIsKept, AllQuiet, Quiet, Tasks
<1>2. QED
  BY <1>1, AlwaysKept, PTL

(* Settings answered as saved are in NVS and in use until others are saved,  *)
(* whatever identities controllers set and release meanwhile.                *)
THEOREM SavedSettingsStay == Spec => []SavedSettingsKept
<1>1. Kept => SavedSettingsKept
  BY DEF Kept, SavedInv, SavedSettingsKept, AllQuiet, Quiet, Tasks
<1>2. QED
  BY <1>1, AlwaysKept, PTL

=============================================================================
