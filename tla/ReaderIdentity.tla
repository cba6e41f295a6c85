--------------------------- MODULE ReaderIdentity ---------------------------
(***************************************************************************)
(* The reader identity a Matter controller provisions: a key pair and a    *)
(* group identifier.                                                       *)
(*                                                                         *)
(* It lives in three NVS entries (rdr_pub, rdr_priv and the group          *)
(* identifier inside the configuration document) and a fourth one says     *)
(* that a controller provisioned it.  The CHIP task writes it              *)
(* (SetAliroReaderConfig, ClearAliroReaderConfig, a fabric that leaves);   *)
(* the web server's task releases it, and writes the configuration         *)
(* document for reasons of its own.  Nothing locks the two against each    *)
(* other, and power may fail between any two writes.  A step is the work   *)
(* between two such points.                                                *)
(***************************************************************************)
CONSTANTS
  Ids,          \* identities controllers may send
  Dev,          \* the identity compiled into the image, and its group
  Settings,     \* values of the rest of the configuration document
  Defaults,     \* the default among them
  WebActs,      \* what web requests do: a subset of AllWebActs
  ReaderFails,  \* TRUE when the reader may fail to start
  FlashFails,   \* TRUE when an NVS write or erase may fail
  None

AllWebActs == {"release", "save", "patch", "reset"}

ASSUME IdsAssumption == Dev \notin Ids /\ None \notin Ids \cup {Dev} \cup Settings
ASSUME SettingsAssumption == Defaults \in Settings
ASSUME SwitchesAssumption ==
  /\ WebActs \subseteq AllWebActs
  /\ {ReaderFails, FlashFails} \subseteq BOOLEAN

VARIABLES
  nvs,         \* the four NVS entries: pub, priv, cfg, configured
  cfg,         \* app_config's s_config: the group and the rest, one of Settings
  ident,       \* app_main's s_identity: pub and priv
  reader,      \* the running SDK reader, or None
  configured,  \* s_reader_configured
  enrolled,    \* the credential database holds an Aliro credential
  pc, cand,    \* of the two tasks: next step, and candidate configuration
  newId,       \* the identity SetAliroReaderConfig carries
  form,        \* the group in the document a browser has loaded, or None
  promised,    \* history: what a controller was told is in effect, or None
  saved,       \* history: the settings last answered as saved, or None
  orphaned,    \* history: nobody has been enrolled since the last check
  clash,       \* history: the last request began while the other task ran one
  stale        \* history: a form older than the identity was saved since

ramVars == <<cfg, ident, reader, configured>>
histVars == <<promised, saved, orphaned, clash, stale>>
vars == <<nvs, ramVars, enrolled, pc, cand, newId, form, histVars>>

Tasks == {"chip", "web"}
Groups == Ids \cup {Dev}
Factory == [group |-> Dev, rest |-> Defaults]

-----------------------------------------------------------------------------
(* load_identity(): "both halves or neither". *)
Loaded(n) ==
  IF n.pub # None /\ n.priv # None
  THEN [pub |-> n.pub, priv |-> n.priv] ELSE [pub |-> Dev, priv |-> Dev]

(* start_reader(): the identity in use, with the group of the configuration. *)
Started(pair, group) ==
  {[pub |-> pair.pub, priv |-> pair.priv, group |-> group]}
    \cup (IF ReaderFails THEN {None} ELSE {})

Init ==
  /\ nvs = [pub |-> None, priv |-> None, cfg |-> Factory, configured |-> FALSE]
  /\ cfg = Factory
  /\ ident = Loaded(nvs)
  /\ reader \in Started(ident, Dev)
  /\ configured = FALSE /\ enrolled = FALSE
  /\ pc = [p \in Tasks |-> IF p = "chip" THEN "idle" ELSE "off"]
  /\ cand = [p \in Tasks |-> Factory]
  /\ newId = Dev /\ form = None
  /\ promised = None /\ saved = None /\ orphaned = TRUE
  /\ clash = FALSE /\ stale = FALSE

(* Power fails or the device restarts, and boots again: the configuration,   *)
(* the identity and the reader, and then Matter, which looks for an orphaned *)
(* identity.  An unanswered request may have taken effect.                   *)
Restart ==
  /\ cfg' = nvs.cfg
  /\ ident' = Loaded(nvs)
  /\ reader' \in Started(ident', cfg'.group)
  /\ configured' = nvs.configured
  /\ orphaned' = ~enrolled
  /\ pc' = [p \in Tasks |-> IF p = "web" THEN "off"
                            ELSE IF nvs.configured /\ ~enrolled THEN "erase_pub"
                            ELSE "idle"]
  /\ promised' = IF nvs.configured /\ ~enrolled THEN None ELSE promised
  /\ saved' = IF pc["web"] \in {"off", "idle"} THEN saved ELSE None
  /\ cand' = [p \in Tasks |-> Factory] /\ newId' = Dev
  /\ clash' = FALSE
  /\ UNCHANGED <<nvs, enrolled, form, stale>>

Goto(p, label) == pc' = [pc EXCEPT ![p] = label]

(* An NVS entry is written, and the task goes on to label, or the write      *)
(* fails and the operation is given up.                                      *)
Write(p, field, value, label) ==
  \/ nvs' = [nvs EXCEPT ![field] = value] /\ Goto(p, label)
  \/ FlashFails /\ UNCHANGED nvs /\ Goto(p, "idle")

(* The same where the code ignores the failure. *)
WriteAnyhow(p, field, value, label) ==
  /\ Goto(p, label)
  /\ \/ nvs' = [nvs EXCEPT ![field] = value]
     \/ FlashFails /\ UNCHANGED nvs

Quiet(p) == pc[p] \in {"off", "idle"}

(* A request begins.  One that begins while the other task runs one voids    *)
(* what was promised and saved: nothing in the code orders the two.          *)
Begin(p) ==
  /\ pc[p] = "idle"
  /\ clash' = \E q \in Tasks : ~Quiet(q)

(* What is promised, or saved, when a request is answered or begins. *)
Unless(voided, value) == IF voided THEN None ELSE value

-----------------------------------------------------------------------------
(* SetAliroReaderConfig, on the CHIP task: the cluster server refuses it     *)
(* unless GetAliroReaderVerificationKey() answers null.                      *)

VerificationKeyNull == ~configured \/ reader = None

SetAliroReaderConfig(id) ==
  /\ Begin("chip")
  /\ VerificationKeyNull
  /\ newId' = id
  /\ orphaned' = FALSE
  /\ promised' = None /\ saved' = Unless(clash', saved)
  /\ Goto("chip", "save_pub")
  /\ UNCHANGED <<nvs, ramVars, enrolled, cand, form, stale>>

(* The identity a command carries is forgotten with the command. *)
Carried == IF pc'["chip"] = "idle" THEN Dev ELSE newId

SavePub ==
  /\ pc["chip"] = "save_pub"
  /\ Write("chip", "pub", newId, "save_priv")
  /\ newId' = Carried
  /\ UNCHANGED <<ramVars, enrolled, cand, form, histVars>>

(* Mutant: the group identifier is left to the next save of the document. *)
SavePrivOnly ==
  /\ pc["chip"] = "save_priv"
  /\ Write("chip", "priv", newId, "swap")
  /\ newId' = Carried
  /\ UNCHANGED <<ramVars, enrolled, cand, form, histVars>>

SavePriv ==
  /\ pc["chip"] = "save_priv"
  /\ Write("chip", "priv", newId, "take")
  /\ newId' = Carried
  /\ UNCHANGED <<ramVars, enrolled, cand, form, histVars>>

(* app_config_t cfg = *app_config_get(), with the new group *)
TakeConfig ==
  /\ pc["chip"] = "take"
  /\ cand' = [cand EXCEPT !["chip"] = [cfg EXCEPT !.group = newId]]
  /\ Goto("chip", "store")
  /\ UNCHANGED <<nvs, ramVars, enrolled, newId, form, histVars>>

(* aliro_reader_stop(), s_identity and start_reader().  The key slots and    *)
(* the persistent keys that depend on the reader are CredentialStore's.      *)
SwapReader ==
  /\ pc["chip"] = "swap"
  /\ ident' = [pub |-> newId, priv |-> newId]
  /\ reader' \in Started(ident', cfg.group)
  /\ Goto("chip", IF reader' = None THEN "idle" ELSE "flag_on")
  /\ newId' = Carried
  /\ UNCHANGED <<nvs, cfg, configured, enrolled, cand, form, histVars>>

(* matter_lock_set_reader_configured(true), and the command is answered. *)
FlagOn ==
  /\ pc["chip"] = "flag_on"
  /\ configured' = TRUE
  /\ Goto("chip", "flag_on_nvs")
  /\ UNCHANGED <<nvs, cfg, ident, reader, enrolled, cand, newId, form, histVars>>

FlagOnNvs ==
  /\ pc["chip"] = "flag_on_nvs"
  /\ WriteAnyhow("chip", "configured", TRUE, "idle")
  /\ promised' = Unless(clash, newId)
  /\ stale' = FALSE /\ newId' = Carried
  /\ UNCHANGED <<ramVars, enrolled, cand, form, saved, orphaned, clash>>

-----------------------------------------------------------------------------
(* app_config_save(), in either task: NVS first and s_config after it. *)

StoreConfig(p) ==
  /\ pc[p] = "store"
  /\ Write(p, "cfg", cand[p], "assign")
  /\ cand' = IF pc'[p] = "idle" THEN [cand EXCEPT ![p] = Factory] ELSE cand
  /\ newId' = Carried
  /\ UNCHANGED <<ramVars, enrolled, form, histVars>>

(* Mutant: the web server's save waits for the restart to take effect. *)
AssignConfigChipOnly(p) ==
  /\ pc[p] = "assign"
  /\ cfg' = IF p = "chip" THEN cand[p] ELSE cfg
  /\ cand' = [cand EXCEPT ![p] = Factory]
  /\ Goto(p, IF p = "chip" THEN "swap" ELSE "idle")
  /\ saved' = IF p = "web" THEN Unless(clash, cand[p].rest) ELSE saved
  /\ UNCHANGED <<nvs, ident, reader, configured, enrolled, newId, form,
                 promised, orphaned, clash, stale>>

AssignConfig(p) ==
  /\ pc[p] = "assign"
  /\ cfg' = cand[p]
  /\ cand' = [cand EXCEPT ![p] = Factory]
  /\ Goto(p, IF p = "chip" THEN "swap" ELSE "idle")
  /\ saved' = IF p = "web" THEN Unless(clash, cand[p].rest) ELSE saved
  /\ UNCHANGED <<nvs, ident, reader, configured, enrolled, newId, form,
                 promised, orphaned, clash, stale>>

-----------------------------------------------------------------------------
(* Releasing an identity: ClearAliroReaderConfig and OnFabricRemoved() on    *)
(* the CHIP task, matter_lock_release_reader_config() on the web server's.   *)

ClearAliroReaderConfig ==
  /\ Begin("chip")
  /\ promised' = None /\ saved' = Unless(clash', saved)
  /\ Goto("chip", "erase_pub")
  /\ UNCHANGED <<nvs, ramVars, enrolled, cand, newId, form, orphaned, stale>>

(* Mutant: only a fabric that takes the last credential with it releases. *)
FabricRemovedWithLast ==
  /\ enrolled' \in {enrolled, FALSE}
  /\ orphaned' = (orphaned \/ ~enrolled')
  /\ IF configured /\ enrolled /\ ~enrolled'
     THEN /\ Begin("chip") /\ Goto("chip", "erase_pub")
          /\ promised' = None /\ saved' = Unless(clash', saved)
     ELSE pc["chip"] = "idle" /\ UNCHANGED <<pc, promised, saved, clash>>
  /\ UNCHANGED <<nvs, ramVars, cand, newId, form, stale>>

FabricRemoved ==
  /\ enrolled' \in {enrolled, FALSE}
  /\ orphaned' = (orphaned \/ ~enrolled')
  /\ IF configured /\ ~enrolled'
     THEN /\ Begin("chip") /\ Goto("chip", "erase_pub")
          /\ promised' = None /\ saved' = Unless(clash', saved)
     ELSE pc["chip"] = "idle" /\ UNCHANGED <<pc, promised, saved, clash>>
  /\ UNCHANGED <<nvs, ramVars, cand, newId, form, stale>>

ErasePub(p) ==
  /\ pc[p] = "erase_pub"
  /\ WriteAnyhow(p, "pub", None, "erase_priv")
  /\ UNCHANGED <<ramVars, enrolled, cand, newId, form, histVars>>

ErasePriv(p) ==
  /\ pc[p] = "erase_priv"
  /\ WriteAnyhow(p, "priv", None, "flag_off")
  /\ UNCHANGED <<ramVars, enrolled, cand, newId, form, histVars>>

FlagOff(p) ==
  /\ pc[p] = "flag_off"
  /\ configured' = FALSE
  /\ Goto(p, "flag_off_nvs")
  /\ UNCHANGED <<nvs, cfg, ident, reader, enrolled, cand, newId, form, histVars>>

FlagOffNvs(p) ==
  /\ pc[p] = "flag_off_nvs"
  /\ WriteAnyhow(p, "configured", FALSE, "idle")
  /\ UNCHANGED <<ramVars, enrolled, cand, newId, form, histVars>>

(* Controllers enroll keys and clear them; the last one cleared releases     *)
(* nothing.                                                                  *)
EnrollKey ==
  /\ pc["chip"] = "idle"
  /\ enrolled' = TRUE /\ orphaned' = FALSE
  /\ UNCHANGED <<nvs, ramVars, pc, cand, newId, form, promised, saved, clash, stale>>

ClearLastKey ==
  /\ pc["chip"] = "idle"
  /\ enrolled /\ enrolled' = FALSE
  /\ UNCHANGED <<nvs, ramVars, pc, cand, newId, form, histVars>>

-----------------------------------------------------------------------------
(* Web requests *)

WebStart ==
  /\ pc["web"] = "off" /\ pc["chip"] = "idle"
  /\ Goto("web", "idle")
  /\ UNCHANGED <<nvs, ramVars, enrolled, cand, newId, form, histVars>>

WebRelease ==
  /\ "release" \in WebActs /\ Begin("web")
  /\ configured
  /\ promised' = None /\ saved' = Unless(clash', saved)
  /\ Goto("web", "erase_pub")
  /\ UNCHANGED <<nvs, ramVars, enrolled, cand, newId, form, orphaned, stale>>

(* GET /api/config: one form holds the whole document. *)
LoadPage ==
  /\ "save" \in WebActs /\ pc["web"] = "idle"
  /\ form' = cfg.group
  /\ UNCHANGED <<nvs, ramVars, enrolled, pc, cand, newId, histVars>>

(* POST /api/config: saving sends all of it, with some settings changed. *)
SavePage(rest) ==
  /\ "save" \in WebActs /\ Begin("web")
  /\ form # None
  /\ stale' = (stale \/ form # cfg.group)
  /\ cand' = [cand EXCEPT !["web"] = [group |-> form, rest |-> rest]]
  /\ promised' = Unless(clash', promised) /\ saved' = Unless(clash', saved)
  /\ Goto("web", "store")
  /\ UNCHANGED <<nvs, ramVars, enrolled, newId, form, orphaned>>

(* POST /api/wifi/connect (and the console's wifi command): a copy of the    *)
(* running configuration, with some settings changed.                        *)
PatchConfig(rest) ==
  /\ "patch" \in WebActs /\ Begin("web")
  /\ cand' = [cand EXCEPT !["web"] = [cfg EXCEPT !.rest = rest]]
  /\ promised' = Unless(clash', promised) /\ saved' = Unless(clash', saved)
  /\ Goto("web", "store")
  /\ UNCHANGED <<nvs, ramVars, enrolled, newId, form, orphaned, stale>>

(* POST /api/config/reset and the console's factory_reset: the document goes, *)
(* the key pair stays.                                                        *)
ResetNvs ==
  /\ "reset" \in WebActs /\ Begin("web")
  /\ Write("web", "cfg", Factory, "reset")
  /\ promised' = None /\ saved' = None
  /\ UNCHANGED <<ramVars, enrolled, cand, newId, form, orphaned, stale>>

ResetRam ==
  /\ pc["web"] = "reset"
  /\ cfg' = Factory
  /\ Goto("web", "idle")
  /\ UNCHANGED <<nvs, ident, reader, configured, enrolled, cand, newId, form, histVars>>

-----------------------------------------------------------------------------
Set ==
  \/ \E id \in Ids : SetAliroReaderConfig(id)
  \/ SavePub \/ SavePriv \/ TakeConfig \/ SwapReader
  \/ FlagOn \/ FlagOnNvs

Release(p) == ErasePub(p) \/ ErasePriv(p) \/ FlagOff(p) \/ FlagOffNvs(p)

Web ==
  \/ WebStart \/ WebRelease \/ LoadPage \/ ResetNvs \/ ResetRam
  \/ \E rest \in Settings : SavePage(rest) \/ PatchConfig(rest)

Next ==
  \/ Set \/ Web \/ Restart
  \/ ClearAliroReaderConfig \/ FabricRemoved \/ EnrollKey \/ ClearLastKey
  \/ \E p \in Tasks : StoreConfig(p) \/ AssignConfig(p) \/ Release(p)

Spec == Init /\ [][Next]_vars

-----------------------------------------------------------------------------
AllQuiet == \A p \in Tasks : Quiet(p)

(* "A device that accepted SetAliroReaderConfig and then lost power must     *)
(* come back with the identity the controller believes it has": what was     *)
(* answered, and not released since, is all in NVS, and in use.  Nothing     *)
(* keeps it from a form that was loaded before and is saved after.           *)
Accepted ==
  /\ nvs.pub = promised /\ nvs.priv = promised /\ nvs.cfg.group = promised
  /\ ident = [pub |-> promised, priv |-> promised] /\ cfg.group = promised

AcceptedIsKept == promised # None /\ AllQuiet /\ ~stale => Accepted

(* An identity that serves nobody does not stay to block the next            *)
(* controller: once the last credential has left with a fabric, or none is   *)
(* found at boot, the verification key reads null until another is set.      *)
OrphanIsReleased == orphaned /\ AllQuiet => ~configured

(* Settings answered as saved are the ones in NVS and in use, until others   *)
(* are saved: no other writer of the document puts back an older copy, as    *)
(* long as no two requests overlap.                                          *)
SavedSettingsKept ==
  saved # None /\ AllQuiet => nvs.cfg.rest = saved /\ cfg.rest = saved
=============================================================================
