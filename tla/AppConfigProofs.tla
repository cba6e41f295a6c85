--------------------------- MODULE AppConfigProofs ---------------------------
(***************************************************************************)
(* What holds of the configuration for every chip, every default and every *)
(* document.  Where the defaults pass the device's own validation, the     *)
(* settings in use always do, Wi-Fi credentials are never refused, and a   *)
(* page saved unedited changes nothing.  Whatever the defaults are, a      *)
(* restart brings back what was in use, and a document that is accepted    *)
(* puts in use what it asks.                                               *)
(*                                                                         *)
(* The restart rests on the widths of the fields: a value that fits its    *)
(* field is printed and parsed back as itself (ParsedBack), and every      *)
(* value in use fits, having gone through Parsed or being a default.       *)
(***************************************************************************)
EXTENDS AppConfig, TLAPS

(* The settings are a function of the fields. *)
IsConfig(cfg) == cfg = [f \in Fields |-> cfg[f]]

(* A value that the field f can hold.  A secret is only empty when it is by *)
(* default.                                                                 *)
Width(f) ==
  IF f \in Pins THEN Int8s
  ELSE IF f \in Bytes \/ f = "buzzer_gain" THEN UInt8s
  ELSE IF f = "led_denied_ms" \/ f = "port" THEN UInt16s
  ELSE IF f = "unlock_ms" THEN Nat
  ELSE Int
TextFits(f, text) ==
  /\ text # Overlong
  /\ f \in Secrets => (text = Empty => DefaultText(f) = Empty)
Fits(f, v) ==
  /\ f \in Numbers => v \in Width(f)
  /\ f \in Texts => TextFits(f, v)
  /\ f \in DOMAIN Names => v \in Names[f]

AllFit(cfg) == IsConfig(cfg) /\ \A f \in Fields : Fits(f, cfg[f])

(* The settings of cfg, as a restart may change them. *)
Same(cfg, new) ==
  /\ IsConfig(new)
  /\ \A f \in Fields \ (Words \cup {"hostname"}) : new[f] = cfg[f]
  /\ \A f \in Words : cfg[f] >= 0 => new[f] = cfg[f]
  /\ cfg["hostname"] # "kconfig" => new["hostname"] = cfg["hostname"]

(* The inductive invariant: the values in use fit their fields, and a boot   *)
(* from what is stored, which is a document, brings them back.               *)
Settled == IsDocument(stored) /\ AllFit(running) /\ Same(running, Booted(stored))

-----------------------------------------------------------------------------
(* The fields *)

LEMMA KindsDisjoint ==
  /\ Numbers \cap Texts = {} /\ Numbers \cap DOMAIN Names = {}
  /\ Texts \cap DOMAIN Names = {}
  /\ Numbers \subseteq Fields /\ Texts \subseteq Fields /\ DOMAIN Names \subseteq Fields
<1> DOMAIN Names = {"chip", "bus"}
  BY DEF Names
<1> QED
  BY DEF Numbers, Pins, SpiPins, I2cPins, Bytes, Words, Texts, Secrets, Fields, Device, Nfc,
     Lock, Net, Mqtt, Web, Feedback

LEMMA NumberKinds ==
  ASSUME NEW f \in Numbers
  PROVE  \/ f \in Pins
         \/ f \notin Pins /\ f \in Bytes
         \/ f \notin Pins /\ f \notin Bytes /\ f = "buzzer_gain"
         \/ f \notin Pins /\ f \notin Bytes /\ f = "led_denied_ms"
         \/ f \notin Pins /\ f \notin Bytes /\ f = "port"
         \/ f \notin Pins /\ f \notin Bytes /\ f = "unlock_ms"
         \/ /\ f \notin Pins /\ f \notin Bytes /\ f \in Words
            /\ f \notin {"buzzer_gain", "led_denied_ms", "port", "unlock_ms"}
BY DEF Numbers, Pins, SpiPins, I2cPins, Bytes, Words

LEMMA WidthIsInt == ASSUME NEW f PROVE Width(f) \subseteq Int
BY DEF Width, Int8s, UInt8s, UInt16s

LEMMA EmptyIsNoWord ==
  "cut" # Empty /\ "suffixed" # Empty /\ Empty # Overlong /\ "own" # Empty /\ "kconfig" # Empty
BY Zenon DEF Empty, Overlong

LEMMA DefaultNumberFits == ASSUME NEW f \in Numbers PROVE DefaultNumber(f) \in Width(f)
<1>1. CASE f \in Pins
  <2>1. DefaultNumber(f) = KconfigPins[f] /\ KconfigPins[f] \in Int8s
    BY <1>1, ChipAssumption, SMT DEF DefaultNumber, Int8s
  <2>2. Width(f) = Int8s
    BY <1>1, Zenon DEF Width
  <2> QED  BY <2>1, <2>2
<1>2. CASE f \notin Pins /\ f \in Bytes
  <2>1. DefaultNumber(f) \in {1, 2, 36} /\ Width(f) = UInt8s
    BY <1>2, SMT DEF DefaultNumber, Width, Bytes
  <2> QED  BY <2>1, SMT DEF UInt8s
<1>3. CASE f \notin Pins /\ f \notin Bytes
  <2>1. f = "buzzer_gain" => DefaultNumber(f) = 80 /\ Width(f) = UInt8s
    BY <1>3, SMT DEF DefaultNumber, Width
  <2>2. f = "led_denied_ms" => DefaultNumber(f) = 1000 /\ Width(f) = UInt16s
    BY <1>3, SMT DEF DefaultNumber, Width
  <2>3. f = "port" => DefaultNumber(f) = 1883 /\ Width(f) = UInt16s
    BY <1>3, SMT DEF DefaultNumber, Width
  <2>4. f = "unlock_ms" => DefaultNumber(f) = 3000 /\ Width(f) = Nat
    BY <1>3, SMT DEF DefaultNumber, Width
  <2>5. f \in Words => DefaultNumber(f) \in {1000000, 400000} /\ Width(f) = Int
    BY <1>3, SMT DEF DefaultNumber, Width, Words
  <2>6. 80 \in UInt8s /\ 1000 \in UInt16s /\ 1883 \in UInt16s
    BY SMT DEF UInt8s, UInt16s
  <2>7. f \in Words \cup {"buzzer_gain", "led_denied_ms", "port", "unlock_ms"}
    BY <1>3, NumberKinds
  <2> QED
    BY <2>1, <2>2, <2>3, <2>4, <2>5, <2>6, <2>7, SMT
<1> QED  BY <1>1, <1>2, <1>3

LEMMA DefaultTextFits == ASSUME NEW f \in Texts PROVE TextFits(f, DefaultText(f))
<1>1. DefaultText(f) # Overlong
  BY EmptyIsNoWord, SMT DEF DefaultText, Overlong
<1> QED  BY <1>1 DEF TextFits

LEMMA DefaultsFit == AllFit(Defaults)
<1>1. IsConfig(Defaults)
  BY SMT DEF Defaults, IsConfig
<1>2. ASSUME NEW f \in Numbers PROVE Defaults[f] = DefaultNumber(f)
  BY KindsDisjoint, SMT DEF Defaults
<1>3. ASSUME NEW f \in Texts PROVE Defaults[f] = DefaultText(f)
  BY KindsDisjoint, SMT DEF Defaults
<1>4. Defaults["chip"] \in Names["chip"] /\ Defaults["bus"] \in Names["bus"]
  BY KindsDisjoint, SMT DEF Defaults, Names
<1>5. DOMAIN Names = {"chip", "bus"}
  BY DEF Names
<1> QED
  BY <1>1, <1>2, <1>3, <1>4, <1>5, DefaultNumberFits, DefaultTextFits DEF AllFit, Fits

(* Whatever a document asks of a field, what it becomes fits the field.      *)
LEMMA NumberParsedFits ==
  ASSUME NEW f \in Numbers, NEW n \in Int PROVE ParsedNumber(f, n) \in Width(f)
<1>1. CASE f \in Pins
  <2>1. ParsedNumber(f, n) = Int8(n) /\ Width(f) = Int8s
    BY <1>1, Zenon DEF ParsedNumber, Width
  <2>2. Int8(n) \in Int8s
    BY SMT DEF Int8, Int8s
  <2> QED  BY <2>1, <2>2, Zenon
<1>2. CASE f \notin Pins /\ f \in Bytes
  <2>1. ParsedNumber(f, n) = n % 256 /\ Width(f) = UInt8s
    BY <1>2, Zenon DEF ParsedNumber, Width
  <2>2. n % 256 \in UInt8s
    BY SMT DEF UInt8s
  <2> QED  BY <2>1, <2>2, Zenon
<1>3. CASE f \notin Pins /\ f \notin Bytes /\ f = "buzzer_gain"
  <2>1. ParsedNumber(f, n) = AtLeastZero(n) % 256 /\ Width(f) = UInt8s
    BY <1>3, SMT DEF ParsedNumber, Width
  <2>2. AtLeastZero(n) % 256 \in UInt8s
    BY SMT DEF AtLeastZero, UInt8s
  <2> QED  BY <2>1, <2>2, Zenon
<1>4. CASE f \notin Pins /\ f \notin Bytes /\ f = "led_denied_ms"
  <2>1. ParsedNumber(f, n) = DeniedMs(n) /\ Width(f) = UInt16s
    BY <1>4, SMT DEF ParsedNumber, Width
  <2>2. DeniedMs(n) \in UInt16s
    <3>1. AtLeastZero(n) \in Nat
      BY SMT DEF AtLeastZero
    <3>2. \A m \in Nat : AtMost(m, 65535) \in UInt16s
      BY SMT DEF AtMost, UInt16s
    <3> QED  BY <3>1, <3>2 DEF DeniedMs
  <2> QED  BY <2>1, <2>2, Zenon
<1>5. CASE f \notin Pins /\ f \notin Bytes /\ f = "port"
  <2>1. Width(f) = UInt16s
    BY <1>5, SMT DEF Width
  <2>2. n \in UInt16s => ParsedNumber(f, n) = n
    BY <1>5, Zenon DEF ParsedNumber
  <2>3. n \notin UInt16s => ParsedNumber(f, n) = 0
    BY <1>5, Zenon DEF ParsedNumber
  <2>4. 0 \in UInt16s
    BY SMT DEF UInt16s
  <2> QED  BY <2>1, <2>2, <2>3, <2>4, Zenon
<1>6. CASE f \notin Pins /\ f \notin Bytes /\ f = "unlock_ms"
  <2>1. ParsedNumber(f, n) = AtLeastZero(n) /\ Width(f) = Nat
    BY <1>6, Zenon DEF ParsedNumber, Width
  <2>2. AtLeastZero(n) \in Nat
    BY SMT DEF AtLeastZero
  <2> QED  BY <2>1, <2>2, Zenon
<1>7. CASE /\ f \notin Pins /\ f \notin Bytes /\ f \in Words
           /\ f \notin {"buzzer_gain", "led_denied_ms", "port", "unlock_ms"}
  <2>1. ParsedNumber(f, n) = n
    BY <1>7, Zenon DEF ParsedNumber
  <2>2. Width(f) = Int
    BY <1>7, Zenon DEF Width
  <2> QED  BY <2>1, <2>2, Zenon
<1> QED  BY <1>1, <1>2, <1>3, <1>4, <1>5, <1>6, <1>7, NumberKinds

LEMMA TextParsedFits ==
  ASSUME NEW f \in Texts, NEW text, NEW old, TextFits(f, old)
  PROVE  TextFits(f, ParsedText(f, text, old))
BY EmptyIsNoWord, SMT DEF TextFits, ParsedText, Secret, Overlong

LEMMA ParsedFits ==
  ASSUME NEW f \in Fields, NEW v, NEW old, Fits(f, old), f \in Numbers => v \in Int
  PROVE  Fits(f, Parsed(f, v, old))
<1>1. CASE f \in Numbers
  BY <1>1, KindsDisjoint, NumberParsedFits, SMT DEF Fits, Parsed
<1>2. CASE f \in Texts
  BY <1>2, KindsDisjoint, TextParsedFits, SMT DEF Fits, Parsed
<1>3. CASE f \in DOMAIN Names
  BY <1>3, KindsDisjoint, SMT DEF Fits, Parsed
<1> QED  BY <1>1, <1>2, <1>3 DEF Fits

(* What is in use is printed for NVS and parsed at the next boot as itself,  *)
(* unless it is a word above every int.                                      *)
LEMMA NumberParsedBack ==
  ASSUME NEW f \in Numbers, NEW n \in Width(f) PROVE ParsedNumber(f, n) = n
<1>1. CASE f \in Pins
  <2>1. ParsedNumber(f, n) = Int8(n) /\ n \in Int8s
    BY <1>1, Zenon DEF ParsedNumber, Width
  <2>2. \A i \in Int8s : Int8(i) = i
    BY SMT DEF Int8, Int8s
  <2> QED  BY <2>1, <2>2, Zenon
<1>2. CASE f \notin Pins /\ f \in Bytes
  <2>1. ParsedNumber(f, n) = n % 256 /\ n \in UInt8s
    BY <1>2, Zenon DEF ParsedNumber, Width
  <2>2. \A i \in UInt8s : i % 256 = i
    BY SMT DEF UInt8s
  <2> QED  BY <2>1, <2>2, Zenon
<1>3. CASE f \notin Pins /\ f \notin Bytes /\ f = "buzzer_gain"
  <2>1. ParsedNumber(f, n) = AtLeastZero(n) % 256 /\ n \in UInt8s
    BY <1>3, SMT DEF ParsedNumber, Width
  <2>2. \A i \in UInt8s : AtLeastZero(i) % 256 = i
    BY SMT DEF AtLeastZero, UInt8s
  <2> QED  BY <2>1, <2>2, Zenon
<1>4. CASE f \notin Pins /\ f \notin Bytes /\ f = "led_denied_ms"
  <2>1. ParsedNumber(f, n) = DeniedMs(n) /\ n \in UInt16s
    BY <1>4, SMT DEF ParsedNumber, Width
  <2>2. \A i \in UInt16s : DeniedMs(i) = i
    BY SMT DEF DeniedMs, AtLeastZero, AtMost, UInt16s
  <2> QED  BY <2>1, <2>2, Zenon
<1>5. CASE f \notin Pins /\ f \notin Bytes /\ f = "port"
  <2>1. n \in UInt16s
    BY <1>5, SMT DEF Width
  <2> QED  BY <1>5, <2>1, Zenon DEF ParsedNumber
<1>6. CASE f \notin Pins /\ f \notin Bytes /\ f = "unlock_ms"
  <2>1. ParsedNumber(f, n) = AtLeastZero(n) /\ n \in Nat
    BY <1>6, SMT DEF ParsedNumber, Width
  <2> QED  BY <2>1, SMT DEF AtLeastZero
<1>7. CASE /\ f \notin Pins /\ f \notin Bytes /\ f \in Words
           /\ f \notin {"buzzer_gain", "led_denied_ms", "port", "unlock_ms"}
  BY <1>7, Zenon DEF ParsedNumber
<1> QED  BY <1>1, <1>2, <1>3, <1>4, <1>5, <1>6, <1>7, NumberKinds

LEMMA TextParsedBack ==
  ASSUME NEW f \in Texts, NEW text, TextFits(f, text)
  PROVE  ParsedText(f, text, DefaultText(f)) = text
BY SMT DEF TextFits, ParsedText, Secret

LEMMA ParsedBack ==
  ASSUME NEW f \in Fields, NEW cfg, AllFit(cfg), f \in Words => cfg[f] >= 0
  PROVE  Parsed(f, Printed(cfg, TRUE)[f], Defaults[f]) = cfg[f]
<1>1. Fits(f, cfg[f])
  BY DEF AllFit
<1>2. f \in Words => cfg[f] \in Int
  BY <1>1, WidthIsInt DEF Fits, Numbers
<1>3. ~(f \in Words /\ cfg[f] < 0)
  BY <1>2, SMT
<1>4. Printed(cfg, TRUE)[f] = cfg[f]
  BY <1>3, Zenon DEF Printed
<1>5. CASE f \in Numbers
  <2>1. cfg[f] \in Width(f)
    BY <1>1, <1>5 DEF Fits
  <2> QED  BY <1>4, <1>5, <2>1, NumberParsedBack, Zenon DEF Parsed
<1>6. CASE f \in Texts
  <2>1. Defaults[f] = DefaultText(f) /\ f \notin Numbers
    BY <1>6, KindsDisjoint, SMT DEF Defaults
  <2>2. TextFits(f, cfg[f])
    BY <1>1, <1>6 DEF Fits
  <2> QED  BY <1>4, <1>6, <2>1, <2>2, TextParsedBack, Zenon DEF Parsed
<1>7. CASE f \notin Numbers \cup Texts
  BY <1>1, <1>4, <1>7, Zenon DEF Fits, Parsed
<1> QED  BY <1>5, <1>6, <1>7, Zenon

-----------------------------------------------------------------------------
(* Documents *)

LEMMA MergedFits ==
  ASSUME NEW doc, NEW cfg, IsDocument(doc), AllFit(cfg)
  PROVE  AllFit(Merged(doc, cfg))
<1>1. IsConfig(Merged(doc, cfg))
  BY DEF Merged, IsConfig
<1>2. ASSUME NEW f \in Fields PROVE Fits(f, Merged(doc, cfg)[f])
  <2>1. Fits(f, cfg[f])
    BY DEF AllFit
  <2>2. CASE f \in Read(doc)
    <3>1. f \in Numbers => doc[f] \in Int
      BY <2>2 DEF Read, IsDocument
    <3>2. Merged(doc, cfg)[f] = Parsed(f, doc[f], cfg[f])
      BY <2>2 DEF Merged
    <3> QED  BY <2>1, <3>1, <3>2, ParsedFits
  <2>3. CASE f \notin Read(doc)
    BY <2>1, <2>3 DEF Merged
  <2> QED  BY <2>2, <2>3
<1> QED  BY <1>1, <1>2 DEF AllFit

LEMMA BlankIsDocument == IsDocument(Blank)
BY DEF IsDocument, Blank

LEMMA ImageIsDocument == ASSUME NEW doc \in Documents \cup Images PROVE IsDocument(doc)
BY DocumentsAssumption

(* What is printed is a document, for NVS as for a page, and an edited form  *)
(* too.                                                                      *)
LEMMA PrintedIsDocument ==
  ASSUME NEW cfg, AllFit(cfg), NEW secrets PROVE IsDocument(Printed(cfg, secrets))
<1>1. ASSUME NEW f \in Fields \cap Numbers PROVE Printed(cfg, secrets)[f] \in Int
  <2>1. cfg[f] \in Int
    <3>1. Fits(f, cfg[f])
      BY DEF AllFit
    <3> QED  BY <3>1, WidthIsInt DEF Fits
  <2>2. f \notin Secrets
    BY KindsDisjoint DEF Texts
  <2> QED  BY <2>1, <2>2, SMT DEF Printed, MaxInt
<1>2. DOMAIN Printed(cfg, secrets) = Fields
  BY DEF Printed
<1> QED  BY <1>1, <1>2 DEF IsDocument

LEMMA EditedIsDocument ==
  ASSUME AllFit(running), NEW edits \in Documents PROVE IsDocument(Edited(edits))
<1>1. IsDocument(Form)
  BY PrintedIsDocument DEF Form
<1>2. IsDocument(edits) /\ DOMAIN Form = Fields
  BY ImageIsDocument DEF Form, Printed
<1> QED  BY <1>1, <1>2 DEF Edited, IsDocument

-----------------------------------------------------------------------------
(* Validation, and what it does not look at *)

LEMMA ValidStays ==
  ASSUME NEW cfg, NEW new, Valid(cfg),
         \A f \in Fields \ (Words \cup {"hostname", "ssid", "net_password"}) : new[f] = cfg[f],
         \A f \in Words : new[f] = cfg[f] \/ (cfg[f] \in Int /\ cfg[f] < 0),
         new["hostname"] # Empty
  PROVE  Valid(new)
<1> DEFINE Looked == Fields \ (Words \cup {"hostname", "ssid", "net_password"})
<1>1. Pins \subseteq Looked
  BY DEF Fields, Device, Nfc, Lock, Net, Mqtt, Web, Feedback, Pins, SpiPins, I2cPins, Words
<1>2. {"bus", "spi_host", "i2c_addr", "unlock_ms", "led_enabled", "led_denied_enabled",
       "led_denied_ms", "buzzer_enabled", "buzzer_gain", "group_id", "name", "ap_password",
       "mqtt_enabled", "broker", "port", "client_id", "base_topic", "auth_enabled",
       "web_username", "web_password"} \subseteq Looked
  BY DEF Fields, Device, Nfc, Lock, Net, Mqtt, Web, Feedback, Words
<1> HIDE DEF Looked
<1>3. \A f \in Looked : new[f] = cfg[f]
  BY DEF Looked
<1>4. PinsValid(new)
  <2>1. UsedPins(cfg) \subseteq Pins
    BY DEF UsedPins, Pins, SpiPins, I2cPins
  <2>2. UsedPins(new) = UsedPins(cfg)
    <3>1. "irq_pin" \in Looked /\ "rst_pin" \in Looked
      BY <1>1 DEF Pins
    <3> QED  BY <1>2, <1>3, <3>1 DEF UsedPins
  <2>3. \A p \in UsedPins(cfg) : new[p] = cfg[p]
    BY <1>1, <1>3, <2>1
  <2> QED  BY <2>2, <2>3 DEF Valid, PinsValid
<1>5. BusValid(new)
  <2>1. BusValid(cfg)
    BY DEF Valid
  <2>2. new["bus"] = cfg["bus"] /\ new["spi_host"] = cfg["spi_host"]
        /\ new["i2c_addr"] = cfg["i2c_addr"]
    BY <1>2, <1>3
  <2>3. cfg["bus"] = "spi" => new["spi_freq_hz"] = cfg["spi_freq_hz"]
    BY <2>1, SMT DEF BusValid, Words
  <2>4. cfg["bus"] = "i2c" => new["i2c_freq_hz"] = cfg["i2c_freq_hz"]
    BY <2>1, SMT DEF BusValid, Words
  <2> QED  BY <2>1, <2>2, <2>3, <2>4, SMT DEF BusValid
<1>6. OutputsValid(new)
  BY <1>2, <1>3, SMT DEF Valid, OutputsValid
<1>7. NamesValid(new)
  BY <1>2, <1>3, Zenon DEF Valid, NamesValid
<1>8. MqttValid(new)
  BY <1>2, <1>3, Zenon DEF Valid, MqttValid
<1>9. WebValid(new)
  BY <1>2, <1>3, Zenon DEF Valid, WebValid
<1> QED  BY <1>4, <1>5, <1>6, <1>7, <1>8, <1>9 DEF Valid

(* The settings after a boot, whatever is stored. *)
LEMMA ConfigsAreFunctions ==
  /\ IsConfig(Defaults)
  /\ \A doc, cfg : IsConfig(Merged(doc, cfg))
  /\ \A doc : IsConfig(Loaded(doc))
<1>1. IsConfig(Defaults)
  BY DefaultsFit DEF AllFit
<1>2. \A doc, cfg : IsConfig(Merged(doc, cfg))
  BY DEF Merged, IsConfig
<1> QED  BY <1>1, <1>2 DEF Loaded

LEMMA HostnameAlone ==
  ASSUME NEW cfg, IsConfig(cfg)
  PROVE  /\ IsConfig(WithHostname(cfg))
         /\ \A f \in Fields \ {"hostname"} : WithHostname(cfg)[f] = cfg[f]
         /\ cfg["hostname"] # "kconfig" => WithHostname(cfg) = cfg
         /\ WithHostname(cfg)["hostname"] \in {cfg["hostname"], "suffixed"}
<1>1. "hostname" \in Fields
  BY DEF Fields, Net
<1> QED  BY <1>1, SMT DEF IsConfig, WithHostname

LEMMA HostnameKeeps ==
  ASSUME NEW cfg, IsConfig(cfg) PROVE Same(cfg, WithHostname(cfg))
<1>1. Words \subseteq Fields \ {"hostname"}
  BY DEF Fields, Nfc, Words
<1>2. \A f \in Fields \ {"hostname"} : WithHostname(cfg)[f] = cfg[f]
  BY HostnameAlone
<1>3. cfg["hostname"] # "kconfig" => WithHostname(cfg)["hostname"] = cfg["hostname"]
  BY HostnameAlone
<1>4. IsConfig(WithHostname(cfg))
  BY HostnameAlone
<1> QED  BY <1>1, <1>2, <1>3, <1>4, Zenon DEF Same

LEMMA BootedIsValid ==
  ASSUME Valid(Defaults), NEW doc PROVE Valid(Booted(doc))
<1>1. Valid(Loaded(doc)) /\ IsConfig(Loaded(doc))
  BY ConfigsAreFunctions DEF Loaded
<1>2. Loaded(doc)["hostname"] # Empty
  BY <1>1 DEF Valid, NamesValid
<1>3. "hostname" \notin Words
  BY DEF Words
<1>4. Words \subseteq Fields
  BY DEF Fields, Nfc, Words
<1> QED  BY <1>1, <1>2, <1>3, <1>4, HostnameAlone, ValidStays, EmptyIsNoWord DEF Booted

LEMMA BootedFits ==
  ASSUME NEW doc, IsDocument(doc) PROVE AllFit(Booted(doc))
<1>1. AllFit(Loaded(doc))
  BY DefaultsFit, MergedFits DEF Loaded
<1>2. "hostname" \in Texts /\ "hostname" \notin Numbers \cup DOMAIN Names \cup Secrets
  BY KindsDisjoint DEF Texts, Secrets
<1>3. TextFits("hostname", "suffixed")
  BY <1>2, EmptyIsNoWord DEF TextFits, Overlong
<1>4. IsConfig(Booted(doc)) /\ \A f \in Fields : Fits(f, Booted(doc)[f])
  BY <1>1, <1>2, <1>3, HostnameAlone DEF AllFit, Fits, Booted
<1> QED  BY <1>4 DEF AllFit

(* What was saved is what the next boot loads. *)
LEMMA SavedIsBooted ==
  ASSUME NEW cfg, AllFit(cfg), Valid(cfg) PROVE Same(cfg, Booted(Printed(cfg, TRUE)))
<1> DEFINE doc == Printed(cfg, TRUE)
           new == Merged(doc, Defaults)
<1>1. Read(doc) = Fields
  <2>1. DOMAIN doc = Fields /\ "web_username" \in Web \cap Fields
    BY DEF Printed, Web, Fields
  <2> QED  BY <2>1, Zenon DEF Read
<1>2. \A f \in Fields : new[f] = Parsed(f, doc[f], Defaults[f])
  BY <1>1, Zenon DEF Merged
<1>3. \A f \in Words : cfg[f] \in Int
  BY KindsDisjoint, WidthIsInt DEF AllFit, Fits, Numbers
<1>4. \A f \in Fields : (f \in Words => cfg[f] >= 0) => new[f] = cfg[f]
  BY <1>2, ParsedBack
<1>5. \A f \in Words : new[f] = cfg[f] \/ (cfg[f] \in Int /\ cfg[f] < 0)
  <2>1. Words \subseteq Fields
    BY DEF Fields, Nfc, Words
  <2>2. \A f \in Words : cfg[f] >= 0 \/ cfg[f] < 0
    BY <1>3, SMT
  <2> QED  BY <1>3, <1>4, <2>1, <2>2
<1> HIDE DEF doc, new
<1>6. "hostname" \in Fields \ Words
  BY DEF Fields, Net, Words
<1>7. new["hostname"] = cfg["hostname"] /\ cfg["hostname"] # Empty
  BY <1>4, <1>6 DEF Valid, NamesValid
<1>8. Valid(new)
  BY <1>4, <1>5, <1>7, ValidStays
<1>9. Loaded(doc) = new /\ IsConfig(new)
  BY <1>8, ConfigsAreFunctions DEF Loaded, new
<1>10. Same(cfg, WithHostname(new))
  <2>1. Words \subseteq Fields \ {"hostname"}
    BY <1>6 DEF Fields, Nfc, Words
  <2>2. \A f \in Words : cfg[f] >= 0 => new[f] = cfg[f]
    BY <1>4, <2>1
  <2>3. \A f \in Fields \ {"hostname"} : WithHostname(new)[f] = new[f]
    BY <1>9, HostnameAlone
  <2>4. \A f \in Fields \ (Words \cup {"hostname"}) : new[f] = cfg[f]
    BY <1>4
  <2>5. IsConfig(WithHostname(new)) /\ (new["hostname"] # "kconfig" => WithHostname(new) = new)
    BY <1>9, HostnameAlone
  <2>6. \A f \in Fields \ (Words \cup {"hostname"}) : WithHostname(new)[f] = cfg[f]
    BY <2>3, <2>4
  <2>7. \A f \in Words : cfg[f] >= 0 => WithHostname(new)[f] = cfg[f]
    BY <2>1, <2>2, <2>3
  <2>8. cfg["hostname"] # "kconfig" => WithHostname(new)["hostname"] = cfg["hostname"]
    BY <1>7, <2>5
  <2> QED  BY <2>5, <2>6, <2>7, <2>8, Zenon DEF Same
<1>11. Booted(doc) = WithHostname(new)
  BY <1>9, Zenon DEF Booted
<1> QED  BY <1>10, <1>11, Zenon DEF doc

-----------------------------------------------------------------------------
(* Where the defaults pass the device's own validation, the settings in use *)
(* always do: after a boot from any image, after any document, after a      *)
(* reset (app_config_validate(), called before every save and on load).     *)
THEOREM SettingsStayValid == ASSUME Valid(Defaults) PROVE Spec => []RunningIsValid
<1>1. Init => RunningIsValid
  BY BootedIsValid DEF Init, RunningIsValid
<1>2. RunningIsValid /\ [Next]_vars => RunningIsValid'
  <2> SUFFICES ASSUME RunningIsValid, [Next]_vars PROVE Valid(running')
    BY DEF RunningIsValid
  <2>1. CASE Restart
    BY <2>1, BootedIsValid DEF Restart
  <2>2. CASE Reset
    BY <2>2 DEF Reset, RunningIsValid
  <2>3. ASSUME NEW cfg, Save(cfg) PROVE Valid(running')
    BY <2>3 DEF Save, RunningIsValid
  <2>4. ASSUME NEW doc \in Documents, PostConfig(doc) \/ PostForm(doc) PROVE Valid(running')
    BY <2>3, <2>4 DEF PostConfig, PostForm
  <2>5. ASSUME NEW password \in WifiPasswords, SetWifi("own", password) PROVE Valid(running')
    BY <2>3, <2>5 DEF SetWifi
  <2>6. CASE UNCHANGED vars
    BY <2>6 DEF vars, RunningIsValid
  <2> QED  BY <2>1, <2>2, <2>4, <2>5, <2>6 DEF Next
<1> QED  BY <1>1, <1>2, PTL DEF Spec

LEMMA BootIsSettled ==
  ASSUME NEW doc, IsDocument(doc) PROVE AllFit(Booted(doc)) /\ Same(Booted(doc), Booted(doc))
<1>1. AllFit(Booted(doc))
  BY BootedFits
<1> QED  BY <1>1 DEF Same, AllFit

(* What the Wi-Fi commands put in place, where texts are expected.            *)
LEMMA WifiFits ==
  ASSUME NEW cfg, AllFit(cfg), NEW password \in {Empty, "own", cfg["net_password"]}
  PROVE  AllFit([cfg EXCEPT !["ssid"] = "own", !["net_password"] = password])
<1> DEFINE new == [cfg EXCEPT !["ssid"] = "own", !["net_password"] = password]
<1>1. {"ssid", "net_password"} \subseteq Texts /\ "ssid" \notin Secrets
  BY DEF Texts, Secrets
<1>2. \A f \in {"ssid", "net_password"} : f \in Fields \ (Numbers \cup DOMAIN Names)
  BY <1>1, KindsDisjoint
<1>3. /\ IsConfig(new) /\ new["ssid"] = "own" /\ new["net_password"] = password
      /\ \A f \in Fields \ {"ssid", "net_password"} : new[f] = cfg[f]
  <2>1. cfg = [f \in Fields |-> cfg[f]]
    BY DEF AllFit, IsConfig
  <2>2. /\ "ssid" \in Fields /\ "net_password" \in Fields
        /\ "ssid" # "net_password"
    BY <1>2
  <2>3. new = [f \in Fields |-> new[f]]
    <3>1. new = [f \in Fields |-> IF f = "net_password" THEN password
                                 ELSE IF f = "ssid" THEN "own" ELSE cfg[f]]
      BY <2>1, <2>2, Zenon
    <3> QED  BY <3>1, Zenon
  <2>4. new["ssid"] = "own" /\ new["net_password"] = password
    BY <2>1, <2>2, SMT
  <2>5. \A f \in Fields \ {"ssid", "net_password"} : new[f] = cfg[f]
    BY <2>1, <2>2, SMT
  <2> QED  BY <2>3, <2>4, <2>5 DEF IsConfig
<1> HIDE DEF new
<1>4. DefaultText("net_password") = Empty
  BY Zenon DEF DefaultText
<1>5. "own" # Overlong
  BY DEF Overlong
<1>6. TextFits("ssid", "own") /\ TextFits("net_password", password)
  <2>1. TextFits("ssid", "own") /\ TextFits("net_password", Empty)
        /\ TextFits("net_password", "own")
    BY <1>1, <1>4, <1>5, EmptyIsNoWord, Zenon DEF TextFits
  <2>2. TextFits("net_password", cfg["net_password"])
    BY <1>1, <1>2 DEF AllFit, Fits
  <2> QED  BY <2>1, <2>2
<1>7. \A f \in Fields : Fits(f, new[f])
  BY <1>2, <1>3, <1>6 DEF AllFit, Fits
<1>8. AllFit(new)
  BY <1>3, <1>7 DEF AllFit
<1> QED  BY <1>8 DEF new

LEMMA SettledInvariant == Spec => []Settled
<1>1. Init => Settled
  <2> SUFFICES ASSUME Init PROVE Settled
    OBVIOUS
  <2>1. IsDocument(stored) /\ running = Booted(stored)
    BY BlankIsDocument, ImageIsDocument DEF Init
  <2> QED  BY <2>1, BootIsSettled DEF Settled
<1>2. Settled /\ [Next]_vars => Settled'
  <2> SUFFICES ASSUME Settled, [Next]_vars
               PROVE  IsDocument(stored') /\ AllFit(running') /\ Same(running', Booted(stored'))
    BY DEF Settled
  <2>0. IsDocument(stored) /\ AllFit(running)
    BY DEF Settled
  <2>1. CASE Restart
    BY <2>0, <2>1, BootIsSettled DEF Restart
  <2>2. CASE Reset
    <3>1. CASE stored' = Blank /\ running' = Defaults
      <4>1. Read(Blank) = {}
        BY DEF Read, Blank
      <4>2. Loaded(Blank) = Defaults
        BY <4>1, ConfigsAreFunctions DEF Loaded, Merged, IsConfig
      <4>3. Same(Defaults, WithHostname(Defaults))
        BY HostnameKeeps, ConfigsAreFunctions
      <4> QED  BY <3>1, <4>2, <4>3, BlankIsDocument, DefaultsFit DEF Booted
    <3> QED  BY <2>2, <3>1 DEF Reset, Settled
  <2>3. ASSUME NEW cfg, AllFit(cfg), Save(cfg)
        PROVE  IsDocument(stored') /\ AllFit(running') /\ Same(running', Booted(stored'))
    <3>1. CASE Valid(cfg) /\ stored' = Printed(cfg, TRUE) /\ running' = cfg
      <4>1. Same(cfg, Booted(Printed(cfg, TRUE)))
        BY <2>3, <3>1, SavedIsBooted, Zenon
      <4>2. IsDocument(Printed(cfg, TRUE))
        BY <2>3, PrintedIsDocument, Zenon
      <4> QED  BY <2>3, <3>1, <4>1, <4>2, Zenon
    <3> QED  BY <2>3, <3>1 DEF Save, Settled
  <2>4. ASSUME NEW doc \in Documents, PostConfig(doc) \/ PostForm(doc)
        PROVE  IsDocument(stored') /\ AllFit(running') /\ Same(running', Booted(stored'))
    BY <2>0, <2>3, <2>4, ImageIsDocument, EditedIsDocument, MergedFits DEF PostConfig, PostForm
  <2>5. ASSUME NEW password \in WifiPasswords, SetWifi("own", password)
        PROVE  IsDocument(stored') /\ AllFit(running') /\ Same(running', Booted(stored'))
    BY <2>0, <2>3, <2>5, WifiFits DEF SetWifi, WifiPasswords
  <2>6. CASE UNCHANGED vars
    BY <2>6 DEF vars, Settled
  <2> QED  BY <2>1, <2>2, <2>4, <2>5, <2>6 DEF Next
<1> QED  BY <1>1, <1>2, PTL DEF Spec

(* Whatever the defaults and the documents are, a restart brings back every *)
(* setting that was in use (app_config_to_json() with the secrets, and      *)
(* load_from_nvs()).                                                        *)
THEOREM RestartsKeepSettings == Spec => RestartKeeps
<1>1. Settled /\ [Next]_vars => [Restart => \A f \in Fields : Kept(f)]_vars
  <2> SUFFICES ASSUME Settled, Restart, NEW f \in Fields PROVE Kept(f)
    OBVIOUS
  <2>1. running' = Booted(stored) /\ Same(running, running')
    BY DEF Restart, Settled
  <2>2. f \in Words => running[f] \in Int
    BY WidthIsInt DEF Settled, AllFit, Fits, Numbers
  <2>3. f \in Words => running[f] >= 0 \/ running[f] < 0
    BY <2>2, SMT
  <2> QED  BY <2>1, <2>3 DEF Same, Kept
<1> QED  BY <1>1, SettledInvariant, PTL DEF Spec, RestartKeeps

(* Where the defaults pass validation, Wi-Fi credentials are never refused: *)
(* nothing that validation looks at is left invalid by anybody              *)
(* (cmd_wifi(), ws_wifi_connect(); the run config_s3 is the other case).    *)
THEOREM WifiStaysSaved == ASSUME Valid(Defaults) PROVE Spec => WifiIsSaved
<1>1. Settled /\ RunningIsValid /\ [Next]_vars =>
        [\A password \in WifiPasswords : SetWifi("own", password) => answer' # "rejected"]_vars
  <2> SUFFICES ASSUME Settled, RunningIsValid, NEW password \in WifiPasswords,
                      SetWifi("own", password)
               PROVE  answer' # "rejected"
    OBVIOUS
  <2> DEFINE new == [running EXCEPT !["ssid"] = "own", !["net_password"] = password]
  <2>1. /\ \A f \in Fields \ {"ssid", "net_password"} : new[f] = running[f]
        /\ {"hostname", "spi_freq_hz", "i2c_freq_hz"} \subseteq Fields \ {"ssid", "net_password"}
    <3>1. running = [f \in Fields |-> running[f]]
      BY DEF Settled, AllFit, IsConfig
    <3>2. {"hostname", "spi_freq_hz", "i2c_freq_hz"} \subseteq Fields \ {"ssid", "net_password"}
      BY DEF Fields, Net, Nfc
    <3> QED  BY <3>1, <3>2, SMT
  <2> HIDE DEF new
  <2>2. new["hostname"] # Empty
    BY <2>1 DEF RunningIsValid, Valid, NamesValid
  <2>3. Valid(new)
    BY <2>1, <2>2, ValidStays DEF RunningIsValid, Words
  <2>4. Save(new)
    BY DEF SetWifi, new
  <2> QED  BY <2>3, <2>4 DEF Save
<1> QED  BY <1>1, SettledInvariant, SettingsStayValid, PTL DEF Spec, WifiIsSaved

-----------------------------------------------------------------------------
(* What a page is shown is posted back and parsed as what was in use, the   *)
(* secrets included, which it was not shown.                                *)
LEMMA ShownBack ==
  ASSUME NEW f \in Fields, NEW cfg, AllFit(cfg), f \in Words => cfg[f] >= 0
  PROVE  Parsed(f, Printed(cfg, FALSE)[f], cfg[f]) = cfg[f]
<1>1. Fits(f, cfg[f])
  BY DEF AllFit
<1>2. f \in Words => cfg[f] \in Int
  BY <1>1, WidthIsInt DEF Fits, Numbers
<1>3. ~(f \in Words /\ cfg[f] < 0)
  BY <1>2, SMT
<1>4. Printed(cfg, FALSE)[f] = IF f \in Secrets THEN Empty ELSE cfg[f]
  BY <1>3, Zenon DEF Printed
<1>5. CASE f \in Numbers
  <2>1. cfg[f] \in Width(f)
    BY <1>1, <1>5 DEF Fits
  <2>2. f \notin Secrets
    BY <1>5, KindsDisjoint DEF Texts
  <2> QED  BY <1>4, <1>5, <2>1, <2>2, NumberParsedBack, Zenon DEF Parsed
<1>6. CASE f \in Texts
  <2>1. f \notin Numbers /\ TextFits(f, cfg[f])
    BY <1>1, <1>6, KindsDisjoint DEF Fits
  <2>2. ParsedText(f, Printed(cfg, FALSE)[f], cfg[f]) = cfg[f]
    <3>1. CASE f \in Secrets
      BY <1>4, <3>1, EmptyIsNoWord, Zenon DEF ParsedText, Secret
    <3>2. CASE f \notin Secrets
      BY <1>4, <2>1, <3>2, Zenon DEF ParsedText, TextFits
    <3> QED  BY <3>1, <3>2
  <2> QED  BY <1>6, <2>1, <2>2, Zenon DEF Parsed
<1>7. CASE f \notin Numbers \cup Texts
  <2>1. f \notin Secrets
    BY <1>7 DEF Texts
  <2> QED  BY <1>1, <1>4, <1>7, <2>1, Zenon DEF Fits, Parsed
<1> QED  BY <1>5, <1>6, <1>7, Zenon

(* Where the defaults pass validation, a page saved unedited is accepted    *)
(* and changes nothing (app_config_to_json() without the secrets, and       *)
(* app_config_from_json()), whatever has been saved before.                 *)
THEOREM UneditedFormsKeep == ASSUME Valid(Defaults) PROVE Spec => []UneditedFormKeeps
<1>1. Settled /\ RunningIsValid => UneditedFormKeeps
  <2> SUFFICES ASSUME Settled, RunningIsValid PROVE UneditedFormKeeps
    OBVIOUS
  <2> DEFINE again == Merged(Form, running)
  <2>1. AllFit(running) /\ Valid(running)
    BY DEF Settled, RunningIsValid
  <2>2. Read(Form) = Fields
    <3>1. DOMAIN Form = Fields /\ "web_username" \in Web \cap Fields
      BY DEF Form, Printed, Web, Fields
    <3> QED  BY <3>1, Zenon DEF Read
  <2>3. \A f \in Fields : again[f] = Parsed(f, Form[f], running[f])
    BY <2>2, Zenon DEF Merged
  <2>4. \A f \in Words : running[f] \in Int /\ f \in Fields
    BY <2>1, KindsDisjoint, WidthIsInt DEF AllFit, Fits, Numbers
  <2>5. \A f \in Fields : (f \in Words => running[f] >= 0) => again[f] = running[f]
    BY <2>1, <2>3, ShownBack DEF Form
  <2>6. \A f \in Words : again[f] = running[f] \/ (running[f] \in Int /\ running[f] < 0)
    <3>1. \A f \in Words : running[f] >= 0 \/ running[f] < 0
      BY <2>4, SMT
    <3> QED  BY <2>4, <2>5, <3>1
  <2> HIDE DEF again
  <2>7. "hostname" \in Fields \ Words
    BY DEF Fields, Net, Words
  <2>8. again["hostname"] # Empty
    BY <2>1, <2>5, <2>7 DEF Valid, NamesValid
  <2>9. Valid(again)
    BY <2>1, <2>5, <2>6, <2>8, ValidStays
  <2>10. \A f \in Fields : again[f] = running[f] \/ (f \in Words /\ running[f] < 0)
    BY <2>5, <2>6
  <2> QED  BY <2>9, <2>10, Zenon DEF UneditedFormKeeps, again
<1> QED  BY <1>1, SettledInvariant, SettingsStayValid, PTL

-----------------------------------------------------------------------------
(* A number that a document asks of a field is taken as it is, or the field *)
(* cannot hold it; and where the field is in use and has limits, validation *)
(* refuses what stands in for it.                                           *)
LEMMA NumberAsAsked ==
  ASSUME NEW f \in Numbers, NEW n \in Int, NEW cfg,
         cfg[f] = ParsedNumber(f, n), OutputsValid(cfg), MqttValid(cfg)
  PROVE  cfg[f] = n \/ StandsIn(f, n, cfg)
<1>1. CASE f \in Pins
  <2>1. CASE n \in Int8s
    <3>1. n \in Width(f)
      BY <1>1, <2>1, Zenon DEF Width
    <3> QED  BY <3>1, NumberParsedBack
  <2> QED  BY <1>1, <2>1 DEF StandsIn
<1>2. CASE f \notin Pins /\ (f \in Bytes \/ f = "buzzer_gain")
  <2>1. CASE n \in UInt8s
    <3>1. n \in Width(f)
      BY <1>2, <2>1, Zenon DEF Width
    <3> QED  BY <3>1, NumberParsedBack
  <2> QED  BY <1>2, <2>1 DEF StandsIn
<1>3. CASE f \notin Pins /\ f \notin Bytes /\ f = "led_denied_ms"
  <2>1. CASE n \in UInt16s
    <3>1. n \in Width(f)
      BY <1>3, <2>1, SMT DEF Width
    <3> QED  BY <3>1, NumberParsedBack
  <2>2. CASE n \notin UInt16s
    <3>1. cfg[f] = DeniedMs(n)
      <4>1. f # "buzzer_gain" /\ f # "unlock_ms"
        BY <1>3
      <4> QED  BY <1>3, <4>1, Zenon DEF ParsedNumber
    <3>2. DeniedMs(n) \in {0, 65535}
      <4>1. n < 0 \/ n > 65535
        BY <2>2, SMT DEF UInt16s
      <4>2. CASE n < 0
        <5>1. AtLeastZero(n) = 0 /\ AtMost(0, 65535) = 0
          BY <4>2, SMT DEF AtLeastZero, AtMost
        <5> QED  BY <5>1, SMT DEF DeniedMs
      <4>3. CASE n > 65535
        <5>1. AtLeastZero(n) = n /\ AtMost(n, 65535) = 65535
          BY <4>3, SMT DEF AtLeastZero, AtMost
        <5> QED  BY <5>1, SMT DEF DeniedMs
      <4> QED  BY <4>1, <4>2, <4>3
    <3>3. ~cfg["led_denied_enabled"]
      BY <1>3, <3>1, <3>2, SMT DEF OutputsValid
    <3>4. ~InUse(f, cfg)
      BY <1>3, <3>3, SMT DEF InUse
    <3> QED  BY <1>3, <2>2, <3>4, Zenon DEF StandsIn
  <2> QED  BY <2>1, <2>2
<1>4. CASE f \notin Pins /\ f \notin Bytes /\ f = "port"
  <2>1. CASE n \in UInt16s
    <3>1. n \in Width(f)
      BY <1>4, <2>1, SMT DEF Width
    <3> QED  BY <3>1, NumberParsedBack
  <2>2. CASE n \notin UInt16s
    <3>1. cfg[f] = 0
      BY <1>4, <2>2, SMT DEF ParsedNumber
    <3>2. ~cfg["mqtt_enabled"]
      BY <1>4, <3>1, Zenon DEF MqttValid
    <3>3. ~InUse(f, cfg)
      BY <1>4, <3>2, SMT DEF InUse
    <3> QED  BY <1>4, <2>2, <3>3, Zenon DEF StandsIn
  <2> QED  BY <2>1, <2>2
<1>5. CASE f \notin Pins /\ f \notin Bytes /\ f = "unlock_ms"
  <2>1. cfg[f] = AtLeastZero(n)
    BY <1>5, Zenon DEF ParsedNumber
  <2>2. cfg[f] >= 100
    BY <1>5, <2>1, SMT DEF OutputsValid, AtLeastZero
  <2> QED  BY <2>1, <2>2, SMT DEF AtLeastZero
<1>6. CASE /\ f \notin Pins /\ f \notin Bytes /\ f \in Words
           /\ f \notin {"buzzer_gain", "led_denied_ms", "port", "unlock_ms"}
  BY <1>6, Zenon DEF ParsedNumber
<1> QED  BY <1>1, <1>2, <1>3, <1>4, <1>5, <1>6, NumberKinds

(* A document that is accepted puts in use what it asks, and leaves alone   *)
(* what it does not name (app_config_from_json()): of every setting, in     *)
(* whatever state it meets the device.                                      *)
THEOREM AcceptedPutsInUse == Spec => []AcceptedAsAsked
<1>1. ASSUME NEW doc \in Documents, NEW f \in Fields, Valid(Merged(doc, running))
      PROVE  IF f \in Read(doc)
             THEN \/ Merged(doc, running)[f] = doc[f]
                  \/ StandsIn(f, doc[f], Merged(doc, running))
             ELSE Merged(doc, running)[f] = running[f]
  <2> DEFINE cfg == Merged(doc, running)
  <2>1. CASE f \notin Read(doc)
    BY <2>1, Zenon DEF Merged
  <2>2. CASE f \in Read(doc)
    <3>1. cfg[f] = Parsed(f, doc[f], running[f])
      BY <2>2, Zenon DEF Merged
    <3>2. OutputsValid(cfg) /\ MqttValid(cfg)
      BY <1>1, Zenon DEF Valid
    <3> HIDE DEF cfg
    <3>3. CASE f \in Numbers
      <4>1. doc[f] \in Int
        BY <2>2, <3>3, ImageIsDocument DEF Read, IsDocument
      <4>2. cfg[f] = ParsedNumber(f, doc[f])
        BY <3>1, <3>3, Zenon DEF Parsed
      <4>3. cfg[f] = doc[f] \/ StandsIn(f, doc[f], cfg)
        BY <3>2, <3>3, <4>1, <4>2, NumberAsAsked
      <4> QED  BY <2>2, <4>3 DEF cfg
    <3>4. CASE f \in Texts
      <4>1. cfg[f] = ParsedText(f, doc[f], running[f])
        BY <3>1, <3>4, KindsDisjoint, Zenon DEF Parsed
      <4>2. cfg[f] = doc[f] \/ StandsIn(f, doc[f], cfg)
        BY <3>4, <4>1, SMT DEF ParsedText, Secret, StandsIn
      <4> QED  BY <2>2, <4>2 DEF cfg
    <3>5. CASE f \notin Numbers \cup Texts
      <4>1. cfg[f] = doc[f] \/ StandsIn(f, doc[f], cfg)
        BY <3>1, <3>5, Zenon DEF Parsed, StandsIn
      <4> QED  BY <2>2, <4>1 DEF cfg
    <3> QED  BY <3>3, <3>4, <3>5
  <2> QED  BY <2>1, <2>2
<1>2. AcceptedAsAsked
  BY <1>1, Zenon DEF AcceptedAsAsked
<1> QED  BY <1>2, PTL

(* What the theorems assume of the defaults (app_config_defaults()) is a     *)
(* matter of the board's pins alone: all else in them passes validation on   *)
(* every chip.                                                               *)
THEOREM DefaultsNeedPins == Valid(Defaults) <=> PinsValid(Defaults)
<1> DEFINE d == Defaults
<1>1. /\ d["spi_host"] = IF SpiHosts > 2 THEN 2 ELSE 1
      /\ d["spi_freq_hz"] = 1000000 /\ d["unlock_ms"] = 3000
  BY DEF Defaults, DefaultNumber, Fields, Nfc, Lock, Numbers, Pins, SpiPins, I2cPins, Bytes, Words
<1>2. d["bus"] = "spi"
  BY DEF Defaults, Fields, Nfc, Numbers, Pins, SpiPins, I2cPins, Bytes, Words, Texts, Secrets
<1>3. /\ ~d["led_denied_enabled"] /\ ~d["buzzer_enabled"]
      /\ ~d["mqtt_enabled"] /\ ~d["auth_enabled"]
  <2>1. \A f \in {"led_denied_enabled", "buzzer_enabled", "mqtt_enabled", "auth_enabled"} :
          /\ f \in Fields \ (Numbers \cup Texts) /\ f \notin {"chip", "bus"}
          /\ f \notin {"ha_discovery", "publish_taps"}
    BY DEF Fields, Feedback, Mqtt, Web, Numbers, Pins, SpiPins, I2cPins, Bytes, Words, Texts, Secrets
  <2>2. QED BY <2>1 DEF Defaults
<1>4. /\ d["group_id"] = "kconfig" /\ d["name"] = "kconfig"
      /\ d["hostname"] = "kconfig" /\ d["ap_password"] = "kconfig"
  BY DEF Defaults, DefaultText, Fields, Device, Net, Numbers, Pins, SpiPins, I2cPins, Bytes, Words,
         Texts, Secrets
<1> HIDE DEF d
<1>5. BusValid(d) /\ OutputsValid(d)
  BY <1>1, <1>2, <1>3 DEF BusValid, OutputsValid
<1>6. NamesValid(d) /\ MqttValid(d) /\ WebValid(d)
  <2>1. NamesValid(d)
    BY <1>4 DEF NamesValid, Empty
  <2>2. MqttValid(d) /\ WebValid(d)
    BY <1>3, Zenon DEF MqttValid, WebValid
  <2>3. QED BY <2>1, <2>2
<1>7. QED BY <1>5, <1>6 DEF Valid, d
===============================================================================
