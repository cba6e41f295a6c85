------------------------------ MODULE AppConfig ------------------------------
(***************************************************************************)
(* The configuration document of app_config.c: the settings in use         *)
(* (s_config), the document in NVS, and the ways from one to the other.    *)
(*                                                                         *)
(* A document names some of the settings and gives them JSON values; it is *)
(* merged into a copy of the settings in use, each value through the       *)
(* conversion of its field, validated as a whole, written to NVS and only  *)
(* then put to use.  At boot the stored document is merged into the        *)
(* defaults.  Documents come from the pages, the console's and the setup   *)
(* page's Wi-Fi commands, and the installer that writes an NVS image.      *)
(* A step is a whole request: ReaderIdentity interleaves two of them.      *)
(***************************************************************************)
EXTENDS Integers

CONSTANTS
    Documents,      \* what clients post, edits of the form included
    Images,         \* documents the installer may have written
    Gpios,          \* pins of this chip
    OutputGpios,    \* those that can drive an output
    Restricted,     \* those reserved for flash or PSRAM
    SpiHosts,       \* SOC_SPI_PERIPH_NUM
    KconfigPins,    \* the default of every pin
    FlashFails,     \* TRUE when an NVS write or erase may fail
    MaxSaves        \* saves between two resets (a bound)

VARIABLES
    stored,     \* the document in NVS, an empty one where there is none
    running,    \* s_config
    answer,     \* how the last request was answered
    saves       \* saves since the last reset

vars == <<stored, running, answer, saves>>

-----------------------------------------------------------------------------
(* The fields of app_config_t, by the section of the document they are in.   *)

Device == {"name", "group_id"}
Nfc == {"chip", "bus", "spi_host", "spi_sck", "spi_miso", "spi_mosi", "spi_cs", "spi_freq_hz",
        "i2c_sda", "i2c_scl", "i2c_freq_hz", "i2c_addr", "irq_pin", "rst_pin"}
Lock == {"gpio", "active_low", "unlock_ms"}
Net == {"ssid", "hostname", "net_password", "ap_password"}
Mqtt == {"mqtt_enabled", "broker", "port", "mqtt_username", "mqtt_password", "client_id",
         "base_topic", "use_ssl", "allow_insecure", "ha_discovery", "publish_taps"}
Web == {"auth_enabled", "web_username", "web_password"}
Feedback == {"led_enabled", "led_gpio", "led_active_low", "led_denied_enabled",
             "led_denied_gpio", "led_denied_active_low", "led_denied_ms", "buzzer_enabled",
             "buzzer_gpio", "buzzer_gain", "tune_granted", "tune_denied"}
Fields == Device \cup Nfc \cup Lock \cup Net \cup Mqtt \cup Web \cup Feedback

(* Their types, where the conversion depends on it.                          *)
SpiPins == {"spi_sck", "spi_miso", "spi_mosi", "spi_cs"}
I2cPins == {"i2c_sda", "i2c_scl"}
Pins == SpiPins \cup I2cPins \cup
        {"irq_pin", "rst_pin", "gpio", "led_gpio", "led_denied_gpio", "buzzer_gpio"}   \* int8_t
Bytes == {"spi_host", "i2c_addr"}                                                     \* uint8_t
Words == {"spi_freq_hz", "i2c_freq_hz"}                                               \* uint32_t
Secrets == {"net_password", "ap_password", "mqtt_password", "web_password"}
Names == [chip |-> {"none", "pn532", "pn7160", "st25r3916"}, bus |-> {"none", "spi", "i2c"}]
Texts == {"name", "group_id", "ssid", "hostname", "broker", "mqtt_username", "client_id",
          "base_topic", "web_username", "tune_granted", "tune_denied"} \cup Secrets

(* A text is "", "short" or "obvious" for a password, what "kconfig" says,   *)
(* "malformed", or the client's "own".  One longer than its field is "cut".  *)
Empty == ""
Overlong == "overlong"

Unset == -1
MaxInt == 2147483647
Int8s == -128..127
UInt8s == 0..255
UInt16s == 0..65535

(* Documents name fields of the configuration, and give numbers to those     *)
(* that are numbers.                                                         *)
Numbers == Pins \cup Bytes \cup Words \cup {"unlock_ms", "led_denied_ms", "port", "buzzer_gain"}
IsDocument(doc) ==
  /\ DOMAIN doc \subseteq Fields
  /\ \A f \in DOMAIN doc \cap Numbers : doc[f] \in Int

ASSUME DocumentsAssumption ==
  \A doc \in Documents \cup Images : IsDocument(doc)
ASSUME ChipAssumption ==
  /\ SpiHosts \in Nat /\ MaxSaves \in Nat
  /\ KconfigPins \in [Pins -> Int8s]

-----------------------------------------------------------------------------
(* Defaults and validation *)

(* app_config_defaults() *)
DefaultNumber(f) ==
  IF f \in Pins THEN KconfigPins[f]
  ELSE IF f = "spi_host" THEN IF SpiHosts > 2 THEN 2 ELSE 1
  ELSE IF f = "i2c_addr" THEN 36
  ELSE IF f = "spi_freq_hz" THEN 1000000
  ELSE IF f = "i2c_freq_hz" THEN 400000
  ELSE IF f = "unlock_ms" THEN 3000
  ELSE IF f = "led_denied_ms" THEN 1000
  ELSE IF f = "port" THEN 1883
  ELSE 80     \* the buzzer's gain
DefaultText(f) ==
  IF f \in {"name", "group_id", "hostname", "ap_password", "client_id"} THEN "kconfig"
  ELSE IF f \in {"base_topic", "web_username", "tune_granted", "tune_denied"} THEN "own"
  ELSE Empty
Defaults ==
  [f \in Fields |-> IF f \in Numbers THEN DefaultNumber(f)
                   ELSE IF f \in Texts THEN DefaultText(f)
                   ELSE IF f = "chip" THEN "none"
                   ELSE IF f = "bus" THEN "spi"
                   ELSE f \in {"ha_discovery", "publish_taps"}]   \* the switches

(* gpio_rules_reject_reason(): a pin of this chip, not reserved, and able to *)
(* do what it is for.                                                        *)
Inputs == {"spi_miso", "irq_pin"}
PinAllowed(pin, use) ==
  /\ pin \in Gpios \ Restricted
  /\ use \notin Inputs => pin \in OutputGpios

UsedPins(cfg) ==
  {"gpio"}
    \cup {p \in SpiPins : cfg["bus"] = "spi"} \cup {p \in I2cPins : cfg["bus"] = "i2c"}
    \cup {p \in {"irq_pin", "rst_pin"} : cfg[p] # Unset}
    \cup {p \in {"led_gpio"} : cfg["led_enabled"]}
    \cup {p \in {"led_denied_gpio"} : cfg["led_denied_enabled"]}
    \cup {p \in {"buzzer_gpio"} : cfg["buzzer_enabled"]}

PinsValid(cfg) ==
  /\ \A p \in UsedPins(cfg) : cfg[p] # Unset /\ PinAllowed(cfg[p], p)
  /\ \A p, q \in UsedPins(cfg) : p # q => cfg[p] # cfg[q]

BusValid(cfg) ==
  /\ cfg["bus"] = "spi" =>
       /\ cfg["spi_host"] \in {1, 2} /\ (cfg["spi_host"] = 2 => SpiHosts > 2)
       /\ 100000 <= cfg["spi_freq_hz"] /\ cfg["spi_freq_hz"] <= 20000000
  /\ cfg["bus"] = "i2c" =>
       /\ 50000 <= cfg["i2c_freq_hz"] /\ cfg["i2c_freq_hz"] <= 1000000
       /\ cfg["i2c_addr"] <= 127

OutputsValid(cfg) ==
  /\ 100 <= cfg["unlock_ms"] /\ cfg["unlock_ms"] <= 60000
  /\ cfg["led_denied_enabled"] => 50 <= cfg["led_denied_ms"] /\ cfg["led_denied_ms"] <= 10000
  /\ cfg["buzzer_enabled"] => cfg["buzzer_gain"] <= 100

NamesValid(cfg) ==
  /\ cfg["group_id"] \in {"kconfig", "own", "cut"}
  /\ cfg["name"] # Empty /\ cfg["hostname"] # Empty
  /\ cfg["ap_password"] # "short"

MqttValid(cfg) ==
  cfg["mqtt_enabled"] =>
    /\ cfg["broker"] # Empty /\ cfg["port"] # 0 /\ cfg["client_id"] # Empty
    /\ cfg["base_topic"] \notin {Empty, "malformed"}

WebValid(cfg) ==
  cfg["auth_enabled"] =>
    cfg["web_username"] # Empty /\ cfg["web_password"] \notin {Empty, "short", "obvious"}

(* app_config_validate() *)
Valid(cfg) ==
  /\ PinsValid(cfg) /\ BusValid(cfg) /\ OutputsValid(cfg)
  /\ NamesValid(cfg) /\ MqttValid(cfg) /\ WebValid(cfg)

-----------------------------------------------------------------------------
(* From a document to the settings and back *)

Int8(n) == ((n + 128) % 256) - 128
AtLeastZero(n) == IF n < 0 THEN 0 ELSE n
AtMost(n, limit) == IF n > limit THEN limit ELSE n

(* Mutant: the time is cast as it comes. *)
DeniedMsCast(n) == AtLeastZero(n) % 65536

(* "Clamped rather than rejected: validate() is what reports an out-of-range *)
(* time, and it needs a value that survives the cast."                       *)
DeniedMs(n) == AtMost(AtLeastZero(n), 65535)

(* Mutant: an empty password is a password. *)
SecretTaken(v, old) == v

(* json_get_string() with keep_when_empty *)
Secret(v, old) == IF v = Empty THEN old ELSE v

(* What the setting f becomes when a document gives it the value v. A word  *)
(* is kept as the signed number of the same bits.                           *)
ParsedNumber(f, n) ==
  IF f \in Pins THEN Int8(n)
  ELSE IF f \in Bytes THEN n % 256
  ELSE IF f = "buzzer_gain" THEN AtLeastZero(n) % 256
  ELSE IF f = "unlock_ms" THEN AtLeastZero(n)
  ELSE IF f = "led_denied_ms" THEN DeniedMs(n)
  ELSE IF f = "port" /\ n \notin UInt16s THEN 0
  ELSE n
ParsedText(f, text, old) ==
  IF text = Overlong THEN "cut"
  ELSE IF f \in Secrets THEN Secret(text, old) ELSE text
Parsed(f, v, old) ==
  IF f \in Numbers THEN ParsedNumber(f, v)
  ELSE IF f \in Texts THEN ParsedText(f, v, old)
  ELSE IF f \in DOMAIN Names /\ v \notin Names[f] THEN old
  ELSE v

Blank == [f \in {} |-> Empty]

(* The port is read where the web section is. *)
Read(doc) == IF Web \cap DOMAIN doc = {} THEN DOMAIN doc \ {"port"} ELSE DOMAIN doc

(* app_config_from_json(), up to its validation. *)
Merged(doc, cfg) ==
  LET read == Read(doc)
  IN  [f \in Fields |-> IF f \in read THEN Parsed(f, doc[f], cfg[f]) ELSE cfg[f]]

(* Mutant: NVS gets what a page gets. *)
PrintedMasked(cfg, secrets) ==
  [f \in Fields |-> IF f \in Secrets THEN Empty
                   ELSE IF f \in Words /\ cfg[f] < 0 THEN MaxInt
                   ELSE cfg[f]]

(* app_config_to_json(): every field, with the secrets or without. A word   *)
(* above 2^31 is read back as the largest int.                              *)
Printed(cfg, secrets) ==
  [f \in Fields |-> IF f \in Secrets /\ ~secrets THEN Empty
                   ELSE IF f \in Words /\ cfg[f] < 0 THEN MaxInt
                   ELSE cfg[f]]

(* Mutant: a document that was stored is taken to be valid. *)
LoadedTrusting(doc) == Merged(doc, Defaults)

(* load_from_nvs(): a stored document that is not valid is not used at all. *)
Loaded(doc) ==
  IF Valid(Merged(doc, Defaults)) THEN Merged(doc, Defaults) ELSE Defaults

(* The default host name is made this device's own. *)
WithHostname(cfg) ==
  IF cfg["hostname"] = "kconfig" THEN [cfg EXCEPT !["hostname"] = "suffixed"] ELSE cfg

(* app_config_init() *)
Booted(doc) == WithHostname(Loaded(doc))

-----------------------------------------------------------------------------
Init ==
  /\ stored \in Images \cup {Blank}
  /\ running = Booted(stored)
  /\ answer = "none" /\ saves = 0

Restart ==
  /\ running' = Booted(stored)
  /\ answer' = "none"
  /\ UNCHANGED <<stored, saves>>

(* app_config_save() *)
Save(cfg) ==
  IF Valid(cfg)
  THEN \/ /\ stored' = Printed(cfg, TRUE) /\ running' = cfg
          /\ answer' = "saved" /\ saves < MaxSaves /\ saves' = saves + 1
       \/ /\ FlashFails
          /\ answer' = "failed" /\ UNCHANGED <<stored, running, saves>>
  ELSE answer' = "rejected" /\ UNCHANGED <<stored, running, saves>>

(* GET /api/config: what a page is shown. *)
Form == Printed(running, FALSE)

(* POST /api/config: a patch, or the form as the page shows it with edits.  *)
PostConfig(doc) == Save(Merged(doc, running))
Edited(edits) == [f \in Fields |-> IF f \in DOMAIN edits THEN edits[f] ELSE Form[f]]
PostForm(edits) == PostConfig(Edited(edits))

(* The Wi-Fi commands of the console and of the setup page put the ssid and *)
(* the password in place themselves; the console's may leave the password.  *)
WifiPasswords == {Empty, "own", running["net_password"]}
SetWifi(ssid, password) ==
  Save([running EXCEPT !["ssid"] = ssid, !["net_password"] = password])

(* app_config_reset() *)
Reset ==
  \/ /\ stored' = Blank /\ running' = Defaults
     /\ answer' = "saved" /\ saves' = 0
  \/ /\ FlashFails
     /\ answer' = "failed" /\ UNCHANGED <<stored, running, saves>>

Next ==
  \/ Restart \/ Reset
  \/ \E doc \in Documents : PostConfig(doc) \/ PostForm(doc)
  \/ \E password \in WifiPasswords : SetWifi("own", password)

Spec == Init /\ [][Next]_vars

-----------------------------------------------------------------------------
(* The settings in use are always valid, after a boot from an image or a    *)
(* document of any age as after a request: no two functions on one pin, no  *)
(* login without a password, no time that was not asked within limits.      *)
RunningIsValid == Valid(running)

(* A restart brings back every setting that was in use: what was answered   *)
(* as saved, and what was not touched.  Two things it changes: the default  *)
(* host name, and a negative frequency asked for a bus that is not used.    *)
Kept(f) ==
  \/ running'[f] = running[f]
  \/ f = "hostname" /\ running[f] = "kconfig"
  \/ f \in Words /\ running[f] < 0
RestartKeeps == [][Restart => \A f \in Fields : Kept(f)]_vars

(* Saving a page that was shown and not edited is accepted and changes      *)
(* nothing, the secrets the page never saw included.                        *)
UneditedFormKeeps ==
  LET again == Merged(Form, running) IN
  Valid(again) /\ \A f \in Fields : again[f] = running[f] \/ (f \in Words /\ running[f] < 0)

(* A document that is accepted puts in use what it asks.  A value that      *)
(* another stands in for is one its field cannot hold, and never a time or  *)
(* a frequency or a port that something uses.  (A port is asked for only    *)
(* with a web section beside it: Read.)                                     *)
InUse(f, cfg) ==
  CASE f = "unlock_ms" -> TRUE
    [] f = "led_denied_ms" -> cfg["led_denied_enabled"]
    [] f = "port" -> cfg["mqtt_enabled"]
    [] f = "spi_freq_hz" -> cfg["bus"] = "spi"
    [] f = "i2c_freq_hz" -> cfg["bus"] = "i2c"
    [] OTHER -> FALSE
StandsIn(f, v, cfg) ==
  \/ f \in Pins /\ v \notin Int8s
  \/ f \in Bytes \cup {"buzzer_gain"} /\ v \notin UInt8s
  \/ f \in {"led_denied_ms", "port"} /\ v \notin UInt16s /\ ~InUse(f, cfg)
  \/ f \in DOMAIN Names /\ v \notin Names[f]
  \/ f \in Secrets /\ v = Empty
  \/ f \in Texts /\ v = Overlong
AcceptedAsAsked ==
  \A doc \in Documents :
    LET cfg == Merged(doc, running) IN
    Valid(cfg) => \A f \in Fields :
      IF f \in Read(doc) THEN cfg[f] = doc[f] \/ StandsIn(f, doc[f], cfg)
      ELSE cfg[f] = running[f]

(* "wifi saves credentials and survives a restart, so you can get the       *)
(* device onto your network without ever opening the web UI": what joins a  *)
(* network is not refused for what somebody else left in the settings.      *)
WifiIsSaved ==
  [][\A password \in WifiPasswords : SetWifi("own", password) => answer' # "rejected"]_vars
=============================================================================
