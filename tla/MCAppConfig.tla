----------------------------- MODULE MCAppConfig -----------------------------
(* Documents and chips for the runs of AppConfig.                            *)
EXTENDS AppConfig, TLC

(* Values a client may give a setting, most of them at some limit.           *)
Asked ==
  [gpio |-> {4 + 256, 255, 18}, unlock_ms |-> {-1, 65536 + 3000},
   led_denied_enabled |-> {TRUE}, led_denied_gpio |-> {4}, led_denied_ms |-> {65536 + 50},
   bus |-> {"none", "uart"}, spi_freq_hz |-> {-1}, port |-> {65536 + 1883},
   mqtt_enabled |-> {TRUE}, web_password |-> {"", "short", "own"},
   ap_password |-> {"", "short"}, hostname |-> {""}]

One(f) == {f :> v : v \in Asked[f]}
Two(f, g) == {d @@ e : d \in One(f), e \in One(g)}

MCDocuments ==
  {<<>>, ("group_id" :> "malformed"),
   ("hostname" :> "kconfig") @@ ("group_id" :> Overlong) @@ ("buzzer_gain" :> 300),
   ("mqtt_enabled" :> TRUE) @@ ("broker" :> "own"),
   ("port" :> 8883) @@ ("web_password" :> "own"),
   ("auth_enabled" :> TRUE) @@ ("web_password" :> "own")}
    \cup UNION {One(f) : f \in DOMAIN Asked}
    \cup Two("led_denied_enabled", "led_denied_gpio")

(* The installer writes a name, a group, the lock's pin and the Wi-Fi.       *)
MCImages ==
  {("name" :> "own") @@ ("group_id" :> "own") @@ ("gpio" :> pin)
     @@ ("ssid" :> "own") @@ ("net_password" :> "own") : pin \in {2, 5}}

Pinned(sck, miso, mosi, cs) ==
  [p \in Pins |-> CASE p = "spi_sck" -> sck [] p = "spi_miso" -> miso
                    [] p = "spi_mosi" -> mosi [] p = "spi_cs" -> cs
                    [] p = "gpio" -> 2 [] OTHER -> Unset]

(* ESP32: gpio_rules.c, and boards/sdkconfig.defaults.esp32. *)
Esp32Gpios == (0..39) \ ({24} \cup 28..31)
Esp32Outputs == Esp32Gpios \ (34..39)
Esp32Restricted == (6..11) \cup {16, 17}
Esp32Pins == Pinned(18, 19, 23, 5)

(* ESP32-S3 with quad flash: gpio_rules.c, and                               *)
(* boards/sdkconfig.defaults.esp32s3.                                        *)
S3Gpios == (0..48) \ (22..25)
S3Restricted == (9..14) \cup {19, 20, 38, 39}
S3Pins == Pinned(12, 13, 11, 10)
=============================================================================
