---------------------------- MODULE MCDocuments ----------------------------
(***************************************************************************)
(* Instances of Documents for TLC: a live environment and those that       *)
(* differ from it in one variable, or in two of the shared ones.           *)
(***************************************************************************)
EXTENDS Documents

WordToken(w) == Token("word", w, 0, FALSE)
IntToken(n) == Token("int", NoWord, n, FALSE)
BoolToken(n) == Token("bool", NoWord, n, FALSE)
Empty == Token("empty", NoWord, 0, FALSE)
Junk == Token("junk", NoWord, 0, FALSE)

\* As it is, and with a line feed at its end.
Padded(S) == S \cup {[t EXCEPT !.padded = TRUE] : t \in S \ {Unset}}

Live ==
  [v \in Variables |->
     CASE v = "MODE" -> WordToken("live")
       [] v \in {"INVERTER_IP", "INVERTER_SERIAL", "MQTT_BROKER_URL"} -> WordToken("set")
       [] OTHER -> Unset]

\* Durations as both languages spell them, and as only Go does.
Durations(S) == {Token(k, NoWord, n, FALSE) : k \in {"duration", "goDuration"}, n \in S}

\* The numbers at the limits of the checks and of the integers: seconds that are
\* just too many for a duration, and that come back as a positive one.
Numeric == {IntToken(n) : n \in {-1, 0, 1, 5, 13107, 13108, 65535, 65536, 131072}}
             \cup Durations({-1, 0, 1, 49, 50, 131072})
             \cup {Token("fraction", NoWord, 105, FALSE)}

Choices(v) ==
  CASE v = "MODE" -> Padded({WordToken("live"), WordToken("mock"), WordToken("other"), Empty, Unset})
    [] v \in {"INVERTER_IP", "INVERTER_SERIAL"} -> Padded({WordToken("set"), Empty, Unset})
    [] v \in {"CONTROLS_ENABLED", "RTC_SYNC_ENABLED"} ->
         Padded({BoolToken(0), BoolToken(1), IntToken(0), IntToken(2), Empty, Junk, Unset})
    [] v \in {"SIDECAR_URL", "MQTT_BROKER_URL", "HA_OBJECT_ID_PREFIX", "TOU_WINDOW",
              "SIDECAR_LISTEN_ADDR", "MOCK_FIXTURE"} ->
         Padded({WordToken("set"), Empty, Junk, Unset})
    [] OTHER -> Padded(Numeric \cup {Empty, Junk, Unset})

Differing(e, v) == {[e EXCEPT ![v] = t] : t \in Choices(v)}

Shared == {"MODE", "INVERTER_SERIAL", "INVERTER_PORT", "INVERTER_SOCKET_TIMEOUT"}

MCEnvs ==
  (UNION {Differing(Live, v) : v \in Variables})
    \cup UNION {Differing(e, v) : e \in Differing(Live, "MODE"), v \in Shared}

\* A live manager with its controls, and one without.
MCLive == {Live, [Live EXCEPT !["CONTROLS_ENABLED"] = BoolToken(0)]}

MCStarts == <<MCEnvs, MCLive>>
MCTwice == <<MCLive, MCLive>>

\* Powers of either sign, the negative ones wider than one word.
MCBatteries == {-70000, 0, 520}
MCGrids == {-70000, 300}

\* The last second of a leap day, a time the host skips, and one that no calendar has.
MCClocks == <<<<2024, 2, 29, 23, 59, 59>>, <<2024, 3, 31, 1, 30, 0>>, <<2023, 14, 30, 24, 0, 60>>>>

\* An hour, on the last Sunday of March.
MCGap == [n \in secondsOf(<<2024, 3, 31, 1, 0, 0>>) .. secondsOf(<<2024, 3, 31, 1, 59, 59>>) |-> 3600]
=============================================================================
