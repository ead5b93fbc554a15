--------------------------- MODULE Configuration ---------------------------
(***************************************************************************)
(* The environment as the two processes read it: Load of the manager       *)
(* (config/config.go) and load of the sidecar (sidecar/config.py).         *)
(*                                                                         *)
(* A variable holds a token: what kind of text it is, the word or the      *)
(* number in it, and whether white space surrounds it.  An integer is      *)
(* itself; a decimal fraction of seconds and a duration are in             *)
(* nanoseconds, of which a second has so many, whole ones (the digits      *)
(* below, which Go drops, and the rounding of Python's floats are not      *)
(* told apart).  The spellings of a duration that only Go knows, "+10s",   *)
(* ".5s", "5.s" and the Greek mu, are a kind of their own.  What a parser  *)
(* returns is the set of its value, empty when it refuses the text.        *)
(***************************************************************************)
EXTENDS Integers

CONSTANTS
  Second,   \* the nanoseconds of a second, 10^9
  Limit     \* integers and durations are in -Limit .. Limit - 1, with Limit 2^63

ASSUME WidthAssumption ==
  /\ Second \in Nat \ {0}
  /\ Limit \in Nat
  /\ 60 * Second < Limit /\ 65536 < Limit

Variables ==
  {"MODE", "INVERTER_IP", "INVERTER_SERIAL", "INVERTER_PORT", "INVERTER_SOCKET_TIMEOUT",
   "SIDECAR_URL", "SIDECAR_STARTUP_TIMEOUT", "POLL_INTERVAL", "POLL_MAX_RETRIES",
   "FAILURE_THRESHOLD", "CONTROLS_ENABLED", "TOU_WINDOW", "RTC_SYNC_ENABLED",
   "RTC_DRIFT_THRESHOLD", "MQTT_BROKER_URL", "HA_OBJECT_ID_PREFIX",
   "SIDECAR_LISTEN_ADDR", "MOCK_FIXTURE"}

Kinds == {"unset", "empty", "word", "bool", "int", "fraction", "duration", "goDuration", "junk"}

Token(kind, word, n, padded) == [kind |-> kind, word |-> word, n |-> n, padded |-> padded]

\* The word of a token without one, the empty string.
NoWord == "none"

Unset == Token("unset", NoWord, 0, FALSE)

\* Nothing but white space, if that.
void(t) == t.kind \in {"unset", "empty"}

\* os.Getenv returns "".
blank(t) == void(t) /\ ~t.padded

\* What is left of the text without its padding.
text(t) == IF void(t) THEN NoWord ELSE t.word

-----------------------------------------------------------------------------
(* The manager.                                                            *)

\* A text that is used as it is, padding included.
raw(t) == <<text(t), t.padded>>

fits(n) == -Limit <= n /\ n < Limit

\* What is left of a product that does not fit 64 bits.
wrapped(n) == IF fits(n) THEN n ELSE ((n + Limit) % (2 * Limit)) - Limit

\* strconv.Atoi, of a text without padding.
Atoi(t) == {n \in {t.n} : t.kind = "int" /\ fits(n)}

parseInt(t, def) == IF blank(t) THEN {def} ELSE Atoi(t)

parseBool(t, def) ==
  IF blank(t) THEN {def}
  ELSE IF t.kind = "bool" \/ (t.kind = "int" /\ t.n \in {0, 1}) THEN {t.n = 1} ELSE {}

\* time.ParseDuration: a number with its unit, or a bare zero.
ParseDuration(t) ==
  {n \in {t.n} : \/ t.kind \in {"duration", "goDuration"} /\ fits(n)
                 \/ t.kind = "int" /\ n = 0}

parseDuration(t, def) ==
  IF blank(t) THEN {def} ELSE IF t.padded THEN {} ELSE ParseDuration(t)

\* Mutant: the unit of a bare number is forgotten.
parseDurationOrNanos(t, def) ==
  IF blank(t) THEN {def}
  ELSE IF t.padded THEN {}
  ELSE IF Atoi(t) # {} THEN Atoi(t)
  ELSE ParseDuration(t)

parseDurationOrSeconds(t, def) ==
  IF blank(t) THEN {def}
  ELSE IF t.padded THEN {}
  ELSE IF Atoi(t) # {} THEN {wrapped(Second * n) : n \in Atoi(t)}
  ELSE ParseDuration(t)

\* A URL or a slug: its default when blank, and the pattern allows no space.
wellFormed(t) == blank(t) \/ (t.kind = "word" /\ ~t.padded)

Mode(env) ==
  LET t == env["MODE"]
  IN IF blank(t) THEN "live" ELSE IF t.padded THEN "invalid" ELSE t.word

\* The parsed values, in the order of Load; a problem leaves one of them empty.
parsed(env) ==
  [port |-> {p \in parseInt(env["INVERTER_PORT"], 8899) : p \in 1 .. 65535},
   timeout |-> {d \in parseDurationOrSeconds(env["INVERTER_SOCKET_TIMEOUT"], 10 * Second) : d > 0},
   startup |-> {d \in parseDuration(env["SIDECAR_STARTUP_TIMEOUT"], 30 * Second) : d >= 0},
   interval |-> {d \in parseDuration(env["POLL_INTERVAL"], 60 * Second) : d >= 5 * Second},
   retries |-> {n \in parseInt(env["POLL_MAX_RETRIES"], 3) : n >= 0},
   threshold |-> {n \in parseInt(env["FAILURE_THRESHOLD"], 3) : n >= 1},
   controls |-> parseBool(env["CONTROLS_ENABLED"], TRUE),
   sync |-> parseBool(env["RTC_SYNC_ENABLED"], FALSE),
   drift |-> {d \in parseDuration(env["RTC_DRIFT_THRESHOLD"], 60 * Second) : d > 0}]

\* Live needs the inverter's identity and a broker; an empty TOU_WINDOW is one
\* that turns the assertion off, and only an unset one takes the default.
valid(env) ==
  /\ Mode(env) \in {"live", "mock"}
  /\ Mode(env) = "live" =>
       \A v \in {"INVERTER_IP", "INVERTER_SERIAL", "MQTT_BROKER_URL"} : ~blank(env[v])
  /\ wellFormed(env["MQTT_BROKER_URL"])
  /\ wellFormed(env["SIDECAR_URL"])
  /\ wellFormed(env["HA_OBJECT_ID_PREFIX"])
  /\ env["TOU_WINDOW"].kind \in {"unset", "empty", "word"} /\ ~env["TOU_WINDOW"].padded
  /\ \A k \in DOMAIN parsed(env) : parsed(env)[k] # {}

the(S) == CHOOSE x \in S : TRUE

\* The manager's configuration, if it starts.
Load(env) ==
  IF valid(env)
  THEN {[mode |-> Mode(env),
         serial |-> raw(env["INVERTER_SERIAL"]),
         ip |-> raw(env["INVERTER_IP"]),
         port |-> the(parsed(env).port),
         timeout |-> the(parsed(env).timeout),
         controls |-> the(parsed(env).controls),
         broker |-> ~blank(env["MQTT_BROKER_URL"])]}
  ELSE {}

-----------------------------------------------------------------------------
(* The sidecar, which strips white space from every variable, and whose    *)
(* numbers have no width.                                                  *)

parse_duration_or_seconds(t, def) ==
  IF void(t) THEN {def}
  ELSE IF t.kind = "int" THEN {Second * t.n}
  ELSE IF t.kind \in {"fraction", "duration"} THEN {t.n} ELSE {}

parse_port(t) ==
  IF void(t) THEN {8899} ELSE IF t.kind = "int" THEN {t.n} ELSE {}

\* The sidecar's configuration, if it starts.
load(env) ==
  LET mode == text(env["MODE"])
      port == parse_port(env["INVERTER_PORT"])
      timeout == {d \in parse_duration_or_seconds(env["INVERTER_SOCKET_TIMEOUT"], 10 * Second) :
                    d > 0}
      accepted ==
        /\ mode \in {"live", "mock"}
        /\ mode = "live" => ~void(env["INVERTER_IP"]) /\ ~void(env["INVERTER_SERIAL"])
        /\ port # {}
        /\ timeout # {}
        /\ env["SIDECAR_LISTEN_ADDR"].kind \in {"unset", "empty", "word"}
        /\ mode = "mock" => env["MOCK_FIXTURE"].kind \in {"unset", "empty", "word"}
  IN IF accepted
     THEN {[mode |-> mode,
            serial |-> text(env["INVERTER_SERIAL"]),
            ip |-> text(env["INVERTER_IP"]),
            port |-> the(port),
            timeout |-> the(timeout)]}
     ELSE {}
=============================================================================
