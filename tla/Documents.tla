----------------------------- MODULE Documents -----------------------------
(***************************************************************************)
(* From the environment and the registers to what Home Assistant is told:  *)
(* the two processes read their configuration, the manager announces its   *)
(* entities (cmd/serve.go republisher.run), and its polls read the two     *)
(* telemetry blocks (publisher/collect.go), frame by frame while the       *)
(* inverter goes on, and build the state document.                         *)
(*                                                                         *)
(* Composes Configuration, Discovery and Telemetry.  Setpoints, cache,     *)
(* retries and the reconnect hook's copy of the document are Scheduler's,  *)
(* the order of start and shutdown is Lifecycle's.                         *)
(***************************************************************************)
EXTENDS Configuration, Discovery, Telemetry

CONSTANTS
  Words,          \* the words a variable may hold
  Envs,           \* for each start in turn, the environments it may find
  Batteries,      \* battery powers in watts, positive when charging
  Grids,          \* grid powers in watts, positive when exporting
  Imports,        \* values of the import counter
  Clocks,         \* a sequence of what the registers of the inverter's clock may hold
  Codes,          \* values of the status, the fault and the mode registers
  Breaks,         \* bound on the entities after whose configs a publish may fail
  MaxChanges,     \* bound on the changes of the inverter
  MaxMishaps      \* bound on failing frames and publishes and lost connections

Environments == [Variables -> [kind : Kinds, word : Words, n : Int, padded : BOOLEAN]]

ASSUME EnvsAssumption == NoWord \in Words /\ Envs \in Seq(SUBSET Environments)
ASSUME DocumentBoundAssumption == Breaks \cup {MaxChanges, MaxMishaps} \subseteq Nat

VARIABLES
  plant,        \* what the inverter measures
  proc,         \* "off", "boot" or "up"
  env,          \* the environment it is started in
  cfg,          \* what the configuration of the manager says of broker and controls
  sidecar,      \* the sidecar has accepted its configuration
  retained,     \* the discovery topics with a retained config
  announced,    \* every step of the last republish in this session succeeded
  subscribed,   \* the command topics are subscribed in this session
  snapshot,     \* the blocks the poll has read
  seen,         \* history: what the inverter measured since the poll began
  built,        \* the last document built, and what was measured in its poll
  budget        \* what is left of the bounds

vars == <<plant, proc, env, cfg, sidecar, retained, announced, subscribed,
          snapshot, seen, built, budget>>

process == <<proc, env, cfg, sidecar>>
broker == <<retained, announced, subscribed>>
poll == <<snapshot, seen, built>>

Mishap == /\ budget.mishaps > 0
          /\ budget' = [budget EXCEPT !.mishaps = @ - 1]

-----------------------------------------------------------------------------
(* The inverter.                                                           *)

Plants == [battery : Batteries, grid : Grids, import : Imports,
           clock : 1 .. Len(Clocks), code : Codes]

high(v) == (v \div Word) % Word
low(v) == v % Word
magnitude(v) == IF v < 0 THEN -v ELSE v

\* Tenths of an ampere at 50 V.
current(v) == magnitude(v) \div 5

\* What is measured fits the registers that hold it.
ASSUME PlantAssumption ==
  /\ 0 \in Batteries /\ Batteries \cup Grids \subseteq Int
  /\ \A b \in Batteries : current(b) < Word \div 2
  /\ \A g \in Grids : g \div Word \in -(Word \div 2) .. (Word \div 2) - 1
  /\ Imports \subseteq Nat /\ \A i \in Imports : i \div Word < Word
  /\ Codes \subseteq 0 .. Word - 1
  /\ Clocks \in Seq([1 .. rtcRegisterCount -> Nat])
  /\ \A i \in DOMAIN Clocks : Clocks[i][1] >= rtcEpochYear

InputBank == 33022 .. 33214

\* The input registers: battery values as magnitudes beside a direction flag,
\* the grid power in two's complement, the wider values high word first.
input(p) ==
  [a \in InputBank |->
     CASE a = 33022 -> Clocks[p.clock][1] - rtcEpochYear
       [] a \in 33023 .. 33027 -> Clocks[p.clock][a - 33021]
       [] a = 33130 -> high(p.grid)
       [] a = 33131 -> low(p.grid)
       [] a = 33134 -> current(p.battery)
       [] a = 33135 -> IF p.battery < 0 THEN 1 ELSE 0
       [] a = 33149 -> high(magnitude(p.battery))
       [] a = 33150 -> low(magnitude(p.battery))
       [] a = 33169 -> high(p.import)
       [] a = 33170 -> low(p.import)
       [] a \in {33095, 33132, 33145, 33146} -> p.code
       [] OTHER -> 1]

\* A measurement changes, at any time that a manager may see it; a counter
\* only grows.
Change ==
  /\ proc = "up"
  /\ budget.changes > 0
  /\ budget' = [budget EXCEPT !.changes = @ - 1]
  /\ \/ \E b \in Batteries \ {plant.battery} : plant' = [plant EXCEPT !.battery = b]
     \/ \E g \in Grids \ {plant.grid} : plant' = [plant EXCEPT !.grid = g]
     \/ \E i \in Imports : i > plant.import /\ plant' = [plant EXCEPT !.import = i]
     \/ \E c \in DOMAIN Clocks \ {plant.clock} : plant' = [plant EXCEPT !.clock = c]
     \/ \E c \in Codes \ {plant.code} : plant' = [plant EXCEPT !.code = c]
  /\ seen' = IF seen = {} THEN {} ELSE seen \cup {plant'}
  /\ UNCHANGED <<process, broker, snapshot, built>>

-----------------------------------------------------------------------------
(* The processes.                                                          *)

NoEnv == [v \in Variables |-> Unset]

NoConfig == [controls |-> FALSE, broker |-> FALSE]

\* Both containers are started in one environment.
Boot ==
  /\ proc = "off"
  /\ budget.boots > 0
  /\ budget' = [budget EXCEPT !.boots = @ - 1]
  /\ proc' = "boot"
  /\ env' \in Envs[Len(Envs) - budget.boots + 1]
  /\ UNCHANGED <<plant, cfg, sidecar, broker, poll>>

\* Each fails fast, by itself.
LoadConfig ==
  /\ proc = "boot"
  /\ IF Load(env) = {}
     THEN proc' = "off" /\ cfg' = NoConfig /\ sidecar' = FALSE
     ELSE /\ proc' = "up"
          /\ cfg' = [k \in DOMAIN NoConfig |-> the(Load(env))[k]]
          /\ sidecar' = (load(env) # {})
  /\ env' = NoEnv
  /\ UNCHANGED <<plant, broker, poll, budget>>

\* The pod stops or crashes; the broker keeps what is retained.
Stop ==
  /\ proc = "up"
  /\ proc' = "off"
  /\ cfg' = NoConfig
  /\ sidecar' = FALSE
  /\ announced' = FALSE
  /\ subscribed' = FALSE
  /\ snapshot' = <<>>
  /\ seen' = {}
  /\ UNCHANGED <<plant, env, retained, built, budget>>

-----------------------------------------------------------------------------
(* republisher.run, at startup and on every reconnect: each step may fail  *)
(* and never keeps the next from being tried.                              *)

\* PublishDiscovery stops at the config that fails, after the first n.
published(n) == BuildDiscovery(n, cfg.controls)

Publish(n, removals, subscription) ==
  /\ retained' = (retained \cup published(n)) \ (IF removals THEN BuildDiscoveryRemovals ELSE {})
  /\ subscribed' = (cfg.controls /\ subscription)
  /\ UNCHANGED <<plant, process, poll>>

Republish ==
  /\ proc = "up" /\ cfg.broker /\ ~announced
  /\ Publish(Len(Catalogue), TRUE, TRUE)
  /\ announced' = TRUE
  /\ UNCHANGED budget

RepublishFails ==
  /\ proc = "up" /\ cfg.broker /\ ~announced
  /\ Mishap
  /\ \E n \in Breaks \cap 0 .. Len(Catalogue), removals, subscription \in BOOLEAN :
       Publish(n, removals, subscription)
  /\ announced' = FALSE

\* The session ends, and a new one begins without its subscription.
Reconnect ==
  /\ proc = "up" /\ announced
  /\ Mishap
  /\ announced' = FALSE
  /\ subscribed' = FALSE
  /\ UNCHANGED <<plant, process, retained, poll>>

-----------------------------------------------------------------------------
(* Collect: two blocks, and the decode.                                    *)

\* Block 1 and block 2 of the input bank.
Blocks == <<[base |-> 33022, count |-> 100], [base |-> 33122, count |-> 93]>>

\* Mutant: the first block twice.
readingFirst == Blocks[1]

reading == Blocks[Len(snapshot) + 1]

\* A frame returns the registers of one instant, all of them or too few
\* (the client does not count them).
ReadInput ==
  /\ proc = "up" /\ sidecar
  /\ Len(snapshot) < Len(Blocks)
  /\ \/ /\ snapshot' = Append(snapshot, [base |-> reading.base, len |-> reading.count,
                                         words |-> input(plant)])
        /\ UNCHANGED budget
     \/ /\ Mishap
        /\ \E n \in {0, 1, reading.count \div 2, reading.count - 1} :
             snapshot' = Append(snapshot, [base |-> reading.base, len |-> n,
                                           words |-> input(plant)])
  /\ seen' = seen \cup {plant}
  /\ UNCHANGED <<plant, process, broker, built>>

ReadInputFails ==
  /\ proc = "up"
  /\ Len(snapshot) < Len(Blocks)
  /\ IF sidecar THEN Mishap ELSE UNCHANGED budget
  /\ snapshot' = <<>>
  /\ seen' = {}
  /\ UNCHANGED <<plant, process, broker, built>>

\* The reading is decoded and built into the document, or the poll fails.
PublishState ==
  /\ Len(snapshot) = Len(Blocks)
  /\ IF decodable(snapshot)
     THEN \E t \in DecodeTelemetry(snapshot) : built' = [doc |-> BuildState(t), seen |-> seen]
     ELSE UNCHANGED built
  /\ snapshot' = <<>>
  /\ seen' = {}
  /\ UNCHANGED <<plant, process, broker, budget>>

-----------------------------------------------------------------------------
NoDocument == [doc |-> [k \in {} |-> 0], seen |-> {}]

\* One measurement to begin with, from which the others are reached by changes;
\* an earlier version may have left its switch in the broker.
Init ==
  /\ plant \in {p \in Plants : /\ p.clock = 1 /\ p.battery = 0
                              /\ \A q \in Plants : /\ p.import <= q.import
                                                   /\ p.grid <= q.grid
                                                   /\ p.code <= q.code}
  /\ proc = "off"
  /\ env = NoEnv
  /\ cfg = NoConfig
  /\ sidecar = FALSE
  /\ retained \in SUBSET BuildDiscoveryRemovals
  /\ announced = FALSE
  /\ subscribed = FALSE
  /\ snapshot = <<>>
  /\ seen = {}
  /\ built = NoDocument
  /\ budget = [changes |-> MaxChanges, boots |-> Len(Envs), mishaps |-> MaxMishaps]

Next == Change \/ Boot \/ LoadConfig \/ Stop \/ Republish \/ RepublishFails
          \/ Reconnect \/ ReadInput \/ ReadInputFails \/ PublishState

Spec == Init /\ [][Next]_vars

-----------------------------------------------------------------------------
(* Properties.                                                             *)

TypeOK ==
  /\ plant \in Plants
  /\ proc \in {"off", "boot", "up"}
  /\ env \in Environments
  /\ cfg \in [controls : BOOLEAN, broker : BOOLEAN]
  /\ sidecar \in BOOLEAN
  /\ retained \subseteq Topics
  /\ announced \in BOOLEAN
  /\ subscribed \in BOOLEAN
  /\ snapshot \in Seq([base : Nat, len : Nat, words : [InputBank -> Int]])
  /\ Len(snapshot) <= Len(Blocks)
  /\ \A i \in DOMAIN snapshot : /\ snapshot[i].base = Blocks[i].base
                                /\ snapshot[i].len \in 0 .. Blocks[i].count
  /\ seen \subseteq Plants
  /\ budget \in [changes : Nat, boots : Nat, mishaps : Nat]

HaveDocument == DOMAIN built.doc # {}

\* The battery as the document shows it: a signed power, its two halves, a
\* signed current and the charging flag.
ShowsBattery(doc, p) ==
  /\ doc.battery_power = <<p.battery, 1>>
  /\ doc.battery_charge_power = <<positive(p.battery), 1>>
  /\ doc.battery_discharge_power = <<positive(-p.battery), 1>>
  /\ doc.battery_current = <<IF p.battery < 0 THEN -current(p.battery) ELSE current(p.battery), 10>>
  /\ doc.battery_charging = (p.battery >= 0)

\* The fields of a date and a time of day.
isTime(f) ==
  /\ f[2] \in 1 .. 12
  /\ f[3] \in 1 .. monthDays(f[1] - rtcEpochYear, f[2]) - monthDays(f[1] - rtcEpochYear, f[2] - 1)
  /\ f[4] \in 0 .. 23 /\ f[5] \in 0 .. 59 /\ f[6] \in 0 .. 59

\* A clock is shown as it is, if what it holds is a local time the host knows;
\* one in an hour the host skips, or out of its range, is normalised.
ShowsClock(rtc, f) ==
  IF isTime(f) /\ secondsOf(f) \notin DOMAIN Gap THEN rtc = f ELSE rtc \in Date(f)

\* Every document shows what was really there: the clock and the status of one
\* instant of its poll; the battery, the grid, the counter and the faults all
\* of another, signs and both words of a value included.  No frame that failed
\* or came back short gives a document (Collect, DecodeTelemetry).
DocumentIsReal ==
  HaveDocument =>
    \E p, q \in built.seen :
      /\ ShowsClock(built.doc.rtc, Clocks[p.clock])
      /\ built.doc.status = <<p.code, 1>>
      /\ built.doc.status_text = StatusLabel(p.code)
      /\ ShowsBattery(built.doc, q)
      /\ built.doc.grid_power = <<q.grid, 1>>
      /\ built.doc.grid_total_import = <<q.import, 1>>
      /\ built.doc.bms_fault_1 = <<q.code, 1>>
      /\ \A k \in DOMAIN FaultBits : built.doc[k] = bit(q.code, FaultBits[k][2])

\* A counter that Home Assistant takes for ever growing never falls from one
\* document to the next, over restarts of the manager as well: a lower value
\* would be booked as a new meter.
TotalsNeverFall ==
  [][HaveDocument => built'.doc.grid_total_import[1] >= built.doc.grid_total_import[1]]_vars

\* Once a republish has gone through, whatever was retained before: every
\* entity of this configuration is announced and the replaced switch is gone,
\* every entity that shows a state finds its field in the document, and with
\* the controls enabled every entity that sends commands is listened to.
EntitiesWork ==
  announced =>
    /\ published(Len(Catalogue)) \subseteq retained
    /\ retained \cap BuildDiscoveryRemovals = {}
    /\ \A topic \in retained :
         /\ HaveDocument /\ readsState(topic) => topic[2] \in DOMAIN built.doc
         /\ cfg.controls /\ takesCommands(topic) => subscribed /\ topic[2] \in route

\* What both processes leave to the operator: no white space around the texts,
\* the mode named, and the sidecar's own variables in order.
Plain(e) ==
  /\ \A v \in Variables : ~e[v].padded
  /\ ~void(e["MODE"])
  /\ \A v \in {"SIDECAR_LISTEN_ADDR", "MOCK_FIXTURE"} : void(e[v]) \/ e[v].kind = "word"

\* The sidecar starts as well, and means the same inverter, port and timeout.
ReadAlike(e) ==
  \A go \in Load(e) :
    \E py \in load(e) :
      /\ py.mode = go.mode
      /\ <<py.serial, FALSE>> = go.serial
      /\ <<py.ip, FALSE>> = go.ip
      /\ py.port = go.port
      /\ py.timeout = go.timeout

\* A spelling both grammars have, of seconds that fit a duration.
Spelled(t) == t.kind # "goDuration" /\ (t.kind = "int" => fits(Second * t.n))

\* The two processes read the same .env (sidecar/config.py): what the manager
\* accepts the sidecar accepts, and they mean the same inverter, port and
\* timeout, exactly if the timeout is spelled the way both know; nothing else
\* that the manager accepts sets them apart.
SameEnvironment ==
  proc = "boot" /\ Plain(env) /\ Load(env) # {} =>
    (ReadAlike(env) <=> Spelled(env["INVERTER_SOCKET_TIMEOUT"]))

\* "when CONTROLS_ENABLED=false the manager omits the five command entities
\* from discovery (...) the entities simply never appear" (docs/specs/03):
\* Home Assistant has no command entity of a read-only manager.
ReadOnlyHasNoCommands ==
  announced /\ ~cfg.controls => \A topic \in retained : ~takesCommands(topic)
=============================================================================
