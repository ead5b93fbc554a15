# A TLA+ model of solis-inverter-manager

The manager polls a Solis hybrid inverter through a Python sidecar, publishes its
state to Home Assistant over MQTT and, when controls are enabled, writes the
inverter's timed charge and discharge schedule: it asserts a tariff window, runs
boosts on request, clears what is left of them and keeps the inverter's clock right.
The registers it writes are
flash cells in a machine that moves kilowatts, each frame to them may fail with or
without effect, the owner's app writes them too, and several goroutines and threads
share the way there. That is what this project models, checks with TLC and, all but the
liveness, proves with TLAPS. All paths below are relative to the repository's root.

## The system

| Component | State it keeps | Operations | Modelled in |
|---|---|---|---|
| Schedule arithmetic (`internal/schedule`, `internal/inverter/schedule.go`) | none | clocks, windows and slots; their register image and write order; tariff split (`ToUSlots`), `PlanBoost`, `BoostSelectState`, `Desired`, `scheduleDiff` | `Schedule` |
| Inverter controls (`internal/controls`) | the inverter's holding registers | `Guard`, `writeRegisters`, `setCurrent`, `setOptimalIncome`, `setBoost`, `Reconcile` | `Controls`, `ControlsDay` |
| Clock sync (`internal/controls`, `internal/inverter/rtc.go`, `internal/scheduler`) | the inverter's clock | `syncRTC`, `maybeSyncRTC`, `DecodeRTC`, `Drift` | `Clock` |
| Scheduler (`internal/scheduler`) | `apiMu`, last-good cache | `Run`, `poll`, `readWithRetry`, `ApplyCommand`, `RememberState`, `LastState` | `Scheduler` |
| State reader, refresh, freshness gate (`internal/cmd`) | the `stale` flag | `newStateReader`, `refresh`, `statePublisher`, `gate` | `Scheduler` |
| MQTT client and republisher (`internal/mqtt`, `internal/cmd/serve.go`) | connection, hooks, subscription | `Connect`, `fireOnUp`, `republisher.run`, `fireOnMessage`, `drainHook`, `Disconnect` | `Scheduler`, `Lifecycle` |
| Readiness and status page (`internal/server`) | ready flag, failure count, last reading | `MarkSuccess`, `MarkFailure`, `RecordReading` | `Scheduler` |
| Process lifecycle (`internal/cmd`) | run context, exit code | startup order, `waitForExit`, `teardown` | `Lifecycle` |
| Sidecar client (`internal/sidecarclient`, `controls.Locking`) | one call in flight | `ReadHolding`, `WriteHolding`, timeout | `Sidecar`, `Registers` |
| Sidecar (`sidecar/http_api.py`, `sidecar/transport.py`) | lock, socket | handler threads, connect, frame, disconnect, health probe | `Sidecar`, `Registers` |
| Telemetry decoding (`internal/inverter`, `internal/publisher/collect.go`) | none | `Collect`, `Snapshot`, `DecodeTelemetry` | `Telemetry`, `Documents` |
| Home Assistant documents (`internal/homeassistant`, `internal/publisher`) | retained configs, state document | `BuildDiscovery`, `BuildDiscoveryRemovals`, `BuildState` | `Discovery`, `Telemetry`, `Documents` |
| Configuration (`internal/config`, `sidecar/config.py`) | none | `Load`, `load` | `Configuration`, `Documents` |
| Mock sidecar (`sidecar/mock.py`) | canned registers | answers from a dictionary | not modelled |

How they interact. A poll (the scheduler's goroutine) and a command (the MQTT
client's goroutine) each hold `apiMu` from their first frame to their last, so the
controls see one job at a time; `Scheduler` establishes that and `Controls` relies
on it. A reconnect hook runs on a third goroutine and shares only the cache. Every
register access of a job is one HTTP call to the sidecar, behind `Locking`, and one
Modbus frame on the sidecar's only socket, behind its lock; `Registers` states what
such a call promises, and `Sidecar` is shown to implement it.

What is hard here: frames that fail after they took effect; a sequence of eight
registers cut short anywhere, by an error, a restart or the shutdown; windows
without a date; a cache that stands in for a failed read; the reconnect hook
against the refresh of a command; the shutdown against all of them; a client
timeout against a queue in the sidecar; a clock set field by field while it runs;
retained messages that outlive the configuration they came from. `PROJECT.json` lists these hazards at their
lines, with the properties that cover each.

## The modules

**Schedule** has no state. `HoursPerDay`, `MinutesPerHour`, `boostStep` and
`boostDurations` are parameters (24, 60, 15 and 15..60 in the code), so that the
same definitions run over a real day and over a day of eight minutes. A clock is a
record, a slot a function from direction to window, and a register is addressed by
slot, direction and field as in `timedSlotBase` and `timedWindowOffsets`;
`writeRank` is the order `TimedSlotWriteRegisters` returns registers in. Text forms
of clocks and options are left out.

**Controls** is the core: `regs` are the writable registers, and each step is one
frame. `pc` says where the job is: `mode` (a command waits for the work-mode word),
`polled` (a poll has read the slots and not yet reconciled), then `read`, `write`,
`confirm` of `Guard`, for the lowest-ranked register of `todo`. `target` is what the
sequence is to write; `retry` is the one retry of `writeRegisters`, which a
single-register command (`guardOne`) does not have and which is not used once a
write has been acknowledged. A failing write may or may not have landed.
Environment: the clock (`Tick`), the owner's app (`AppEdit`), and a `Restart`, after
which only the registers are left and the configuration may be another. The clock
moves only between the steps that read it: the guard steps never do.

**ControlsDay** adds what the documentation of the schedule speaks of: polls start
at least every `PollPeriod` minutes, and a history variable records which windows
somebody asked for (`meant`). It also has the fault that `Sidecar` allows: a write whose
call was given up may land later (`late`), after its retry, in another job or in
another process.

**Scheduler** abstracts the setpoints to a version number, raised by every command
or reconcile that writes. Poll and command step through lock, telemetry, setpoints,
remember, publish and reconcile in the code's two orders (a poll remembers before it
publishes, a refresh after), with each read and publish failing on its own, `stale`
set by the fallback to the cache, and the reconnect hooks reading the cache under
`cacheMu` alone. `polls`, `lastRead` and `passRead` are history.

**Lifecycle** is `runServe` from the sidecar wait to the exit, in all four
combinations of broker and controls, with a signal and a failing health listener
possible everywhere. Hooks and the eager republish are passes of the same
`republisher.run`; the first of them may fire before `svcPtr` is stored. The drain
of the hooks is bounded by `shutdownTimeout`.

**Registers** is the abstract register service: a call takes effect at most once,
succeeds only after its effect and with its value, and one that has returned an
error may still take effect later. **Sidecar** is the real thing: HTTP handler
threads, the lock, connect, send, answer, disconnect on every failure, the client
that gives up after its timeout and sends the next call, and health probes, which
take the same lock. `Abstract` maps the calls to those of `Registers`.

**Clock** is the sync of the inverter's clock, by the threshold of a poll or by the
command, through the same `Guard` and the same retrying sequence as in `Controls`, on
registers that move: both clocks run while the job does, so an instant is a number of
seconds in a calendar whose fields have the units of the parameter `Units`. `target` is
computed once (`syncRTCTo`) and written field by field; `seen` is the clock as the
poll read it, against which `maybeSyncRTC` decides later. The host's zone enters in
`DecodeRTC`: an hour that exists twice, or not at all, decodes to either instant.
`MaxLag` may exceed the threshold: a poll with retries and a slow publish does.
`lag` bounds the seconds of a job, and `clean` records that none of them rolled over
a higher field, changed the zone or met a disturbed clock.

**Telemetry**, **Discovery** and **Configuration** have no state. `Readings` gives
every key its register, width, sign rule and scale; `decodable` says when a snapshot
has them all, `DecodeTelemetry` and `BuildState` turn it into the document. A physical
value is a number with its divisor, a label the code it stands for. `Date` is
`time.Date` on local times: out-of-range fields are carried over (a month 14 is February of
the next year), leap years included, and a local time that summer time skips (`Gap`) is moved
by the change, forwards or backwards, since `time.Date` does not say which. `Catalogue` is the
entity list in its order; a discovery config is reduced to whether it reads the
state document and has a command topic. A variable of the environment is a token
(kind of text, word or number, padded with white space or not), and a parser returns
the set of its value, empty when it refuses. Durations are whole nanoseconds, `Second` to the
second, and Go's integers and durations have the width `Limit`: `Atoi` and `ParseDuration`
refuse what does not fit, and the product of `parseDurationOrSeconds` wraps. The spellings
"+10s", ".5s", "5.s" and the Greek mu, which `time.ParseDuration` takes and the sidecar's
pattern does not, are the kind `goDuration`. Digits below a nanosecond and the rounding of
Python's floats are not represented.

**Documents** composes the three: both processes are started in an environment and
load it, each by itself; republish passes announce the entities, whole or broken off
after some config; polls read the two blocks frame by frame while the inverter
changes, and build the document. What is retained survives the process. A pass after
a failed one stands for the one of the next reconnect.

External parts, modelled from how the code uses them: the datalogger carries a frame
out while it is awaited or never, and a socket hands out answers in order of arrival;
the broker forgets a subscription with its session (the session expiry is left at
zero) and publishes the Will of a session that was not closed; autopaho reconnects
until the context given to `NewConnection` is cancelled, and then closes the
connection cleanly; the inverter reports battery values as magnitudes beside a
direction flag, its wide values high word first, and a frame shows one instant.

Each definition's source lines are in `PROJECT.json` under `map`. Definitions
introduced by "Mutant" are plausible bugs that show a property can fail; they are
used nowhere in the specifications.

## The runs

| Run | Instance | Shows |
|---|---|---|
| `schedule_plan` | real day, 6 tariffs that end at, cross or avoid midnight; 8640 states | at every minute, every boost option and every tariff the arithmetic agrees with references that count minutes: `PlanIsExact`, `SelectShowsChoice`, `TariffSplitIsExact`, `BoostRunsItsWindow`, `WriteOrderClearsFirst` |
| `controls_safety` | day of 2 x 4 minutes, 3 configurations, one command, one mishap, one app edit; 1.1 M states | `ScheduleStaysReadable`, `NeverBothDirections`, `NoNeedlessWrite`, `SuccessMeansHeld`, `WritesAreOwned` |
| `controls_liveness` | same day, tariff across midnight, one command, one mishap, late writes | `BoostSlotClears`, `TariffSettles` |
| `scheduler` | one retry, threshold 2, one command, one writing reconcile, one reconnect, two mishaps | `ReconcileSeesInverter`, `CacheIsLastRead`, `PageDatesSetpoints`, `ReadyMeansRecent`, `CommandsEnd`, `StateSettles` |
| `lifecycle` | two connections, one command, all configurations | `AnnouncedWhenUp`, `QuietAtDisconnect`, `ExitAfterTeardown`, `ShutdownEnds` |
| `sidecar` | two calls on two registers, one probe, two failures; timeouts 2 and 3 (units of 5 s) | `ImplementsRegisters`, `RequestsEnd` |
| `clock` | hours of two minutes of four seconds, threshold 2 and jobs of up to 3 seconds, zones with and without summer time, one command, two mishaps, one disturbed clock; 1.0 M states | `SyncSetsClock`, `SyncsWhenOff`, `Resyncs`, `SelfLimiting` |
| `documents` | two starts, the first in any of some hundred environments at the limits of the checks, two changes of the inverter, one mishap; 0.4 M states | `DocumentIsReal`, `TotalsNeverFall`, `EntitiesWork`, `SameEnvironment` |

Four more runs check a sentence of the documentation that the code does not keep;
TLC's counterexample is the point of the run (`findings` quotes the sentences):

* `controls_composite` (`KeptIsMeant`). One failed confirming read stops the
  sequence of a boost after its end hour; 14:50-15:30 has become 14:50-15:00, which
  the reconcile takes for a running boost and keeps until it ends.
* `lifecycle_offline` (`OfflineRetained`). A hook not drained yet publishes "online"
  after the "offline"; or the connection, which lives under the run context, has
  ended before "offline" is sent. The clean disconnect suppresses the Will, so
  "online" stays. The second case rests on the external behaviour of autopaho named
  above, the first on the code alone.
* `lifecycle_startup` (`SignalExitsCleanly`). A signal during the sidecar wait or the wait
  for the broker makes `Connect` fail, so the process exits with code 1 and without the
  teardown that REQ-LC-11 promises. `ExitAfterTeardown` therefore speaks of a service
  that had come up.
* `documents_readonly` (`ReadOnlyHasNoCommands`). A manager started with the controls,
  stopped, and started with `CONTROLS_ENABLED=false` announces no command entity, and
  removes none: those of the first start are retained and stay in Home Assistant.
  `EntitiesWork` therefore asks for a listener only where the controls are enabled.

### Observations without a run of their own

* The 15 s of the client (`internal/sidecarclient/client.go:17`) cover the 10 s of a frame, but
  not its wait for the lock, which a health probe may hold for 20 s, nor the 10 s of a
  reconnect before it: a call that the manager has given up is carried out afterwards,
  although the comment above the line says that a slow-but-successful call "is not cut
  short by the client". This is why `Registers` lets a call that has returned an error take
  effect: without that, `ImplementsRegisters` fails.
* With polls longer than the threshold (`RTC_DRIFT_THRESHOLD` is any duration above zero)
  each poll finds a right clock slow by its own duration and syncs it again, without end,
  while `docs/specs/04-polling-scheduling.md:77-78` says that the sync "will not fire again until
  the clock drifts anew". `SyncsWhenOff` has the slow polls as its last disjunct, and
  `SelfLimiting` needs polls that are short in the end (`Brisk`); without that it fails.
* A timeout of "+10s", ".5s", "5.s" or in Greek microseconds starts the manager and is refused by
  the sidecar, and a number of seconds that overflows in nanoseconds wraps in the manager
  only (`internal/config/config.go:380`), while `docs/specs/REQUIREMENTS.md:62` says that the
  sidecar "mirrors the Go duration grammar". `SameEnvironment` states that the two
  processes agree exactly where this is not so (`Spelled`).
* A late write can set a register of the old direction after the command that swapped
  directions is over: a charge boost whose frame is given up, then a discharge boost,
  then the frame. The slot then has windows both ways, which
  `internal/inverter/schedule.go:166-170` means to rule out, until a reconcile finds
  one of them over (`BoostSlotClears`).

* A register-by-register write passes through a window that ends before it starts
  whenever only the end hour has been written (14:07-14:00 on the way to 14:07-14:15),
  against the comment at `internal/inverter/schedule.go:171-174`.
* A republish step that fails while the connection stays up is repeated by no poll,
  against the comment at `internal/cmd/serve.go:200-201`; `AnnouncedWhenUp` and
  `EntitiesWork` therefore exclude it.
* Windows carry no date: if every poll from the end of a boost to the same minute of
  the next day fails, the next poll finds the boost live again and keeps it
  (`docs/specs/09-schedule-controls.md:40-42` says that it cannot).
* A hook that reads the cache before a refresh has remembered its state and publishes
  after the refresh has published puts the document from before the command back,
  until the next poll (`StateSettles`; the comment at
  `internal/scheduler/scheduler.go:287-290` promises more).
* The teardown waits for the scheduler goroutine; a command runs on the MQTT client's,
  and the process may exit in the middle of its registers (against the comment at
  `internal/cmd/serve.go:252-253`). For the registers this is the `Restart` of
  `Controls`, which the safety properties and the clearing of the slot survive.
* A sync that reports success leaves the clock an hour, or a day, off when a higher
  field rolled over between the write of that field and the write of a lower one
  (`SyncSetsClock` excludes it by `clean`); the next poll repairs it, if the auto-sync
  is on (`Resyncs`). And a sync fails when the seconds move on between their write and
  the confirming read, although the clock is right.
* In the hour that the end of summer time repeats, `time.Date` may pick the other
  instant, and the auto-sync then fires on a right clock at every poll of that hour;
  `docs/specs/04-polling-scheduling.md:77` calls it self-limiting. `SelfLimiting` holds where
  there is no summer time; `SyncsWhenOff` names the offset as its condition.
* A clock that shows a local time the host skips, or fields out of their range, appears in
  the document as another time (`ShowsClock` claims nothing of it).
* The two loaders differ outside of `Plain` environments: white space around
  `INVERTER_SERIAL` becomes part of the manager's topics and is stripped by the
  sidecar; an unset `MODE` is "live" to the manager and refused by the sidecar; a
  timeout "10.5" and a port outside 1-65535 are accepted by the sidecar only.

### Bounds

Bounds are constants of the modules and guards of the actions that use them up.
*Commands*: a job starts from registers and a clock, not from earlier commands; one
command, an edit and a restart reach every combination of an old window and a new
plan. *Mishaps*: within one job the code distinguishes the first failure of a
register, its second and a failure after the write; one failure reaches the retry
and the abort on confirm, and the proofs below cover any number. The counterexample
runs take more where they need it. *Day*: eight
minutes keep an hour boundary inside a boost, midnight inside the tariff, and a start
on and off the grid; `schedule_plan` covers the arithmetic at real size. *Scheduler*:
two mishaps make a failed read inside a retry, or a read and a publish failing in one
pass; threshold 2 is the smallest at which failures accumulate; one hook overlaps
with both jobs. *Lifecycle*: with two connections the first hook can be lost to a
`svcPtr` that is not stored, and the second can race the drain; connections can be
lost as long as another is left. *Sidecar*: two calls and a probe give a call that
queues behind another's thread after its client has gone, and two failures a
reconnect that fails. *Clock*: a calendar of 16 instants has a
carry into each of two higher fields; a second in a job is enough for a tick, a
rollover or a change of zone between any two frames, three of them outlast the
threshold of two, and two mishaps make a register fail twice. *Documents*: two starts are what it takes for a retained config to
outlive its configuration; powers beyond one word in both directions, a counter that
passes 65535, and a clock in the last second of a leap day, in a skipped hour or out of
range are the edges of the decoding, two
changes put one between the frames of a poll and one between polls. A second of 10 units and
integers below 2^17 keep every product small and let a large timeout overflow. Environments
differ from a live one in one variable, or in the mode and a shared variable.

`sidecar`, `lifecycle` and `documents` do not check for deadlock: a bounded number of
requests ends, and so does the process, which may be refused its last start. `RequestsEnd` and `ShutdownEnds` say what must not get
stuck.

### Fairness

* A started job, handler thread or republish pass goes on (weak fairness): every
  call in it has a timeout. The steps of `runServe` likewise.
* `Lock`, `PollLocks` and `ApplyCommand` are strongly fair: a Go mutex in starvation
  mode hands itself to the longest waiter. `RunReturns` is strongly fair: `select`
  picks among ready cases at random.
* In `Clock`, seconds pass (`Tick` is strongly fair: it is disabled only while a job has
  used up its `MaxLag`), the ticker starts polls, and a started job goes on.
* The ticker ticks and minutes pass. In `ControlsDay` a poll starts every
  `PollPeriod` = 1 minute (`POLL_INTERVAL` is 60 s by default). Liveness is claimed
  only after mishaps, commands and edits have stopped, which their bounds enforce.
* `ConnectionUp` is weakly fair: autopaho tries for ever. `ShutdownEnds` needs it only
  for a health server that fails before the first connection: the error is read after
  `Connect` has returned.

## The proofs

Each `...Proofs` module proves about the component it extends; `ScheduleLemmas` has
the facts about windows, slots and registers that `ScheduleProofs` and
`ControlsProofs` share. The theorems hold for every value of the constants, that is
for any number of commands, failures, restarts, reconnects and edits, any day, grid
and configuration:

| Module | Theorem | Property |
|---|---|---|
| `ScheduleProofs` | `PlanExact` | `PlanIsExact`: a boost ends on the grid where its definition says, and is refused exactly when it must be |
| | `SelectIsChoice` | `SelectShowsChoice`: the select reads the chosen option back from the registers |
| | `TariffSplit` | `TariffSplitIsExact`: the split tariff covers its minutes, and is rejoined |
| | `BoostKept` | `BoostRunsItsWindow`: a boost is kept to its last minute and cleared from the next |
| | `WriteOrder` | `WriteOrderClearsFirst`: no place of the write order has both windows set |
| `ControlsProofs` | `TypeCorrect` | `TypeOK` |
| | `ScheduleReadable` | `ScheduleStaysReadable`: the slot registers always decode |
| | `FlashWear` | `NoNeedlessWrite`: no frame for a register that already holds its value |
| | `ClearedBeforeProgrammed` | `NeverBothDirections`: no step of the manager gives a slot both directions |
| | `SuccessIsHeld` | `SuccessMeansHeld`: a job without an error has left every register of its target in place |
| | `OwnWritesOnly` | `WritesAreOwned`: the manager writes only what it owns |
| `SchedulerProofs` | `TypeCorrect` | `TypeOK` |
| | `ReconcileIsFresh` | `ReconcileSeesInverter`: a reconcile works on what the inverter holds |
| | `CacheKeepsLastRead` | `CacheIsLastRead`: cache and page hold the setpoints last read |
| | `ReadinessIsRecent` | `ReadyMeansRecent`: readiness counts the last polls |
| | `PageDatesAreTrue` | `PageDatesSetpoints`: only setpoints of the pass are shown as current |
| `LifecycleProofs` | `TypeCorrect` | `TypeOK` |
| | `OnlineWhenUp` | `AnnouncedWhenUp`: a running manager is online and subscribed |
| | `DisconnectIsQuiet` | `QuietAtDisconnect`: no poll, and within the deadline no hook, publishes on a session that is being closed (a command may: it is not drained) |
| | `ExitCodeTells` | `ExitAfterTeardown`: a service that had come up ends through the teardown, with the code of its cause |
| `SidecarProofs` | `TypeCorrect` | `TypeOK` |
| | `RefinesRegisters` | `ImplementsRegisters`: client, threads, lock and socket implement `Registers` |
| `ClockProofs` | `TypeCorrect` | `TypeOK` |
| | `SyncIsExact` | `SyncSetsClock`: a successful sync leaves the clock behind by the seconds it took |
| | `FiresOnDrift` | `SyncsWhenOff`: a poll syncs exactly the clocks that are off, or look so by the seconds it took |
| `DocumentsProofs` | `TypeCorrect` | `TypeOK` |
| | `SameConfiguration` | `SameEnvironment`: of the plain environments the manager accepts, the sidecar reads those alike whose timeout is spelled for both, and no others |
| | `DocumentsAreReal` | `DocumentIsReal`: a document shows what was measured in its poll, and the clock where it is a time of the host |
| | `TotalsGrow` | `TotalsNeverFall`: the import counter never falls |
| | `AnnouncedEntitiesWork` | `EntitiesWork`: every announced entity has its field and its route |

Assumptions: the named `ASSUME`s of the modules, which TLC evaluates in the runs. Those
that say something: the boost options are multiples of the grid
(`BoostAssumption` of `Schedule`), each unit of the calendar is a whole number of every
smaller one and threshold and duration of a job are together less than half the calendar,
decades in the code (`CalendarAssumption` and `ClockBoundAssumption` of `Clock`; a poll may be
longer than the threshold, and only `SelfLimiting` asks, in its own statement, for jobs of
at most half of it), the defaults and a port fit an integer (`WidthAssumption` of
`Configuration`), the zone moves skipped times by whole seconds (`ZoneAssumption` of
`Telemetry`), there is a register to address (`Sidecar`), and what
the inverter measures fits the registers that hold it (`PlantAssumption` of `Documents`;
a battery power is the product of a 16-bit current in tenths of an ampere and 50 V; the clock
registers hold any numbers).
The others say that inputs are of their types and bounds natural numbers.

### Schedule

`MCSchedule` takes the clock through the day, and its only invariant is that minute
and tariff are valid; the theorems are then arithmetic on clocks, `minuteOfDay` and its
inverse, for a day of any length. The two that count minutes (`PlanIsExact`,
`TariffSplitIsExact`) go by cases on a tariff that is inside the day, ends at midnight
or crosses it.

### Controls

The argument has three inductive invariants. `TypeInv` adds to `TypeOK` that slot
registers and their targets are in the range of their field (`InRange`), because a
retried or later frame writes `target`, and that a boost waiting for the work mode
carries a real option (`ModeOption`). `SafetyInv` adds what the properties need of
the past: `Held`, the registers the sequence is done with, or that the diff left
out, still hold their targets (this makes `SuccessMeansHeld` a consequence at the
last register, and tells a half-written sequence which registers it may trust);
`FreshSlots`, the slots handed to the reconcile are those of the inverter, which
gives `Held` for the registers outside the diff; `OneDirection`, a sequence that is
still to set a register of one direction aims at an empty window in the other; and
two facts on the shape of jobs. `NeverBothDirections` then follows from the write
order: `RankInjective` and `NextUnique` make the register under guard unique,
`OppositeClear` shows that when a register of the programmed direction is reached,
all of the other direction are behind it, and `Held` that they are zero. All of this is
conditional on the app not having edited the registers under the job
(`disturbed`), as the properties are. `OwnedInv` says whose registers a sequence has
still to write (`TodoOwned`), and that there is none with the controls disabled. The
theorems rest on a frame landing before its call
returns, with or without an error, or never; `Sidecar` has the exception, a
call the client gave up and the sidecar carries out later. The theorems do not cover
it; `controls_liveness` shows that the polls repair what it does.

### Scheduler

Two jobs of several steps and any number of hooks share four pieces of state, so the
invariant says who may touch which: `LockOwned`, one job is between its lock and its
unlock, and it is the holder of `apiMu`; `InHand`, the setpoints that job has in hand
are those last read, and `stale` tells whether this pass read them; `InStep`, a poll
that has read them has in hand what the inverter holds, because nobody else can write
meanwhile; `CacheShown` and `PageShown`, cache and page show the last reading but for
the steps that are still to bring it there, which is `CacheIsLastRead` once the lock is
free. `VersionsPaid` bounds the versions by the commands and
reconciles spent, and `HealthCounted` ties the failure counter to the history of the
polls.

### Lifecycle

`MainInv` says what holds at each place of `runServe`: the service is stored once the
start is past it, the scheduler is waited for, a manager without broker has no
connection, an exit has its reason and the teardown its order. `AnnouncedOrDue` is what
`AnnouncedWhenUp` needs and cannot say: a connection is announced, or a pass that will
announce it is under way or launched, or the eager republish is still to come, or a
call has failed.

### Sidecar

`ThreadInv`: the lock has the thread that is between acquire and release as its owner;
the socket holds an answer only to the frame of that thread (`AnswerMatches`), which is
what the disconnect on every failure achieves; a frame is executed at most once
(`ExecutedOnce`); what a caller was told agrees with it (`CallerKnows`). Each step then
maps to a step of `Registers` or a stutter under `Abstract`.

### Clock

`Aged`: the target is the host's local time of `lag` seconds ago. `AboveIsSet`: divided by
the unit above the register under guard, the inverter's clock and the target are equal.
This takes the place of a claim about each of the registers before, so no induction
over the fields is needed: at the first there is nothing above (`NothingAbove`),
`NextDigit` adds a register that was found equal, `SetField` and `NoRollover` say that a
frame and a second leave what is above alone, and above the last, whose unit is one
second, the two are equal. The sync is then off by `lag`, which is its drift since it is
less than half a turn (`DriftIs`). Both need that the clock was `clean`. `FiresOnDrift`
needs types only: the drift of the clock that was read is the one of now less the
seconds in between, unless that passes half a turn (`StaleDistance`), where the two sides of the
property agree because threshold and `lag` are far from it (`LagBound`).

### Documents

Apart from types, the invariant has `Announced` (what a republish that went through has
left in the broker, until the session ends), `FramesSeen` (each frame in hand is of an
instant of this poll, and no counter was higher then than now), `CounterGrows` (the
last document shows no more than anything seen since) and `Complete` (a document has
every key). The step that matters is `PublishState`: `FramesFull` shows that a
decodable snapshot has two whole frames, because the last register of either block is a
reading, `BlockOf` that each register comes from its own block, and `DecodedValues`
that words, two's complement and direction flag give the measurement back. `FieldsComeBack`
shows that `fieldsOf` inverts `secondsOf` on fields in their ranges: the days of a year and
of a month are ordered (`YearOrder`, `MonthOrder`), so the year and the month a day lies in
are the ones it was counted from (`OneYear`, `OneMonth`), and the rest is division.
`CatalogueShown` compares the catalogue with the keys of the document, entity by entity.
`SameConfiguration` needs no history: it is `SameReading`, about the two parsers on the
spellings both have, and `ReadsSpelled`, that no other text has one meaning: Go's own spellings
are refused, and a product that wraps fits while the sidecar's does not (`WrapFits`).

### Only model-checked

* Liveness under fairness, and everything with `ENABLED`, which are out of the prover's
  reach: `BoostSlotClears`, `TariffSettles`, `CommandsEnd`, `StateSettles`,
  `ShutdownEnds`, `RequestsEnd`, `Resyncs`, `SelfLimiting`.
* The four sentences that the code does not keep, which have counterexamples.

## Not modelled

* HTTP routing and HTML of the status page, the text of log lines, clocks, options and
  labels, and the names, classes and units of entities: layout without state.
* The mock sidecar, which answers from a dictionary, and the health probes inside
  `waitForSidecar`, which end the wait in every case.
* What the inverter does with a half-written window while the next frame is on its way.
* Months of different length in `Clock` (`Telemetry` has them), and leap seconds.

## Plan

The order of the modules was: the arithmetic, the guarded writes on top of it, the
goroutines around them, the transport below them, the lifecycle around everything,
then the clock, and the documents with the decoding and the configuration behind them.
Next:

1. Late writes in `Controls` itself, with the safety theorems restated for registers
   that no frame is still on its way to.
