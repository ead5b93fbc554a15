----------------------------- MODULE Scheduler ------------------------------
(***************************************************************************)
(* The goroutines around the inverter and the broker: the poll loop and    *)
(* the commands of internal/scheduler, the state reader, the refresh and   *)
(* the republisher of internal/cmd, the reconnect hooks of internal/mqtt   *)
(* and the readiness and the status page of internal/server.               *)
(*                                                                         *)
(* What is read from the inverter is a version of its setpoints, 0 being   *)
(* the zero value of a setpoints that was never read; what the versions    *)
(* contain, and how a command or a reconcile writes them, is the business  *)
(* of Controls.  Telemetry is read and lost with the state document it is  *)
(* part of, and has no version of its own.  Startup, shutdown and the      *)
(* announcement of a reconnect are in Lifecycle.                           *)
(***************************************************************************)
EXTENDS Integers, Sequences

CONSTANTS
  MaxRetries,        \* POLL_MAX_RETRIES
  FailureThreshold,  \* FAILURE_THRESHOLD (server.New: at least 1)
  Hooks,             \* the reconnect hooks that may run, one per connection
  MaxCommands,       \* bound on the commands
  MaxRepairs,        \* bound on the reconciles that write
  MaxMishaps         \* bound on failing calls and lost connections

ASSUME SchedulerAssumption ==
  /\ MaxRetries \in Nat
  /\ FailureThreshold \in Nat \ {0}
  /\ MaxCommands \in Nat
  /\ MaxRepairs \in Nat
  /\ MaxMishaps \in Nat

VARIABLES
  inv,       \* the version of the setpoints in the inverter
  mu,        \* the holder of apiMu
  pc,        \* where the poll loop and the command are
  held,      \* the setpoints each has in hand
  attempt,   \* the attempts readWithRetry has made
  cache,     \* the last-good state (LastState, RememberState)
  stale,     \* setpointFreshness
  health,    \* readiness and consecutive failures
  page,      \* the reading of the status page
  broker,    \* the connection and what the broker retains
  hook,      \* the reconnect hooks
  lastRead,  \* history: the setpoints last read from the inverter
  passRead,  \* history: the job under way has read its setpoints
  polls,     \* history: the outcomes of the last FailureThreshold polls
  budget     \* what is left of the bounds

vars == <<inv, mu, pc, held, attempt, cache, stale, health, page, broker, hook,
          lastRead, passRead, polls, budget>>

-----------------------------------------------------------------------------
Actors == {"poll", "command"}

Versions == 0 .. 1 + MaxCommands + MaxRepairs

NoDoc == -1   \* no state document was ever published

Mishap == /\ budget.mishaps > 0
          /\ budget' = [budget EXCEPT !.mishaps = @ - 1]

At(w, place) == pc[w] = place

Go(w, place) == pc' = [pc EXCEPT ![w] = place]

\* The job is over: apiMu is released by the deferred Unlock.
Unlock(w) ==
  /\ mu' = "free"
  /\ Go(w, "idle")

\* The failures counted, up to the threshold: MarkFailure compares them with
\* nothing larger.
nextFailures ==
  IF health.failures < FailureThreshold THEN health.failures + 1 ELSE FailureThreshold

\* Mutant: a failure at the threshold is not one too many.
MarkFailureLate ==
  LET n == nextFailures
  IN health' = [ready |-> health.ready /\ n <= FailureThreshold, failures |-> n]

\* Server.MarkSuccess and Server.MarkFailure.
MarkSuccess == health' = [ready |-> TRUE, failures |-> 0]

MarkFailure ==
  LET n == nextFailures
  IN health' = [ready |-> health.ready /\ n < FailureThreshold, failures |-> n]

Outcome(ok) ==
  LET all == Append(polls, ok)
  IN polls' = IF Len(all) > FailureThreshold THEN Tail(all) ELSE all

\* Mutant: the early return of a failed poll keeps apiMu.
PollFailsLocked == MarkFailure /\ Outcome(FALSE) /\ Go("poll", "idle") /\ UNCHANGED mu

PollFails == MarkFailure /\ Outcome(FALSE) /\ Unlock("poll")

\* Mutant: one attempt too many.
mayRetryOnceMore == attempt <= MaxRetries

\* readWithRetry has attempts left.
mayRetry == attempt < MaxRetries

-----------------------------------------------------------------------------
(* The jobs: a poll (Scheduler.poll) and a command (ApplyCommand) with its *)
(* refresh.                                                                *)

\* Mutant: a command does not wait for a poll.
LockPollOnly(w) ==
  /\ At(w, "lock")
  /\ w = "poll" => mu = "free"
  /\ mu' = w
  /\ Go(w, IF w = "poll" THEN "telemetry" ELSE "write")
  /\ attempt' = 0
  /\ passRead' = FALSE
  /\ UNCHANGED <<inv, held, cache, stale, health, page, broker, hook, lastRead, polls, budget>>

\* The ticker fires; ticks are dropped while a poll runs.
Ticker ==
  /\ At("poll", "idle")
  /\ Go("poll", "lock")
  /\ UNCHANGED <<inv, mu, held, attempt, cache, stale, health, page, broker, hook,
                 lastRead, passRead, polls, budget>>

\* The broker delivers a command to a subscriber.  fireOnMessage calls the
\* handler synchronously, so commands come one at a time.
Deliver ==
  /\ At("command", "idle")
  /\ broker.up /\ broker.subscribed
  /\ budget.commands > 0
  /\ budget' = [budget EXCEPT !.commands = @ - 1]
  /\ Go("command", "lock")
  /\ UNCHANGED <<inv, mu, held, attempt, cache, stale, health, page, broker, hook,
                 lastRead, passRead, polls>>

\* apiMu.Lock.
Lock(w) ==
  /\ At(w, "lock")
  /\ mu = "free"
  /\ mu' = w
  /\ Go(w, IF w = "poll" THEN "telemetry" ELSE "write")
  /\ attempt' = 0
  /\ passRead' = FALSE
  /\ UNCHANGED <<inv, held, cache, stale, health, page, broker, hook, lastRead, polls, budget>>

\* The command touches the inverter, and changes it or not; then it is refreshed.
Route ==
  /\ At("command", "write")
  /\ inv' \in {inv, inv + 1}
  /\ Go("command", "telemetry")
  /\ UNCHANGED <<mu, held, attempt, cache, stale, health, page, broker, hook,
                 lastRead, passRead, polls, budget>>

\* The command is rejected, and not refreshed.
Reject ==
  /\ At("command", "write")
  /\ Unlock("command")
  /\ UNCHANGED <<inv, held, attempt, cache, stale, health, page, broker, hook,
                 lastRead, passRead, polls, budget>>

\* readState: Collect reads the telemetry ...
ReadTelemetry(w) ==
  /\ At(w, "telemetry")
  /\ Go(w, "setpoints")
  /\ UNCHANGED <<inv, mu, held, attempt, cache, stale, health, page, broker, hook,
                 lastRead, passRead, polls, budget>>

\* ... or fails: a poll backs off and tries again, up to MaxRetries times; a
\* refresh gives up.
ReadTelemetryFails(w) ==
  /\ At(w, "telemetry")
  /\ Mishap
  /\ \/ /\ w = "poll" /\ mayRetry
        /\ attempt' = attempt + 1
        /\ UNCHANGED <<mu, pc, health, polls>>
     \/ /\ w = "poll" /\ ~mayRetry
        /\ PollFails
        /\ UNCHANGED attempt
     \/ /\ w = "command"
        /\ Unlock(w)
        /\ UNCHANGED <<attempt, health, polls>>
  /\ UNCHANGED <<inv, held, cache, stale, page, broker, hook, lastRead, passRead>>

\* A poll remembers its state before it is published, a refresh afterwards.
afterRead(w) == IF w = "poll" THEN "remember" ELSE "publish"

\* The setpoints are read.
ReadSetpoints(w) ==
  /\ At(w, "setpoints")
  /\ held' = [held EXCEPT ![w] = inv]
  /\ stale' = FALSE
  /\ lastRead' = inv
  /\ passRead' = TRUE
  /\ Go(w, afterRead(w))
  /\ UNCHANGED <<inv, mu, attempt, cache, health, page, broker, hook, polls, budget>>

\* Mutant: the fallback is not marked.
ReadSetpointsFailsUnmarked(w) ==
  /\ At(w, "setpoints")
  /\ Mishap
  /\ held' = [held EXCEPT ![w] = cache.sp]
  /\ Go(w, afterRead(w))
  /\ UNCHANGED <<inv, mu, attempt, cache, stale, health, page, broker, hook, lastRead,
                 passRead, polls>>

\* The setpoints cannot be read: the last known ones are reused.
ReadSetpointsFails(w) ==
  /\ At(w, "setpoints")
  /\ Mishap
  /\ held' = [held EXCEPT ![w] = cache.sp]
  /\ stale' = TRUE
  /\ Go(w, afterRead(w))
  /\ UNCHANGED <<inv, mu, attempt, cache, health, page, broker, hook, lastRead,
                 passRead, polls>>

\* Mutant: the refresh leaves the cache to the next poll.
RememberPollOnly(w) ==
  /\ At(w, "remember")
  /\ \/ /\ w = "poll"
        /\ cache' = [have |-> TRUE, sp |-> held[w]]
        /\ Go(w, "publish")
        /\ UNCHANGED mu
     \/ /\ w = "command"
        /\ Unlock(w)
        /\ UNCHANGED cache
  /\ UNCHANGED <<inv, held, attempt, stale, health, page, broker, hook, lastRead,
                 passRead, polls, budget>>

\* RememberState: the last step of a refresh.
RememberState(w) ==
  /\ At(w, "remember")
  /\ cache' = [have |-> TRUE, sp |-> held[w]]
  /\ \/ /\ w = "poll"
        /\ Go(w, "publish")
        /\ UNCHANGED mu
     \/ /\ w = "command"
        /\ Unlock(w)
  /\ UNCHANGED <<inv, held, attempt, stale, health, page, broker, hook, lastRead,
                 passRead, polls, budget>>

\* RecordReading: setpoints that were reused keep the date of the reading before.
RecordReading(w) ==
  page' = [have |-> TRUE, sp |-> held[w],
           dated |-> CASE ~stale -> "now"
                       [] stale /\ (~page.have \/ page.dated = "never") -> "never"
                       [] OTHER -> "earlier"]

\* Mutant: a poll that brings nothing new is not published.
PublishChanged(w) ==
  /\ At(w, "publish")
  /\ broker.up
  /\ broker' = IF page.have /\ page.sp = held[w] THEN broker
               ELSE [broker EXCEPT !.state = held[w]]
  /\ RecordReading(w)
  /\ \/ /\ w = "poll"
        /\ MarkSuccess
        /\ Outcome(TRUE)
        /\ Go(w, "reconcile")
     \/ /\ w = "command"
        /\ Go(w, "remember")
        /\ UNCHANGED <<health, polls>>
  /\ UNCHANGED <<inv, mu, held, attempt, cache, stale, hook, lastRead, passRead, budget>>

\* PublishState: the document is retained by the broker and recorded for the page.
PublishState(w) ==
  /\ At(w, "publish")
  /\ broker.up
  /\ broker' = [broker EXCEPT !.state = held[w]]
  /\ RecordReading(w)
  /\ \/ /\ w = "poll"
        /\ MarkSuccess
        /\ Outcome(TRUE)
        /\ Go(w, "reconcile")
     \/ /\ w = "command"
        /\ Go(w, "remember")
        /\ UNCHANGED <<health, polls>>
  /\ UNCHANGED <<inv, mu, held, attempt, cache, stale, hook, lastRead, passRead, budget>>

\* The connection is down, or its answer is lost: the document is recorded all
\* the same, and a poll fails.
PublishStateFails(w) ==
  /\ At(w, "publish")
  /\ \/ /\ ~broker.up
        /\ UNCHANGED <<broker, budget>>
     \/ /\ broker.up
        /\ Mishap
        /\ broker' \in {broker, [broker EXCEPT !.state = held[w]]}
  /\ RecordReading(w)
  /\ \/ /\ w = "poll"
        /\ PollFails
     \/ /\ w = "command"
        /\ Go(w, "remember")
        /\ UNCHANGED <<mu, health, polls>>
  /\ UNCHANGED <<inv, held, attempt, cache, stale, hook, lastRead, passRead>>

\* maybeReconcile through the gate: the setpoints in hand are repaired, or left.
Reconcile ==
  /\ At("poll", "reconcile")
  /\ ~stale
  /\ \/ UNCHANGED <<inv, budget>>
     \/ /\ budget.repairs > 0
        /\ budget' = [budget EXCEPT !.repairs = @ - 1]
        /\ inv' = inv + 1
  /\ Unlock("poll")
  /\ UNCHANGED <<held, attempt, cache, stale, health, page, broker, hook, lastRead,
                 passRead, polls>>

\* The gate skips a cycle whose setpoints were reused.
SkipReconcile ==
  /\ At("poll", "reconcile")
  /\ stale
  /\ Unlock("poll")
  /\ UNCHANGED <<inv, held, attempt, cache, stale, health, page, broker, hook, lastRead,
                 passRead, polls, budget>>

-----------------------------------------------------------------------------
(* The connection and the reconnect hooks (fireOnUp, republisher.run).     *)

job == <<inv, mu, pc, held, attempt, cache, stale, health, page, lastRead, passRead, polls>>

\* The session, and with it the subscription, ends with the connection.  (The
\* connections of a behaviour are bounded by its hooks.)
ConnectionLost ==
  /\ broker.up
  /\ \E h \in Hooks : hook[h].at = "none"
  /\ Mishap
  /\ broker' = [broker EXCEPT !.up = FALSE, !.subscribed = FALSE]
  /\ UNCHANGED job
  /\ UNCHANGED hook

\* autopaho reconnects and fires a hook.
ConnectionUp(h) ==
  /\ ~broker.up
  /\ hook[h].at = "none"
  /\ broker' = [broker EXCEPT !.up = TRUE]
  /\ hook' = [hook EXCEPT ![h].at = "lastState"]
  /\ UNCHANGED job
  /\ UNCHANGED budget

\* A publish or subscribe of a hook, with result b when it arrives: it fails when
\* the connection is down, or when its answer does not come.
HookCall(b) ==
  \/ broker.up /\ broker' = b /\ UNCHANGED budget
  \/ ~broker.up /\ UNCHANGED <<broker, budget>>
  \/ broker.up /\ Mishap /\ UNCHANGED broker

\* Discovery and "online" are published (see Lifecycle), and the cache is read:
\* LastState, under cacheMu alone.
HookLastState(h) ==
  /\ hook[h].at = "lastState"
  /\ hook' = [hook EXCEPT ![h] = IF cache.have THEN [at |-> "publish", sp |-> cache.sp]
                                 ELSE [at |-> "subscribe", sp |-> 0]]
  /\ UNCHANGED job
  /\ UNCHANGED <<broker, budget>>

HookPublish(h) ==
  /\ hook[h].at = "publish"
  /\ HookCall([broker EXCEPT !.state = hook[h].sp])
  /\ hook' = [hook EXCEPT ![h].at = "subscribe"]
  /\ UNCHANGED job

HookSubscribe(h) ==
  /\ hook[h].at = "subscribe"
  /\ HookCall([broker EXCEPT !.subscribed = TRUE])
  /\ hook' = [hook EXCEPT ![h] = [at |-> "done", sp |-> 0]]
  /\ UNCHANGED job

-----------------------------------------------------------------------------
\* serve has connected and run its eager republish: nothing is cached yet.
Init ==
  /\ inv = 1
  /\ mu = "free"
  /\ pc = [w \in Actors |-> "idle"]
  /\ held = [w \in Actors |-> 0]
  /\ attempt = 0
  /\ cache = [have |-> FALSE, sp |-> 0]
  /\ stale = FALSE
  /\ health = [ready |-> FALSE, failures |-> 0]
  /\ page = [have |-> FALSE, sp |-> 0, dated |-> "never"]
  /\ broker = [up |-> TRUE, subscribed |-> TRUE, state |-> NoDoc]
  /\ hook = [h \in Hooks |-> [at |-> "none", sp |-> 0]]
  /\ lastRead = 0
  /\ passRead = FALSE
  /\ polls = <<>>
  /\ budget = [commands |-> MaxCommands, repairs |-> MaxRepairs, mishaps |-> MaxMishaps]

Job(w) ==
  \/ ReadTelemetry(w) \/ ReadTelemetryFails(w)
  \/ ReadSetpoints(w) \/ ReadSetpointsFails(w)
  \/ RememberState(w)
  \/ PublishState(w) \/ PublishStateFails(w)

Hook(h) == HookLastState(h) \/ HookPublish(h) \/ HookSubscribe(h)

Next ==
  \/ Ticker \/ Deliver
  \/ \E w \in Actors : Lock(w) \/ Job(w)
  \/ Route \/ Reject
  \/ Reconcile \/ SkipReconcile
  \/ ConnectionLost
  \/ \E h \in Hooks : ConnectionUp(h) \/ Hook(h)

Spec == Init /\ [][Next]_vars

\* Every call has a timeout, so a job and a hook go on; the ticker ticks; Go's
\* mutex starves no waiter; autopaho keeps reconnecting.
Fairness ==
  /\ WF_vars(Ticker)
  /\ \A w \in Actors : SF_vars(Lock(w)) /\ WF_vars(Job(w))
  /\ WF_vars(Route \/ Reject)
  /\ WF_vars(Reconcile \/ SkipReconcile)
  /\ WF_vars(\E h \in Hooks : ConnectionUp(h))
  /\ \A h \in Hooks : WF_vars(Hook(h))

FairSpec == Spec /\ Fairness

-----------------------------------------------------------------------------
(* Properties.                                                             *)

Places == {"idle", "lock", "write", "telemetry", "setpoints", "remember", "publish",
           "reconcile"}

TypeOK ==
  /\ inv \in Versions
  /\ mu \in Actors \cup {"free"}
  /\ pc \in [Actors -> Places]
  /\ held \in [Actors -> Versions]
  /\ attempt \in 0 .. MaxRetries
  /\ cache \in [have : BOOLEAN, sp : Versions]
  /\ stale \in BOOLEAN
  /\ health \in [ready : BOOLEAN, failures : 0 .. FailureThreshold]
  /\ page \in [have : BOOLEAN, sp : Versions, dated : {"now", "earlier", "never"}]
  /\ broker \in [up : BOOLEAN, subscribed : BOOLEAN,
                 state : Versions \cup {NoDoc}]
  /\ hook \in [Hooks -> [at : {"none", "lastState", "publish", "subscribe", "done"},
                         sp : Versions]]
  /\ lastRead \in Versions
  /\ passRead \in BOOLEAN
  /\ polls \in Seq(BOOLEAN) /\ Len(polls) <= FailureThreshold
  /\ budget \in [commands : 0 .. MaxCommands, repairs : 0 .. MaxRepairs,
                 mishaps : 0 .. MaxMishaps]

\* apiMu makes a whole poll atomic against a command, and the freshness gate
\* closes on reused setpoints: what a reconcile is handed is what the inverter
\* holds.
ReconcileSeesInverter == At("poll", "reconcile") /\ ~stale => held["poll"] = inv

\* Between jobs the cache that a reconnect republishes from, and the status page,
\* show the setpoints that were last read, and never blank ones after a first
\* read (newStateReader, refresh): whatever reads and publishes fail.
CacheIsLastRead ==
  mu = "free" =>
    /\ cache.have => cache.sp = lastRead
    /\ page.have => page.sp = lastRead
    /\ lastRead # 0 => cache.have /\ page.have

\* The page presents setpoints as current only when they were read on the pass it
\* reports (RecordReading, setpointsLine).
PageDatesSetpoints ==
  [][page' # page => (page'.dated = "now" <=> passRead)]_vars

\* /readyz: ready exactly when one of the last FailureThreshold polls succeeded.
ReadyMeansRecent == health.ready <=> \E k \in 1 .. Len(polls) : polls[k]

\* Every delivered command is carried out or rejected, and gives apiMu back.
CommandsEnd == At("command", "lock") ~> At("command", "idle")

\* Once nothing changes and nothing fails, the retained state document comes to
\* show the inverter, and a late republish of a hook does not last.
StateSettles == <>[](broker.state = inv)
=============================================================================
