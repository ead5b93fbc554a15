----------------------------- MODULE Lifecycle ------------------------------
(***************************************************************************)
(* The life of the serve process (internal/cmd/serve.go): the order in     *)
(* which runServe starts things, the two ways out of waitForExit and the   *)
(* teardown, against the goroutines that run beside it: the scheduler, the *)
(* connection manager of internal/mqtt with its reconnect hooks, and the   *)
(* command the manager's subscription delivers.                            *)
(*                                                                         *)
(* What polls, commands and republishes do is in Scheduler; here a poll    *)
(* and a command only hold apiMu, and a republish pass is what decides the *)
(* availability and the subscription.  The connection manager (autopaho)   *)
(* is external: it keeps trying to connect, calls back on every connection *)
(* and ends, with a clean disconnect, when the context it was created with *)
(* is cancelled.                                                           *)
(***************************************************************************)
EXTENDS Integers

CONSTANTS
  Hooks,        \* the reconnect hooks that may run, one per connection
  MaxCommands   \* bound on the commands

ASSUME LifecycleAssumption == MaxCommands \in Nat /\ Hooks # {} /\ "main" \notin Hooks

VARIABLES
  conf,       \* a broker is configured; CONTROLS_ENABLED
  main,       \* where runServe is
  cancelled,  \* the run context is cancelled
  signal,     \* SIGTERM or SIGINT arrived
  health,     \* the health listener
  code,       \* the exit code
  sched,      \* the scheduler goroutine
  apiMu,      \* the holder of the scheduler's apiMu
  svc,        \* svcPtr is stored
  onMsg,      \* the message handler is installed
  cm,         \* the connection manager
  broker,     \* what the broker knows of the manager
  closing,    \* hookClosing, and with it the hook context cancelled
  pass,       \* the republish passes: the hooks, and the eager one of main
  command,    \* the command the transport goroutine handles
  expired,    \* shutdownTimeout has passed
  missed,     \* history: a publish or subscribe failed on a live connection
  commands    \* what is left of MaxCommands

started == <<conf, svc, onMsg>>
exit    == <<main, cancelled, signal, health, code, expired>>
work    == <<sched, apiMu, command, commands>>
link    == <<cm, broker, closing, pass, missed>>

vars == <<started, exit, work, link>>

-----------------------------------------------------------------------------
Passes == Hooks \cup {"main"}

active(r) == pass[r] \in {"begin", "announce", "subscribe"}

\* The process is there; with it go all its goroutines.
Alive == main # "exited"

\* runServe goes from one place to the next.
Step(from, to) ==
  /\ main = from
  /\ main' = to

\* A session ends: the broker forgets the subscription; the Will is left pending
\* unless the manager said goodbye.
SessionEnds(clean) ==
  broker' = [broker EXCEPT !.subscribed = FALSE,
                           !.will = IF cm = "up" THEN ~clean ELSE @]

\* A publish or subscribe, with effect b: refused without a connection, and
\* otherwise carried out or failed.
Call(b) ==
  \/ cm = "up" /\ broker' = b /\ UNCHANGED missed
  \/ cm = "up" /\ UNCHANGED broker /\ missed' = TRUE
  \/ cm # "up" /\ UNCHANGED <<broker, missed>>

-----------------------------------------------------------------------------
(* Startup.                                                                *)

\* The sidecar serves, or SIDECAR_STARTUP_TIMEOUT has passed, or the wait is
\* cancelled: startup goes on in every case.  Without a broker the publisher is
\* the discarding one.
waitForSidecar ==
  /\ Step("wait", IF conf.broker THEN "connect" ELSE "handler")
  /\ svc' = ~conf.broker
  /\ UNCHANGED <<conf, onMsg, cancelled, signal, health, code, expired, work, link>>

\* mqtt.Connect: the connection manager is created under the run context ...
Connect ==
  /\ Step("connect", "await")
  /\ cm' = "down"
  /\ UNCHANGED <<started, cancelled, signal, health, code, expired, work>>
  /\ UNCHANGED <<broker, closing, pass, missed>>

\* ... and AwaitConnection returns once it is up, ...
AwaitConnection ==
  /\ Step("await", "store")
  /\ cm = "up"
  /\ UNCHANGED <<started, cancelled, signal, health, code, expired, work, link>>

\* ... or fails with the cancelled context, and runServe with it: the process
\* ends with an error, and tears nothing down.
AwaitFails ==
  /\ Step("await", "exited")
  /\ cancelled
  /\ code' = 1
  /\ cm' = "ended"
  /\ SessionEnds(FALSE)
  /\ UNCHANGED <<started, cancelled, signal, health, expired, work, closing, pass, missed>>

\* svcPtr.Store.
StoreService ==
  /\ Step("store", "handler")
  /\ svc' = TRUE
  /\ UNCHANGED <<conf, onMsg, cancelled, signal, health, code, expired, work, link>>

\* Mutant: the announcement is left to the connection-up hook.
SetOnMessageOnly ==
  /\ Step("handler", "start")
  /\ onMsg' = (conf.broker /\ conf.controls)
  /\ UNCHANGED <<conf, svc, cancelled, signal, health, code, expired, work, link>>

\* The command handler is installed, and the eager republish begins.
SetOnMessage ==
  /\ Step("handler", "start")
  /\ onMsg' = (conf.broker /\ conf.controls)
  /\ pass' = IF conf.broker THEN [pass EXCEPT !["main"] = "begin"] ELSE pass
  /\ UNCHANGED <<conf, svc, cancelled, signal, health, code, expired, work>>
  /\ UNCHANGED <<cm, broker, closing, missed>>

\* The eager republish is over, and the scheduler goroutine polls at once.
StartScheduler ==
  /\ Step("start", "running")
  /\ ~active("main")
  /\ sched' = "lock"
  /\ UNCHANGED <<started, cancelled, signal, health, code, expired, link>>
  /\ UNCHANGED <<apiMu, command, commands>>

-----------------------------------------------------------------------------
(* waitForExit and the teardown.                                           *)

\* Mutant: the run context is left alone.
ExitOnHealthUncancelled ==
  /\ Step("running", "drain")
  /\ health = "failed"
  /\ code' = 1
  /\ UNCHANGED <<started, cancelled, signal, health, expired, work, link>>

\* Mutant: the error of the health server is dropped.
ExitOnHealthZero ==
  /\ Step("running", "drain")
  /\ health = "failed"
  /\ cancelled' = TRUE
  /\ code' = 0
  /\ UNCHANGED <<started, signal, health, expired, work, link>>

\* The health listener failed: the run context is cancelled here.
ExitOnHealth ==
  /\ Step("running", "drain")
  /\ health = "failed"
  /\ cancelled' = TRUE
  /\ code' = 1
  /\ UNCHANGED <<started, signal, health, expired, work, link>>

\* The run context is cancelled by a signal.
ExitOnSignal ==
  /\ Step("running", "drain")
  /\ cancelled
  /\ code' = 0
  /\ UNCHANGED <<started, cancelled, signal, health, expired, work, link>>

\* schedDone is closed.
DrainScheduler ==
  /\ Step("drain", IF conf.broker THEN "offline" ELSE "stopHealth")
  /\ sched = "done"
  /\ UNCHANGED <<started, cancelled, signal, health, code, expired, work, link>>

\* The retained "offline" is published, or its publish fails and is logged.
PublishOffline ==
  /\ Step("offline", "close")
  /\ Call([broker EXCEPT !.avail = "offline"])
  /\ UNCHANGED <<started, cancelled, signal, health, code, expired, work>>
  /\ UNCHANGED <<cm, closing, pass>>

\* Disconnect, first drainHook: no new hook, the context of the old ones cancelled.
CloseHooks ==
  /\ Step("close", "drainHook")
  /\ closing' = TRUE
  /\ UNCHANGED <<started, cancelled, signal, health, code, expired, work>>
  /\ UNCHANGED <<cm, broker, pass, missed>>

\* The hooks have returned, or the time is up.
HooksDrained ==
  /\ Step("drainHook", "disconnect")
  /\ (\A h \in Hooks : ~active(h)) \/ expired
  /\ UNCHANGED <<started, cancelled, signal, health, code, expired, work, link>>

\* The clean disconnect.
Disconnect ==
  /\ Step("disconnect", "stopHealth")
  /\ cm' = "ended"
  /\ SessionEnds(TRUE)
  /\ UNCHANGED <<started, cancelled, signal, health, code, expired, work>>
  /\ UNCHANGED <<closing, pass, missed>>

\* The health listener is shut down last, and the process is gone.
StopHealth ==
  /\ Step("stopHealth", "exited")
  /\ health' = IF health = "serving" THEN "stopped" ELSE health
  /\ UNCHANGED <<started, cancelled, signal, code, expired, work, link>>

\* shutdownTimeout runs over the publish and the disconnect.
DeadlineExpires ==
  /\ Alive
  /\ main \in {"offline", "close", "drainHook", "disconnect"}
  /\ ~expired
  /\ expired' = TRUE
  /\ UNCHANGED <<started, main, cancelled, signal, health, code, work, link>>

-----------------------------------------------------------------------------
(* The scheduler goroutine and the commands.                               *)

\* Run: a poll waits for apiMu and holds it.
PollLocks ==
  /\ Alive
  /\ sched = "lock" /\ apiMu = "free"
  /\ sched' = "poll" /\ apiMu' = "poll"
  /\ UNCHANGED <<started, exit, link, command, commands>>

\* Mutant: apiMu is not given back.
PollEndsLocked ==
  /\ Alive
  /\ sched = "poll"
  /\ sched' = "idle"
  /\ UNCHANGED <<started, exit, link, apiMu, command, commands>>

PollEnds ==
  /\ Alive
  /\ sched = "poll"
  /\ sched' = "idle" /\ apiMu' = "free"
  /\ UNCHANGED <<started, exit, link, command, commands>>

Ticker ==
  /\ Alive
  /\ sched = "idle"
  /\ sched' = "lock"
  /\ UNCHANGED <<started, exit, link, apiMu, command, commands>>

\* The select of Run sees the cancelled context; the deferred close runs.
RunReturns ==
  /\ Alive
  /\ sched = "idle" /\ cancelled
  /\ sched' = "done"
  /\ UNCHANGED <<started, exit, link, apiMu, command, commands>>

\* A command arrives: the handler runs on the transport goroutine, under a context
\* nobody cancels.  It is lost when no handler is installed yet.
fireOnMessage ==
  /\ Alive
  /\ cm = "up" /\ broker.subscribed
  /\ command = "none"
  /\ commands > 0
  /\ commands' = commands - 1
  /\ command' = IF onMsg THEN "lock" ELSE "none"
  /\ UNCHANGED <<started, exit, link, sched, apiMu>>

ApplyCommand ==
  /\ Alive
  /\ command = "lock" /\ apiMu = "free"
  /\ command' = "run" /\ apiMu' = "command"
  /\ UNCHANGED <<started, exit, link, sched, commands>>

CommandEnds ==
  /\ Alive
  /\ command = "run"
  /\ command' = "none" /\ apiMu' = "free"
  /\ UNCHANGED <<started, exit, link, sched, commands>>

-----------------------------------------------------------------------------
(* The connection manager, the hooks and the republish pass.               *)

\* Mutant: a hook is launched while the hooks are drained.
fireOnUpAlways ==
  \E h \in Hooks : pass[h] = "none" /\ pass' = [pass EXCEPT ![h] = "begin"]

\* A hook goroutine is launched, unless Disconnect has begun.
fireOnUp ==
  \/ closing /\ UNCHANGED pass
  \/ ~closing /\ \E h \in Hooks : pass[h] = "none" /\ pass' = [pass EXCEPT ![h] = "begin"]

\* A connection comes up.  An attempt under way is not stopped by the context.
ConnectionUp ==
  /\ Alive
  /\ cm = "down"
  /\ cm' = "up"
  /\ broker' = [broker EXCEPT !.will = FALSE]
  /\ fireOnUp
  /\ UNCHANGED <<started, exit, work, closing, missed>>

\* The connections of a behaviour are bounded by its hooks.
ConnectionLost ==
  /\ Alive
  /\ cm = "up"
  /\ \E h \in Hooks : pass[h] = "none"
  /\ cm' = "down"
  /\ SessionEnds(FALSE)
  /\ UNCHANGED <<started, exit, work, closing, pass, missed>>

\* The manager was created with the run context, and ends with it.
ContextEnds ==
  /\ Alive
  /\ cm \in {"up", "down"} /\ cancelled
  /\ cm' = "ended"
  /\ SessionEnds(TRUE)
  /\ UNCHANGED <<started, exit, work, closing, pass, missed>>

\* The broker publishes the Will of a session that was lost.
WillFires ==
  /\ broker.will
  /\ broker' = [broker EXCEPT !.will = FALSE, !.avail = "offline"]
  /\ UNCHANGED <<started, exit, work, cm, closing, pass, missed>>

\* republisher.run: without a publisher there is nothing to do.
Begin(r) ==
  /\ Alive
  /\ pass[r] = "begin"
  /\ pass' = [pass EXCEPT ![r] = IF svc THEN "announce" ELSE "done"]
  /\ UNCHANGED <<started, exit, work, cm, broker, closing, missed>>

\* Discovery, its removals, "online", and the last state.
Announce(r) ==
  /\ Alive
  /\ pass[r] = "announce"
  /\ Call([broker EXCEPT !.avail = "online"])
  /\ pass' = [pass EXCEPT ![r] = IF conf.controls THEN "subscribe" ELSE "done"]
  /\ UNCHANGED <<started, exit, work, cm, closing>>

Subscribe(r) ==
  /\ Alive
  /\ pass[r] = "subscribe"
  /\ Call([broker EXCEPT !.subscribed = TRUE])
  /\ pass' = [pass EXCEPT ![r] = "done"]
  /\ UNCHANGED <<started, exit, work, cm, closing>>

-----------------------------------------------------------------------------
(* What happens to the process.                                            *)

Signal ==
  /\ Alive
  /\ ~signal
  /\ signal' = TRUE /\ cancelled' = TRUE
  /\ UNCHANGED <<started, main, health, code, expired, work, link>>

\* ListenAndServe returns an error into the buffered healthErr.
HealthFails ==
  /\ Alive
  /\ health = "serving"
  /\ health' = "failed"
  /\ UNCHANGED <<started, main, cancelled, signal, code, expired, work, link>>

-----------------------------------------------------------------------------
Init ==
  /\ conf \in [broker : BOOLEAN, controls : BOOLEAN]
  /\ main = "wait"
  /\ cancelled = FALSE /\ signal = FALSE
  /\ health = "serving"
  /\ code = 0
  /\ sched = "none" /\ apiMu = "free"
  /\ svc = FALSE /\ onMsg = FALSE
  /\ cm = "none"
  /\ broker = [avail |-> "none", subscribed |-> FALSE, will |-> FALSE]
  /\ closing = FALSE
  /\ pass = [r \in Passes |-> "none"]
  /\ command = "none"
  /\ expired = FALSE
  /\ missed = FALSE
  /\ commands = MaxCommands

Startup ==
  \/ waitForSidecar \/ Connect \/ AwaitConnection \/ AwaitFails
  \/ StoreService \/ SetOnMessage \/ StartScheduler

Teardown ==
  \/ ExitOnHealth \/ ExitOnSignal \/ DrainScheduler \/ PublishOffline
  \/ CloseHooks \/ HooksDrained \/ Disconnect \/ StopHealth

Poll == PollLocks \/ PollEnds

Command == ApplyCommand \/ CommandEnds

Republish(r) == Begin(r) \/ Announce(r) \/ Subscribe(r)

Next ==
  \/ Startup \/ Teardown
  \/ Poll \/ Ticker \/ RunReturns
  \/ fireOnMessage \/ Command
  \/ ConnectionUp \/ ConnectionLost \/ ContextEnds \/ WillFires
  \/ \E r \in Passes : Republish(r)
  \/ DeadlineExpires \/ Signal \/ HealthFails

Spec == Init /\ [][Next]_vars

\* runServe goes on when it can; polls, commands and republishes end, because
\* every call in them has a timeout; Go's mutex and select are fair; autopaho
\* keeps trying until it is connected.
Fairness ==
  /\ WF_vars(Startup) /\ WF_vars(Teardown)
  /\ SF_vars(PollLocks) /\ WF_vars(PollEnds)
  /\ SF_vars(RunReturns)
  /\ SF_vars(ApplyCommand) /\ WF_vars(CommandEnds)
  /\ WF_vars(ConnectionUp)
  /\ \A r \in Passes : WF_vars(Republish(r))

FairSpec == Spec /\ Fairness

-----------------------------------------------------------------------------
(* Properties.                                                             *)

TypeOK ==
  /\ conf \in [broker : BOOLEAN, controls : BOOLEAN]
  /\ main \in {"wait", "connect", "await", "store", "handler", "start", "running", "drain",
               "offline", "close", "drainHook", "disconnect", "stopHealth", "exited"}
  /\ cancelled \in BOOLEAN /\ signal \in BOOLEAN
  /\ health \in {"serving", "failed", "stopped"}
  /\ code \in {0, 1}
  /\ sched \in {"none", "lock", "poll", "idle", "done"}
  /\ command \in {"none", "lock", "run"}
  /\ apiMu = (IF sched = "poll" THEN "poll" ELSE IF command = "run" THEN "command" ELSE "free")
  /\ ~(sched = "poll" /\ command = "run")
  /\ svc \in BOOLEAN /\ onMsg \in BOOLEAN
  /\ cm \in {"none", "down", "up", "ended"}
  /\ broker \in [avail : {"none", "online", "offline"}, subscribed : BOOLEAN, will : BOOLEAN]
  /\ closing \in BOOLEAN
  /\ pass \in [Passes -> {"none", "begin", "announce", "subscribe", "done"}]
  /\ expired \in BOOLEAN /\ missed \in BOOLEAN
  /\ commands \in 0 .. MaxCommands

\* Whenever the first connection-up fires, before or after svcPtr is stored, and
\* however often the connection is lost meanwhile: a running manager whose calls
\* did not fail is online, and subscribed to its commands, once the hooks of the
\* connection are done (republisher.run, the eager republish of runServe).
AnnouncedWhenUp ==
  /\ main = "running" /\ cm = "up"
  /\ ~cancelled /\ ~missed
  /\ \A h \in Hooks : ~active(h)
  => broker.avail = "online" /\ (conf.controls => broker.subscribed)

\* "guarantees no republish goroutine can still be publishing after the transport
\* is torn down" (Disconnect): when the session is closed no poll runs, and unless
\* the deadline has passed no hook runs or is launched any more.
QuietAtDisconnect ==
  main \in {"disconnect", "stopHealth"} =>
    /\ sched = "done"
    /\ ~expired => \A h \in Hooks : ~active(h)

\* A manager that had come up ends through the whole teardown: the scheduler
\* drained, the hooks closed and the session ended; with code zero only for a
\* signal, and one only for a failed health server (waitForExit, REQ-LC-08).
ExitAfterTeardown ==
  main = "exited" /\ svc =>
    /\ sched = "done"
    /\ cm \in {"none", "ended"} /\ (conf.broker => closing)
    /\ code = 0 => signal
    /\ code = 1 => health = "failed"

\* A signal, and a health server that fails, end the process, whatever polls,
\* commands and hooks are under way (waitForExit, teardown).  A health server that
\* fails before the first connection is noticed only after it, so the property
\* rests there on a broker that accepts in the end.
ShutdownEnds == (signal \/ health = "failed") ~> (main = "exited")

\* "A cancelled parent context (SIGTERM during startup) falls through silently to
\* the existing shutdown path" (waitForSidecar), and "the signal branch returns
\* nil" (REQ-LC-10): a signal, at whatever time, ends the process through the
\* teardown and with code zero.
SignalExitsCleanly ==
  main = "exited" /\ signal /\ health # "failed" =>
    code = 0 /\ sched = "done" /\ (conf.broker => closing)

\* "a clean disconnect suppresses the Will, so the explicit offline is what remains
\* retained" (docs/specs/03): a manager that was stopped, and none of whose calls
\* failed on a live connection, does not stay online.
OfflineRetained ==
  main = "exited" /\ code = 0 /\ ~missed => broker.avail # "online" \/ broker.will
=============================================================================
