-------------------------- MODULE LifecycleProofs ---------------------------
(***************************************************************************)
(* Proofs about Lifecycle, for every number of reconnect hooks and of      *)
(* commands.                                                               *)
(***************************************************************************)
EXTENDS Lifecycle, TLAPS

-----------------------------------------------------------------------------
(* The inductive invariant.                                                *)

\* runServe up to waitForExit, and its teardown from the drained scheduler on.
Serving == {"wait", "connect", "await", "store", "handler", "start", "running"}

Drained == {"offline", "close", "drainHook", "disconnect", "stopHealth"}

\* The publisher is stored once there is one, before the eager republish.
ServiceStored ==
  /\ main \in {"wait", "connect", "await", "store"} => ~svc
  /\ main \in {"handler", "start", "running"} => svc

\* The scheduler does not run before it is started.
SchedulerWaits == main \in Serving \ {"running"} => sched = "none"

\* Without a broker nothing connects, and nothing of a connection is torn down.
BrokerOnly ==
  ~conf.broker =>
    /\ cm = "none"
    /\ \A h \in Hooks : pass[h] = "none"
    /\ main \notin {"connect", "await", "store", "offline", "close", "drainHook", "disconnect"}

\* The exit code is settled on leaving waitForExit, by the reason for leaving.
Reason ==
  /\ main \in Serving => code = 0 /\ (cancelled => signal)
  /\ main \in Drained \cup {"drain"} => /\ code = 0 => signal
                                        /\ code = 1 => health = "failed"

\* What the teardown has finished stays finished.
TornDown ==
  /\ main \in Drained => sched = "done"
  /\ closing => main \in {"drainHook", "disconnect", "stopHealth", "exited"}
  /\ main \in {"drainHook", "disconnect"} => closing
  /\ main = "stopHealth" => cm \in {"none", "ended"} /\ (conf.broker => closing)
  /\ main \in {"disconnect", "stopHealth"} /\ ~expired => \A h \in Hooks : ~active(h)

MainInv == ServiceStored /\ SchedulerWaits /\ BrokerOnly /\ Reason /\ TornDown /\ ExitAfterTeardown

\* The announcement is made, or a pass is under way that will make it on this
\* connection: one that has not announced yet, or whose announcement stands.
Announced == broker.avail = "online" /\ (conf.controls => broker.subscribed)

onTrack(r) ==
  \/ pass[r] = "begin" /\ svc
  \/ pass[r] = "announce"
  \/ pass[r] = "subscribe" /\ broker.avail = "online"

AnnouncedOrDue ==
  /\ cm = "up" => ~broker.will
  /\ main = "running" => ~active("main")
  /\ cm = "up" /\ ~missed /\ main \in {"start", "running"} =>
       Announced \/ \E r \in Passes : onTrack(r)

IInv == TypeOK /\ MainInv /\ AnnouncedOrDue

-----------------------------------------------------------------------------
(* The order of startup and teardown.                                      *)

LEMMA StartupMainInv ==
  ASSUME TypeOK, MainInv, Startup
  PROVE  MainInv'
<1> USE DEF MainInv, ServiceStored, SchedulerWaits, BrokerOnly, Reason, TornDown,
            ExitAfterTeardown, Serving, Drained, Step, active, started, work, link
<1>1. CASE waitForSidecar
  BY <1>1 DEF waitForSidecar
<1>2. CASE Connect
  BY <1>2 DEF Connect
<1>3. CASE AwaitConnection
  BY <1>3 DEF AwaitConnection
<1>4. CASE AwaitFails
  BY <1>4 DEF AwaitFails
<1>5. CASE StoreService
  BY <1>5 DEF StoreService
<1>6. CASE SetOnMessage
  BY <1>6, LifecycleAssumption DEF SetOnMessage, TypeOK, Passes
<1>7. CASE StartScheduler
  BY <1>7 DEF StartScheduler
<1> QED
  BY <1>1, <1>2, <1>3, <1>4, <1>5, <1>6, <1>7 DEF Startup

LEMMA TeardownMainInv ==
  ASSUME TypeOK, MainInv, Teardown
  PROVE  MainInv'
<1> USE DEF MainInv, ServiceStored, SchedulerWaits, BrokerOnly, Reason, TornDown,
            ExitAfterTeardown, Serving, Drained, Step, active, started, work, link
<1>1. CASE ExitOnHealth
  BY <1>1 DEF ExitOnHealth
<1>2. CASE ExitOnSignal
  BY <1>2 DEF ExitOnSignal
<1>3. CASE DrainScheduler
  BY <1>3 DEF DrainScheduler
<1>4. CASE PublishOffline
  BY <1>4 DEF PublishOffline
<1>5. CASE CloseHooks
  BY <1>5 DEF CloseHooks
<1>6. CASE HooksDrained
  BY <1>6 DEF HooksDrained
<1>7. CASE Disconnect
  BY <1>7 DEF Disconnect
<1>8. CASE StopHealth
  BY <1>8 DEF StopHealth, TypeOK
<1> QED
  BY <1>1, <1>2, <1>3, <1>4, <1>5, <1>6, <1>7, <1>8 DEF Teardown

\* What runs beside runServe moves neither its place nor what it has settled; a
\* hook is launched only before the hooks are closed.
LEMMA BesideMainInv ==
  ASSUME TypeOK, MainInv, UNCHANGED <<conf, main, svc, code, closing>>,
         main # "exited" \/ UNCHANGED <<sched, cm, signal, health>>,
         sched \in {"none", "done"} => UNCHANGED sched,
         (cancelled' => signal') \/ UNCHANGED <<cancelled, signal>>, signal => signal',
         health = "failed" => health' = "failed",
         expired => expired',
         cm \in {"none", "ended"} => UNCHANGED cm,
         \/ UNCHANGED pass
         \/ ~closing /\ cm = "down"
         \/ \A h \in Hooks : /\ active(h)' => active(h)
                             /\ pass[h] = "none" => pass'[h] = "none"
  PROVE  MainInv'
BY DEF MainInv, ServiceStored, SchedulerWaits, BrokerOnly, Reason, TornDown,
       ExitAfterTeardown, Serving, Drained, active

LEMMA ConnectionMainInv ==
  ASSUME TypeOK, MainInv,
         ConnectionUp \/ ConnectionLost \/ ContextEnds \/ WillFires
  PROVE  MainInv'
<1>1. CASE ConnectionUp
  <2>1. UNCHANGED pass \/ ~closing
    BY <1>1 DEF ConnectionUp, fireOnUp
  <2> QED
    BY <1>1, <2>1, BesideMainInv DEF ConnectionUp, Alive, started, exit, work
<1>2. CASE ConnectionLost
  BY <1>2, BesideMainInv DEF ConnectionLost, Alive, started, exit, work
<1>3. CASE ContextEnds
  BY <1>3, BesideMainInv DEF ContextEnds, Alive, started, exit, work
<1>4. CASE WillFires
  BY <1>4, BesideMainInv DEF WillFires, started, exit, work
<1> QED
  BY <1>1, <1>2, <1>3, <1>4

LEMMA RepublishMainInv ==
  ASSUME TypeOK, MainInv, NEW r \in Passes, Republish(r)
  PROVE  MainInv'
<1>1. active(r)
  BY DEF Republish, Begin, Announce, Subscribe, active
<1>2. PICK place \in {"announce", "subscribe", "done"} : pass' = [pass EXCEPT ![r] = place]
  BY DEF Republish, Begin, Announce, Subscribe
<1>3. \A h \in Hooks : (active(h)' => active(h)) /\ (pass[h] = "none" => pass'[h] = "none")
  BY <1>1, <1>2 DEF active, TypeOK, Passes
<1>4. UNCHANGED <<started, exit, work, cm, closing>>
  BY DEF Republish, Begin, Announce, Subscribe
<1> QED
  BY <1>3, <1>4, BesideMainInv DEF started, exit, work

LEMMA WorkMainInv ==
  ASSUME TypeOK, MainInv,
         \/ Poll \/ Ticker \/ RunReturns \/ fireOnMessage \/ Command
         \/ DeadlineExpires \/ Signal \/ HealthFails
         \/ UNCHANGED vars
  PROVE  MainInv'
<1>1. CASE Poll \/ Ticker \/ RunReturns \/ fireOnMessage \/ Command
  BY <1>1, BesideMainInv DEF Poll, PollLocks, PollEnds, Ticker, RunReturns, fireOnMessage,
     Command, ApplyCommand, CommandEnds, Alive, started, exit, link
<1>2. CASE DeadlineExpires
  BY <1>2, BesideMainInv DEF DeadlineExpires, Alive, started, work, link
<1>3. CASE Signal
  BY <1>3, BesideMainInv DEF Signal, Alive, started, work, link
<1>4. CASE HealthFails
  BY <1>4, BesideMainInv DEF HealthFails, Alive, started, work, link
<1>5. CASE UNCHANGED vars
  BY <1>5, BesideMainInv DEF vars, started, exit, work, link
<1> QED
  BY <1>1, <1>2, <1>3, <1>4, <1>5

LEMMA NextMainInv ==
  ASSUME TypeOK, MainInv, [Next]_vars
  PROVE  MainInv'
BY StartupMainInv, TeardownMainInv, ConnectionMainInv, RepublishMainInv, WorkMainInv DEF Next

-----------------------------------------------------------------------------
(* The announcement.                                                       *)

\* A step that leaves the connection, the broker and the passes alone, and does
\* not bring runServe to the republish or past it.
LEMMA AsideAnnounced ==
  ASSUME AnnouncedOrDue, UNCHANGED <<conf, svc, link>>,
         main' \in {"start", "running"} => UNCHANGED main
  PROVE  AnnouncedOrDue'
BY DEF AnnouncedOrDue, Announced, onTrack, active, link

LEMMA StartupAnnounced ==
  ASSUME TypeOK, MainInv, AnnouncedOrDue, Startup
  PROVE  AnnouncedOrDue'
<1>1. CASE waitForSidecar \/ AwaitConnection \/ StoreService
  BY <1>1 DEF waitForSidecar, AwaitConnection, StoreService, Step, AnnouncedOrDue, active, link
<1>2. CASE Connect \/ AwaitFails
  BY <1>2 DEF Connect, AwaitFails, Step, AnnouncedOrDue
<1>3. CASE SetOnMessage
  <2>1. main = "handler" /\ main' = "start" /\ UNCHANGED <<conf, svc, cm, broker, missed>>
    BY <1>3 DEF SetOnMessage, Step
  <2>2. cm = "up" => conf.broker /\ svc
    BY <2>1 DEF MainInv, BrokerOnly, ServiceStored
  <2>3. conf.broker => pass'["main"] = "begin"
    BY <1>3 DEF SetOnMessage, TypeOK, Passes
  <2>4. cm' = "up" => onTrack("main")'
    BY <2>1, <2>2, <2>3 DEF onTrack
  <2> QED
    BY <2>1, <2>4 DEF AnnouncedOrDue, Passes
<1>4. CASE StartScheduler
  BY <1>4 DEF StartScheduler, Step, AnnouncedOrDue, Announced, onTrack, active, link, started
<1> QED
  BY <1>1, <1>2, <1>3, <1>4 DEF Startup

LEMMA TeardownAnnounced ==
  ASSUME TypeOK, AnnouncedOrDue, Teardown
  PROVE  AnnouncedOrDue'
<1>1. main' \notin {"start", "running"}
  BY DEF Teardown, ExitOnHealth, ExitOnSignal, DrainScheduler, PublishOffline, CloseHooks,
         HooksDrained, Disconnect, StopHealth, Step
<1>2. cm' = "up" => ~broker'.will
  <2>1. CASE PublishOffline
    BY <2>1 DEF PublishOffline, Call, AnnouncedOrDue, TypeOK
  <2>2. CASE Disconnect
    BY <2>2 DEF Disconnect
  <2>3. CASE UNCHANGED <<cm, broker>>
    BY <2>3 DEF AnnouncedOrDue
  <2> QED
    BY <2>1, <2>2, <2>3 DEF Teardown, ExitOnHealth, ExitOnSignal, DrainScheduler, CloseHooks,
                            HooksDrained, StopHealth, link
<1> QED
  BY <1>1, <1>2 DEF AnnouncedOrDue

LEMMA ConnectionAnnounced ==
  ASSUME TypeOK, MainInv, AnnouncedOrDue,
         ConnectionUp \/ ConnectionLost \/ ContextEnds \/ WillFires
  PROVE  AnnouncedOrDue'
<1>1. CASE ConnectionUp
  <2>1. ~broker'.will
    BY <1>1 DEF ConnectionUp, TypeOK
  <2>2. UNCHANGED <<main, svc, conf>>
    BY <1>1 DEF ConnectionUp, started, exit
  <2>3. CASE main \in {"start", "running"}
    <3>1. ~closing /\ svc
      BY <2>3 DEF MainInv, TornDown, ServiceStored
    <3>2. PICK h \in Hooks : pass' = [pass EXCEPT ![h] = "begin"]
      BY <1>1, <3>1 DEF ConnectionUp, fireOnUp
    <3>3. h \in Passes /\ h # "main" /\ "main" \in Passes
      BY LifecycleAssumption DEF Passes
    <3>4. onTrack(h)'
      BY <2>2, <3>1, <3>2, <3>3 DEF onTrack, TypeOK
    <3>5. pass'["main"] = pass["main"]
      BY <3>2, <3>3 DEF TypeOK
    <3> QED
      BY <2>1, <2>2, <3>3, <3>4, <3>5 DEF AnnouncedOrDue, active
  <2> QED
    BY <2>1, <2>2, <2>3 DEF AnnouncedOrDue
<1>2. CASE ConnectionLost
  BY <1>2 DEF ConnectionLost, AnnouncedOrDue, active, exit
<1>3. CASE ContextEnds
  BY <1>3 DEF ContextEnds, AnnouncedOrDue, active, exit
<1>4. CASE WillFires
  <2>1. cm # "up" /\ UNCHANGED <<cm, main, pass>>
    BY <1>4 DEF WillFires, AnnouncedOrDue, exit
  <2> QED
    BY <2>1 DEF AnnouncedOrDue, active
<1> QED
  BY <1>1, <1>2, <1>3, <1>4

\* A pass that is on track stays so until it has announced and subscribed, or a
\* call has failed; the steps of another pass do not hinder it.
LEMMA RepublishAnnounced ==
  ASSUME TypeOK, MainInv, AnnouncedOrDue, NEW r \in Passes, Republish(r)
  PROVE  AnnouncedOrDue'
<1>1. UNCHANGED <<main, svc, conf, cm>>
  BY DEF Republish, Begin, Announce, Subscribe, started, exit
<1>2. cm = "up" => ~broker'.will
  BY DEF Republish, Begin, Announce, Subscribe, Call, AnnouncedOrDue, TypeOK
<1>3. main = "running" => ~active("main")'
  <2>1. main = "running" => r # "main"
    BY DEF Republish, Begin, Announce, Subscribe, AnnouncedOrDue, active
  <2>2. r # "main" => pass'["main"] = pass["main"]
    BY DEF Republish, Begin, Announce, Subscribe, TypeOK, Passes
  <2> QED
    BY <2>1, <2>2 DEF AnnouncedOrDue, active
<1>4. ASSUME cm = "up", ~missed', main \in {"start", "running"}
      PROVE  Announced' \/ \E q \in Passes : onTrack(q)'
  <2>1. ~missed
    BY <1>4 DEF Republish, Begin, Announce, Subscribe, Call
  <2>2. svc
    BY <1>4 DEF MainInv, ServiceStored
  <2>3. CASE Begin(r)
    <3>1. pass'[r] = "announce"
      BY <2>2, <2>3 DEF Begin, TypeOK
    <3> QED
      BY <3>1 DEF onTrack
  <2>4. CASE Announce(r)
    <3>1. broker'.avail = "online"
      BY <1>4, <2>1, <2>4 DEF Announce, Call, TypeOK
    <3>2. pass'[r] = IF conf.controls THEN "subscribe" ELSE "done"
      BY <2>4 DEF Announce, TypeOK
    <3> QED
      BY <1>1, <3>1, <3>2 DEF Announced, onTrack
  <2>5. CASE Subscribe(r)
    <3>1. broker'.subscribed /\ broker'.avail = broker.avail
      BY <1>4, <2>1, <2>5 DEF Subscribe, Call, TypeOK
    <3>2. \A q \in Passes : q # r => pass'[q] = pass[q]
      BY <2>5 DEF Subscribe, TypeOK
    <3>3. pass[r] = "subscribe"
      BY <2>5 DEF Subscribe
    <3>4. Announced \/ \E q \in Passes : onTrack(q)
      BY <1>4, <2>1 DEF AnnouncedOrDue
    <3>5. CASE broker.avail = "online"
      BY <3>1, <3>5 DEF Announced
    <3>6. CASE broker.avail # "online"
      <4>1. PICK q \in Passes : onTrack(q)
        BY <3>4, <3>6 DEF Announced
      <4>2. q # r
        BY <3>3, <3>6, <4>1 DEF onTrack
      <4>3. onTrack(q)'
        BY <1>1, <3>1, <3>2, <4>1, <4>2 DEF onTrack
      <4> QED
        BY <4>3
    <3> QED
      BY <3>5, <3>6
  <2> QED
    BY <2>3, <2>4, <2>5 DEF Republish
<1> QED
  BY <1>1, <1>2, <1>3, <1>4 DEF AnnouncedOrDue

LEMMA NextAnnounced ==
  ASSUME TypeOK, MainInv, AnnouncedOrDue, [Next]_vars
  PROVE  AnnouncedOrDue'
<1>1. CASE Poll \/ Ticker \/ RunReturns \/ fireOnMessage \/ Command
  BY <1>1, AsideAnnounced DEF Poll, PollLocks, PollEnds, Ticker, RunReturns, fireOnMessage,
     Command, ApplyCommand, CommandEnds, started, exit
<1>2. CASE DeadlineExpires \/ Signal \/ HealthFails
  BY <1>2, AsideAnnounced DEF DeadlineExpires, Signal, HealthFails, started
<1>3. CASE UNCHANGED vars
  BY <1>3, AsideAnnounced DEF vars, started, exit
<1> QED
  BY <1>1, <1>2, <1>3, StartupAnnounced, TeardownAnnounced, ConnectionAnnounced,
     RepublishAnnounced DEF Next

-----------------------------------------------------------------------------
(* Types.                                                                  *)

Brokers == [avail : {"none", "online", "offline"}, subscribed : BOOLEAN, will : BOOLEAN]

PassPlaces == {"none", "begin", "announce", "subscribe", "done"}

LEMMA SessionEndsType ==
  ASSUME TypeOK, NEW clean \in BOOLEAN, SessionEnds(clean)
  PROVE  broker' \in Brokers
BY DEF TypeOK, SessionEnds, Brokers

LEMMA CallType ==
  ASSUME TypeOK, NEW b \in Brokers, Call(b)
  PROVE  broker' \in Brokers /\ missed' \in BOOLEAN
BY DEF TypeOK, Call, Brokers

LEMMA StartupType ==
  ASSUME TypeOK, MainInv, Startup
  PROVE  TypeOK'
<1> USE DEF Step, started, work, link
<1>1. CASE waitForSidecar
  BY <1>1 DEF TypeOK, waitForSidecar
<1>2. CASE Connect
  BY <1>2 DEF TypeOK, Connect
<1>3. CASE AwaitConnection
  BY <1>3 DEF TypeOK, AwaitConnection
<1>4. CASE AwaitFails
  <2>1. broker' \in Brokers
    BY <1>4, SessionEndsType DEF AwaitFails
  <2> QED
    BY <1>4, <2>1 DEF TypeOK, AwaitFails, Brokers
<1>5. CASE StoreService
  BY <1>5 DEF TypeOK, StoreService
<1>6. CASE SetOnMessage
  <2>1. pass' \in [Passes -> PassPlaces]
    BY <1>6 DEF TypeOK, SetOnMessage, PassPlaces
  <2>2. onMsg' \in BOOLEAN
    BY <1>6 DEF SetOnMessage
  <2> QED
    BY <1>6, <2>1, <2>2 DEF TypeOK, SetOnMessage, PassPlaces
<1>7. CASE StartScheduler
  BY <1>7 DEF TypeOK, StartScheduler, MainInv, SchedulerWaits, Serving
<1> QED
  BY <1>1, <1>2, <1>3, <1>4, <1>5, <1>6, <1>7 DEF Startup

LEMMA TeardownType ==
  ASSUME TypeOK, Teardown
  PROVE  TypeOK'
<1> USE DEF Step, started, work, link
<1>1. CASE ExitOnHealth
  BY <1>1 DEF TypeOK, ExitOnHealth
<1>2. CASE ExitOnSignal
  BY <1>2 DEF TypeOK, ExitOnSignal
<1>3. CASE DrainScheduler
  BY <1>3 DEF TypeOK, DrainScheduler
<1>4. CASE PublishOffline
  <2>1. [broker EXCEPT !.avail = "offline"] \in Brokers
    BY DEF TypeOK, Brokers
  <2>2. broker' \in Brokers /\ missed' \in BOOLEAN
    BY <1>4, <2>1, CallType DEF PublishOffline
  <2> QED
    BY <1>4, <2>2 DEF TypeOK, PublishOffline, Brokers
<1>5. CASE CloseHooks
  BY <1>5 DEF TypeOK, CloseHooks
<1>6. CASE HooksDrained
  BY <1>6 DEF TypeOK, HooksDrained
<1>7. CASE Disconnect
  <2>1. broker' \in Brokers
    BY <1>7, SessionEndsType DEF Disconnect
  <2> QED
    BY <1>7, <2>1 DEF TypeOK, Disconnect, Brokers
<1>8. CASE StopHealth
  BY <1>8 DEF TypeOK, StopHealth
<1> QED
  BY <1>1, <1>2, <1>3, <1>4, <1>5, <1>6, <1>7, <1>8 DEF Teardown

\* The polls and the commands exclude each other through apiMu.
LEMMA WorkType ==
  ASSUME TypeOK, Poll \/ Ticker \/ RunReturns \/ fireOnMessage \/ Command
  PROVE  TypeOK'
<1> USE DEF started, exit, link
<1>1. CASE PollLocks
  BY <1>1 DEF TypeOK, PollLocks
<1>2. CASE PollEnds
  BY <1>2 DEF TypeOK, PollEnds
<1>3. CASE Ticker
  BY <1>3 DEF TypeOK, Ticker
<1>4. CASE RunReturns
  BY <1>4 DEF TypeOK, RunReturns
<1>5. CASE fireOnMessage
  <2>1. commands' \in 0 .. MaxCommands
    BY <1>5, LifecycleAssumption DEF TypeOK, fireOnMessage
  <2> QED
    BY <1>5, <2>1 DEF TypeOK, fireOnMessage
<1>6. CASE ApplyCommand
  BY <1>6 DEF TypeOK, ApplyCommand
<1>7. CASE CommandEnds
  BY <1>7 DEF TypeOK, CommandEnds
<1> QED
  BY <1>1, <1>2, <1>3, <1>4, <1>5, <1>6, <1>7 DEF Poll, Command

LEMMA ConnectionType ==
  ASSUME TypeOK, ConnectionUp \/ ConnectionLost \/ ContextEnds \/ WillFires
  PROVE  TypeOK'
<1>1. UNCHANGED <<started, exit, work, closing, missed>>
  BY DEF ConnectionUp, ConnectionLost, ContextEnds, WillFires
<1>2. cm' \in {"none", "down", "up", "ended"}
  BY DEF TypeOK, ConnectionUp, ConnectionLost, ContextEnds, WillFires
<1>3. broker' \in Brokers
  <2>1. CASE ConnectionUp \/ WillFires
    BY <2>1 DEF TypeOK, ConnectionUp, WillFires, Brokers
  <2>2. CASE ConnectionLost \/ ContextEnds
    BY <2>2, SessionEndsType DEF ConnectionLost, ContextEnds
  <2> QED
    BY <2>1, <2>2
<1>4. pass' \in [Passes -> PassPlaces]
  BY DEF TypeOK, ConnectionUp, fireOnUp, ConnectionLost, ContextEnds, WillFires, PassPlaces,
         Passes
<1> QED
  BY <1>1, <1>2, <1>3, <1>4 DEF TypeOK, started, exit, work, Brokers, PassPlaces

LEMMA RepublishType ==
  ASSUME TypeOK, NEW r \in Passes, Republish(r)
  PROVE  TypeOK'
<1>1. UNCHANGED <<started, exit, work, cm, closing>>
  BY DEF Republish, Begin, Announce, Subscribe
<1>2. pass' \in [Passes -> PassPlaces]
  BY DEF TypeOK, Republish, Begin, Announce, Subscribe, PassPlaces
<1>3. broker' \in Brokers /\ missed' \in BOOLEAN
  <2>1. /\ [broker EXCEPT !.avail = "online"] \in Brokers
        /\ [broker EXCEPT !.subscribed = TRUE] \in Brokers
    BY DEF TypeOK, Brokers
  <2>2. CASE Begin(r)
    BY <2>2 DEF TypeOK, Begin, Brokers
  <2> QED
    BY <2>1, <2>2, CallType DEF Republish, Announce, Subscribe
<1> QED
  BY <1>1, <1>2, <1>3 DEF TypeOK, started, exit, work, Brokers, PassPlaces

LEMMA NextType ==
  ASSUME TypeOK, MainInv, [Next]_vars
  PROVE  TypeOK'
<1>1. CASE DeadlineExpires
  BY <1>1 DEF TypeOK, DeadlineExpires, started, work, link
<1>2. CASE Signal
  BY <1>2 DEF TypeOK, Signal, started, work, link
<1>3. CASE HealthFails
  BY <1>3 DEF TypeOK, HealthFails, started, work, link
<1>4. CASE UNCHANGED vars
  BY <1>4 DEF TypeOK, vars, started, exit, work, link
<1> QED
  BY <1>1, <1>2, <1>3, <1>4, StartupType, TeardownType, WorkType, ConnectionType,
     RepublishType DEF Next

-----------------------------------------------------------------------------
(* The theorems.                                                           *)

LEMMA Inductive == Spec => []IInv
<1>1. Init => IInv
  <2>1. Init => TypeOK
    <3>1. Init => /\ broker \in Brokers
                  /\ pass \in [Passes -> PassPlaces]
                  /\ commands \in 0 .. MaxCommands
      BY LifecycleAssumption DEF Init, Brokers, PassPlaces
    <3> QED
      BY <3>1 DEF Init, TypeOK, Brokers, PassPlaces
  <2>2. Init => MainInv
    BY DEF Init, MainInv, ServiceStored, SchedulerWaits, BrokerOnly, Reason, TornDown,
           ExitAfterTeardown, Serving, Drained, Passes
  <2>3. Init => AnnouncedOrDue
    BY DEF Init, AnnouncedOrDue
  <2> QED
    BY <2>1, <2>2, <2>3 DEF IInv
<1>2. IInv /\ [Next]_vars => IInv'
  BY NextType, NextMainInv, NextAnnounced DEF IInv
<1> QED
  BY <1>1, <1>2, PTL DEF Spec

\* Every variable keeps its type, and apiMu is held by the one poll or the one
\* command that runs.
THEOREM TypeCorrect == Spec => []TypeOK
<1>1. IInv => TypeOK
  BY DEF IInv
<1> QED
  BY <1>1, Inductive, PTL

\* republisher.run and the eager republish of runServe: a running manager whose
\* calls did not fail is online, and subscribed, once the hooks of the connection
\* are done, however the connections and the start interleave.
THEOREM OnlineWhenUp == Spec => []AnnouncedWhenUp
<1>1. ASSUME IInv PROVE AnnouncedWhenUp
  <2> SUFFICES ASSUME main = "running", cm = "up", ~missed, \A h \in Hooks : ~active(h)
               PROVE  Announced
    BY DEF AnnouncedWhenUp, Announced
  <2>1. \A r \in Passes : ~active(r)
    BY <1>1 DEF IInv, AnnouncedOrDue, Passes
  <2>2. \A r \in Passes : ~onTrack(r)
    BY <2>1 DEF active, onTrack
  <2> QED
    BY <1>1, <2>2 DEF IInv, AnnouncedOrDue
<1> QED
  BY <1>1, Inductive, PTL

\* teardown and drainHook: when the session is closed no poll runs, and unless
\* the deadline has passed no hook runs or is launched any more.
THEOREM DisconnectIsQuiet == Spec => []QuietAtDisconnect
<1>1. IInv => QuietAtDisconnect
  BY DEF IInv, MainInv, TornDown, Drained, QuietAtDisconnect
<1> QED
  BY <1>1, Inductive, PTL

\* waitForExit and teardown: a manager that had come up never ends without the
\* whole teardown, and its exit code tells the reason.
THEOREM ExitCodeTells == Spec => []ExitAfterTeardown
<1>1. IInv => ExitAfterTeardown
  BY DEF IInv, MainInv
<1> QED
  BY <1>1, Inductive, PTL
=============================================================================
