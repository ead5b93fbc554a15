-------------------------- MODULE SchedulerProofs ---------------------------
(***************************************************************************)
(* Proofs about Scheduler, for every number of retries, every failure      *)
(* threshold, every set of reconnect hooks and every bound.                *)
(***************************************************************************)
EXTENDS Scheduler, TLAPS

-----------------------------------------------------------------------------
(* The inductive invariant.                                                *)

\* The places where a job holds apiMu, those before it has its setpoints in
\* hand, and those after.
Unread == {"write", "telemetry", "setpoints"}

Read == {"remember", "publish", "reconcile"}

\* apiMu is held by the job that is under way, and by no other.
LockOwned ==
  /\ \A w \in Actors : mu = w <=> pc[w] \in Unread \cup Read
  /\ pc["poll"] # "write"
  /\ pc["command"] # "reconcile"

\* A command that was delivered and has not touched the inverter yet.
pending == IF pc["command"] \in {"lock", "write"} THEN 1 ELSE 0

\* Every version of the setpoints is paid for by a command or a repair.
VersionsPaid ==
  inv + pending + budget.commands + budget.repairs <= 1 + MaxCommands + MaxRepairs

\* What a job has in hand is what was last read, and the freshness mark says
\* whether this job read it.
InHand ==
  \A w \in Actors :
    /\ pc[w] \in Unread => ~passRead
    /\ pc[w] \in Read => held[w] = lastRead /\ (stale <=> ~passRead)

\* From the reading to the reconcile nothing changes the inverter.
InStep == pc["poll"] \in Read /\ ~stale => held["poll"] = inv

\* The cache and the page show the last reading, but for the steps that are
\* still to bring it there.
CacheDue == passRead /\ (pc["poll"] = "remember" \/ pc["command"] \in {"publish", "remember"})

PageDue ==
  passRead /\ (pc["poll"] \in {"remember", "publish"} \/ pc["command"] = "publish")

CacheShown ==
  /\ ~cache.have => cache.sp = 0
  /\ ~CacheDue => /\ cache.have => cache.sp = lastRead
                  /\ lastRead # 0 => cache.have

PageShown ==
  ~PageDue => /\ page.have => page.sp = lastRead
              /\ lastRead # 0 => page.have

\* The failures counted are the last polls, and a ready manager has a success
\* just before them.
HealthCounted ==
  /\ health.failures <= Len(polls)
  /\ \A k \in 1 .. Len(polls) : k > Len(polls) - health.failures => ~polls[k]
  /\ health.ready => /\ health.failures < Len(polls)
                     /\ polls[Len(polls) - health.failures]
  /\ ~health.ready => health.failures = Len(polls)

JobInv == LockOwned /\ InHand /\ InStep /\ CacheShown /\ PageShown

IInv == TypeOK /\ VersionsPaid /\ JobInv /\ HealthCounted

-----------------------------------------------------------------------------
(* The lock, the setpoints in hand and what is shown.                      *)

\* The variables that JobInv speaks of.
jobInvVars == <<inv, mu, pc, held, cache, stale, page, lastRead, passRead>>

LEMMA JobInvUnchanged ==
  ASSUME JobInv, UNCHANGED jobInvVars
  PROVE  JobInv'
BY DEF JobInv, LockOwned, InHand, InStep, CacheShown, PageShown, CacheDue, PageDue, jobInvVars

LEMMA StartJobInv ==
  ASSUME TypeOK, JobInv, Ticker \/ Deliver
  PROVE  JobInv'
<1>1. PICK w \in Actors : /\ pc[w] = "idle" /\ pc' = [pc EXCEPT ![w] = "lock"]
                          /\ UNCHANGED <<inv, mu, held, cache, stale, page, lastRead, passRead>>
  BY DEF Ticker, Deliver, Actors, At, Go
<1> QED
  BY <1>1 DEF TypeOK, Actors, JobInv, LockOwned, InHand, InStep, CacheShown, PageShown, CacheDue,
              PageDue, Unread, Read

LEMMA LockJobInv ==
  ASSUME TypeOK, JobInv, NEW w \in Actors, Lock(w)
  PROVE  JobInv'
BY DEF TypeOK, Actors, JobInv, LockOwned, InHand, InStep, CacheShown, PageShown, CacheDue,
       PageDue, Unread, Read, Lock, At, Go

LEMMA RouteJobInv ==
  ASSUME TypeOK, JobInv, Route
  PROVE  JobInv'
BY DEF TypeOK, Actors, JobInv, LockOwned, InHand, InStep, CacheShown, PageShown, CacheDue,
       PageDue, Unread, Read, Route, At, Go

LEMMA ReadSetpointsJobInv ==
  ASSUME TypeOK, JobInv, NEW w \in Actors, ReadSetpoints(w)
  PROVE  JobInv'
BY DEF TypeOK, Actors, JobInv, LockOwned, InHand, InStep, CacheShown, PageShown, CacheDue,
       PageDue, Unread, Read, ReadSetpoints, At, Go, afterRead

LEMMA ReadSetpointsFailsJobInv ==
  ASSUME TypeOK, JobInv, NEW w \in Actors, ReadSetpointsFails(w)
  PROVE  JobInv'
BY DEF TypeOK, Actors, JobInv, LockOwned, InHand, InStep, CacheShown, PageShown, CacheDue,
       PageDue, Unread, Read, ReadSetpointsFails, At, Go, afterRead

LEMMA RememberStateJobInv ==
  ASSUME TypeOK, JobInv, NEW w \in Actors, RememberState(w)
  PROVE  JobInv'
BY DEF TypeOK, Actors, JobInv, LockOwned, InHand, InStep, CacheShown, PageShown, CacheDue,
       PageDue, Unread, Read, RememberState, At, Go, Unlock

\* A job that ends before it has read its setpoints, or after it has shown them.
LEMMA EndJobInv ==
  ASSUME TypeOK, JobInv, NEW w \in Actors, mu = w, Unlock(w), ~CacheDue, ~PageDue,
         UNCHANGED <<held, cache, stale, page, lastRead, passRead>>
  PROVE  JobInv'
BY DEF TypeOK, Actors, JobInv, LockOwned, InHand, InStep, CacheShown, PageShown, CacheDue,
       PageDue, Unread, Read, Unlock, Go

LEMMA RejectJobInv ==
  ASSUME TypeOK, JobInv, Reject
  PROVE  JobInv'
<1>1. mu = "command" /\ ~CacheDue /\ ~PageDue
  BY DEF Reject, At, Actors, JobInv, LockOwned, InHand, CacheDue, PageDue, Unread
<1> QED
  BY <1>1, EndJobInv DEF Reject, Actors

LEMMA ReadTelemetryJobInv ==
  ASSUME TypeOK, JobInv, NEW w \in Actors, ReadTelemetry(w)
  PROVE  JobInv'
BY DEF TypeOK, Actors, JobInv, LockOwned, InHand, InStep, CacheShown, PageShown, CacheDue,
       PageDue, Unread, Read, ReadTelemetry, At, Go

LEMMA ReadTelemetryFailsJobInv ==
  ASSUME TypeOK, JobInv, NEW w \in Actors, ReadTelemetryFails(w)
  PROVE  JobInv'
<1>1. mu = w /\ ~CacheDue /\ ~PageDue
  BY DEF ReadTelemetryFails, At, Actors, JobInv, LockOwned, InHand, CacheDue, PageDue, Unread
<1>2. CASE Unlock(w)
  BY <1>1, <1>2, EndJobInv DEF ReadTelemetryFails
<1>3. CASE UNCHANGED <<mu, pc>>
  BY <1>3, JobInvUnchanged DEF ReadTelemetryFails, jobInvVars
<1> QED
  BY <1>2, <1>3 DEF ReadTelemetryFails, PollFails

\* RecordReading shows what the job has in hand, whether the publish succeeds or
\* not; a poll that succeeds goes on to the reconcile, one that fails ends, and a
\* refresh goes on to the cache.
LEMMA PublishJobInv ==
  ASSUME TypeOK, JobInv, NEW w \in Actors, At(w, "publish"), RecordReading(w),
         \/ w = "poll" /\ Go(w, "reconcile") /\ UNCHANGED mu
         \/ w = "poll" /\ Unlock(w)
         \/ w = "command" /\ Go(w, "remember") /\ UNCHANGED mu,
         UNCHANGED <<inv, held, cache, stale, lastRead, passRead>>
  PROVE  JobInv'
<1>1. page'.have /\ page'.sp = lastRead'
  BY DEF RecordReading, JobInv, InHand, At, Read
<1> QED
  BY <1>1 DEF TypeOK, Actors, JobInv, LockOwned, InHand, InStep, CacheShown, PageShown, CacheDue,
              PageDue, Unread, Read, Unlock, Go, At

LEMMA ReconcileJobInv ==
  ASSUME TypeOK, JobInv, Reconcile \/ SkipReconcile
  PROVE  JobInv'
<1>1. mu = "poll" /\ ~CacheDue /\ ~PageDue
  BY DEF Reconcile, SkipReconcile, At, Actors, JobInv, LockOwned, CacheDue, PageDue, Unread, Read
<1> QED
  BY <1>1, EndJobInv DEF Reconcile, SkipReconcile, Actors

LEMMA NextJobInv ==
  ASSUME TypeOK, JobInv, [Next]_vars
  PROVE  JobInv'
<1>1. CASE Ticker \/ Deliver
  BY <1>1, StartJobInv
<1>2. ASSUME NEW w \in Actors, Lock(w) PROVE JobInv'
  BY <1>2, LockJobInv
<1>3. ASSUME NEW w \in Actors, Job(w) PROVE JobInv'
  <2>1. CASE PublishState(w)
    BY <2>1, PublishJobInv DEF PublishState
  <2>2. CASE PublishStateFails(w)
    BY <2>2, PublishJobInv DEF PublishStateFails, PollFails
  <2> QED
    BY <1>3, <2>1, <2>2, ReadTelemetryJobInv, ReadTelemetryFailsJobInv, ReadSetpointsJobInv,
       ReadSetpointsFailsJobInv, RememberStateJobInv DEF Job
<1>4. CASE Route \/ Reject
  BY <1>4, RouteJobInv, RejectJobInv
<1>5. CASE Reconcile \/ SkipReconcile
  BY <1>5, ReconcileJobInv
<1>6. CASE ConnectionLost \/ \E h \in Hooks : ConnectionUp(h) \/ Hook(h)
  <2>1. UNCHANGED job
    BY <1>6 DEF ConnectionLost, ConnectionUp, Hook, HookLastState, HookPublish, HookSubscribe
  <2> QED
    BY <2>1, JobInvUnchanged DEF job, jobInvVars
<1>7. CASE UNCHANGED vars
  BY <1>7, JobInvUnchanged DEF vars, jobInvVars
<1> QED
  BY <1>1, <1>2, <1>3, <1>4, <1>5, <1>6, <1>7 DEF Next

-----------------------------------------------------------------------------
(* The versions of the setpoints.                                          *)

\* Only a command that was delivered, or a repair, makes a version.
LEMMA NextVersionsPaid ==
  ASSUME TypeOK, VersionsPaid, [Next]_vars
  PROVE  VersionsPaid'
<1> USE DEF VersionsPaid, pending
<1>0. /\ inv \in Int /\ MaxCommands \in Int /\ MaxRepairs \in Int
      /\ budget.commands \in Int /\ budget.repairs \in Int
      /\ budget = [commands |-> budget.commands, repairs |-> budget.repairs,
                   mishaps |-> budget.mishaps]
      /\ pc \in [Actors -> Places]
  BY SchedulerAssumption DEF TypeOK, Versions
<1>1. ASSUME UNCHANGED <<inv, pc>>, UNCHANGED <<budget>> \/ Mishap
      PROVE  VersionsPaid'
  BY <1>0, <1>1 DEF Mishap
<1>2. ASSUME UNCHANGED inv, NEW w \in Actors, NEW place \in Places \ {"lock", "write"},
             Go(w, place), UNCHANGED <<budget>> \/ Mishap
      PROVE  VersionsPaid'
  BY <1>0, <1>2 DEF Mishap, Go, Actors
<1>3. CASE Ticker
  BY <1>0, <1>3 DEF Ticker, Go, Actors
<1>4. CASE Deliver
  BY <1>0, <1>4 DEF Deliver, Go, Actors, At
<1>5. ASSUME NEW w \in Actors, Lock(w) PROVE VersionsPaid'
  BY <1>0, <1>5 DEF Lock, Go, Actors, At
<1>6. CASE Route
  BY <1>0, <1>6 DEF Route, Go, Actors, At
<1>7. CASE Reject
  BY <1>2, <1>7 DEF Reject, Unlock, Actors, Places
<1>8. ASSUME NEW w \in Actors, Job(w) PROVE VersionsPaid'
  <2>1. CASE ReadTelemetry(w)
    BY <1>2, <2>1 DEF ReadTelemetry, Places
  <2>2. CASE ReadTelemetryFails(w)
    BY <1>1, <1>2, <2>2 DEF ReadTelemetryFails, PollFails, Unlock, Places
  <2>3. CASE ReadSetpoints(w) \/ ReadSetpointsFails(w)
    BY <1>2, <2>3 DEF ReadSetpoints, ReadSetpointsFails, afterRead, Places
  <2>4. CASE RememberState(w)
    BY <1>2, <2>4 DEF RememberState, Unlock, Places
  <2>5. CASE PublishState(w)
    BY <1>2, <2>5 DEF PublishState, Places
  <2>6. CASE PublishStateFails(w)
    BY <1>2, <2>6 DEF PublishStateFails, PollFails, Unlock, Places
  <2> QED
    BY <1>8, <2>1, <2>2, <2>3, <2>4, <2>5, <2>6 DEF Job
<1>9. CASE Reconcile
  BY <1>0, <1>9 DEF Reconcile, Unlock, Go, Actors
<1>10. CASE SkipReconcile
  BY <1>2, <1>10 DEF SkipReconcile, Unlock, Actors, Places
<1>11. CASE ConnectionLost \/ \E h \in Hooks : ConnectionUp(h) \/ Hook(h)
  BY <1>1, <1>11 DEF ConnectionLost, ConnectionUp, Hook, HookLastState, HookPublish,
                     HookSubscribe, HookCall, job
<1>12. CASE UNCHANGED vars
  BY <1>1, <1>12 DEF vars
<1> QED
  BY <1>3, <1>4, <1>5, <1>6, <1>7, <1>8, <1>9, <1>10, <1>11, <1>12 DEF Next

-----------------------------------------------------------------------------
(* Readiness.                                                              *)

\* The outcomes of the last polls, the newest added and the oldest dropped.
Shifted(ok) ==
  /\ polls' \in Seq(BOOLEAN)
  /\ \/ /\ Len(polls) < FailureThreshold
        /\ Len(polls') = Len(polls) + 1
        /\ \A k \in 1 .. Len(polls) : polls'[k] = polls[k]
     \/ /\ Len(polls) = FailureThreshold
        /\ Len(polls') = Len(polls)
        /\ \A k \in 1 .. Len(polls) - 1 : polls'[k] = polls[k + 1]
  /\ polls'[Len(polls')] = ok

\* polls keeps the last FailureThreshold outcomes.
LEMMA OutcomeShape ==
  ASSUME TypeOK, NEW ok \in BOOLEAN, Outcome(ok)
  PROVE  Shifted(ok)
<1> DEFINE all == Append(polls, ok)
<1>1. /\ polls \in Seq(BOOLEAN) /\ Len(polls) \in Nat /\ Len(polls) <= FailureThreshold
      /\ FailureThreshold \in Nat \ {0}
  BY SchedulerAssumption DEF TypeOK
<1>2. /\ all \in Seq(BOOLEAN) /\ Len(all) = Len(polls) + 1 /\ all[Len(polls) + 1] = ok
      /\ \A k \in 1 .. Len(polls) : all[k] = polls[k]
  BY <1>1
<1>3. /\ Tail(all) \in Seq(BOOLEAN) /\ Len(Tail(all)) = Len(polls)
      /\ \A k \in 1 .. Len(polls) : Tail(all)[k] = all[k + 1]
  BY <1>2, <1>1
<1>4. polls' = IF Len(all) > FailureThreshold THEN Tail(all) ELSE all
  BY DEF Outcome
<1> HIDE DEF all
<1>5. CASE Len(polls) < FailureThreshold
  BY <1>1, <1>2, <1>4, <1>5 DEF Shifted
<1>6. CASE Len(polls) = FailureThreshold
  <2>1. polls' = Tail(all)
    BY <1>1, <1>2, <1>4, <1>6
  <2>2. \A k \in 1 .. Len(polls) - 1 : polls'[k] = polls[k + 1]
    BY <1>1, <1>2, <1>3, <2>1
  <2>3. polls'[Len(polls')] = ok
    BY <1>1, <1>2, <1>3, <1>6, <2>1
  <2> QED
    BY <1>3, <1>6, <2>1, <2>2, <2>3 DEF Shifted
<1> QED
  BY <1>1, <1>5, <1>6

LEMMA MarkSuccessCounted ==
  ASSUME TypeOK, HealthCounted, MarkSuccess, Outcome(TRUE)
  PROVE  HealthCounted'
<1>1. /\ health'.ready = TRUE /\ health'.failures = 0
      /\ Len(polls) \in Nat /\ FailureThreshold \in Nat \ {0}
  BY SchedulerAssumption DEF MarkSuccess, TypeOK
<1>2. Shifted(TRUE)
  BY OutcomeShape
<1>3. polls'[Len(polls')] /\ Len(polls') \in Nat /\ Len(polls') > 0
  BY <1>1, <1>2 DEF Shifted
<1> QED
  BY <1>1, <1>3 DEF HealthCounted

LEMMA MarkFailureCounted ==
  ASSUME TypeOK, HealthCounted, MarkFailure, Outcome(FALSE)
  PROVE  HealthCounted'
<1> DEFINE n == Len(polls)
           f == health.failures
           m == Len(polls')
<1>1. /\ f \in Nat /\ f <= FailureThreshold /\ n \in Nat /\ FailureThreshold \in Nat \ {0}
      /\ f <= n
  BY SchedulerAssumption DEF TypeOK, HealthCounted
<1>2. /\ health'.failures = nextFailures
      /\ health'.ready <=> health.ready /\ nextFailures < FailureThreshold
  BY DEF MarkFailure
<1>3. nextFailures = IF f < FailureThreshold THEN f + 1 ELSE FailureThreshold
  BY DEF nextFailures
<1>4. Shifted(FALSE)
  BY OutcomeShape
<1>5. m \in Nat /\ ~polls'[m]
  BY <1>4 DEF Shifted
<1>6. CASE n < FailureThreshold
  <2>1. m = n + 1 /\ \A k \in 1 .. n : polls'[k] = polls[k]
    BY <1>1, <1>4, <1>6 DEF Shifted
  <2>2. nextFailures = f + 1
    BY <1>1, <1>3, <1>6
  <2>3. \A k \in 1 .. m : k > m - (f + 1) => ~polls'[k]
    BY <1>1, <1>5, <2>1 DEF HealthCounted
  <2>4. health.ready => f < n /\ polls[n - f] /\ polls'[m - (f + 1)]
    BY <1>1, <2>1 DEF HealthCounted
  <2>5. health.ready => f + 1 < FailureThreshold
    BY <1>1, <1>6, <2>4
  <2>6. ~health.ready => f = n
    BY DEF HealthCounted
  <2> HIDE DEF n, f, m
  <2>7. /\ f + 1 <= m
        /\ health'.ready => f + 1 < m /\ polls'[m - (f + 1)]
        /\ ~health'.ready => f + 1 = m
    BY <1>1, <1>2, <2>1, <2>2, <2>4, <2>5, <2>6
  <2> QED
    BY <1>2, <2>2, <2>3, <2>7 DEF HealthCounted, m
<1>7. CASE n = FailureThreshold
  <2>1. m = n /\ \A k \in 1 .. n - 1 : polls'[k] = polls[k + 1]
    BY <1>1, <1>4, <1>7 DEF Shifted
  <2>2. \A k \in 1 .. m : k > m - nextFailures => ~polls'[k]
    BY <1>1, <1>3, <1>5, <1>7, <2>1 DEF HealthCounted
  <2>3. health.ready => f < n /\ polls[n - f]
    BY DEF HealthCounted
  <2>4. health'.ready => nextFailures < m /\ polls'[m - nextFailures]
    BY <1>1, <1>2, <1>3, <1>7, <2>1, <2>3
  <2>5. ~health.ready => f = n
    BY DEF HealthCounted
  <2> HIDE DEF n, f, m
  <2>6. nextFailures <= m /\ (~health'.ready => nextFailures = m)
    BY <1>1, <1>2, <1>3, <1>7, <2>1, <2>3, <2>5
  <2> QED
    BY <1>2, <2>2, <2>4, <2>6 DEF HealthCounted, m
<1> QED
  BY <1>1, <1>6, <1>7, SchedulerAssumption DEF TypeOK

LEMMA NextHealthCounted ==
  ASSUME TypeOK, HealthCounted, [Next]_vars
  PROVE  HealthCounted'
<1>1. CASE UNCHANGED <<health, polls>>
  BY <1>1 DEF HealthCounted
<1>2. \/ UNCHANGED <<health, polls>>
      \/ MarkSuccess /\ Outcome(TRUE)
      \/ MarkFailure /\ Outcome(FALSE)
  <2>1. ASSUME NEW w \in Actors, Lock(w) \/ Job(w)
        PROVE  \/ UNCHANGED <<health, polls>>
               \/ MarkSuccess /\ Outcome(TRUE)
               \/ MarkFailure /\ Outcome(FALSE)
    BY <2>1 DEF Lock, Job, ReadTelemetry, ReadTelemetryFails, ReadSetpoints, ReadSetpointsFails,
                RememberState, PublishState, PublishStateFails, PollFails
  <2>2. CASE Ticker \/ Deliver \/ Route \/ Reject \/ Reconcile \/ SkipReconcile
    BY <2>2 DEF Ticker, Deliver, Route, Reject, Reconcile, SkipReconcile
  <2>3. CASE ConnectionLost \/ \E h \in Hooks : ConnectionUp(h) \/ Hook(h)
    BY <2>3 DEF ConnectionLost, ConnectionUp, Hook, HookLastState, HookPublish, HookSubscribe,
                job
  <2>4. CASE UNCHANGED vars
    BY <2>4 DEF vars
  <2> QED
    BY <2>1, <2>2, <2>3, <2>4 DEF Next
<1> QED
  BY <1>1, <1>2, MarkSuccessCounted, MarkFailureCounted

-----------------------------------------------------------------------------
(* Types.                                                                  *)

LEMMA GoType ==
  ASSUME TypeOK, NEW w \in Actors, NEW place \in Places, Go(w, place)
  PROVE  pc' \in [Actors -> Places]
BY DEF TypeOK, Go

LEMMA MishapType ==
  ASSUME TypeOK, Mishap
  PROVE  budget' \in [commands : 0 .. MaxCommands, repairs : 0 .. MaxRepairs,
                      mishaps : 0 .. MaxMishaps]
BY SchedulerAssumption DEF TypeOK, Mishap

LEMMA UnlockType ==
  ASSUME TypeOK, NEW w \in Actors, Unlock(w)
  PROVE  mu' \in Actors \cup {"free"} /\ pc' \in [Actors -> Places]
BY GoType DEF Unlock, Places

\* The types of readiness and its history.
HealthType ==
  /\ health \in [ready : BOOLEAN, failures : 0 .. FailureThreshold]
  /\ polls \in Seq(BOOLEAN) /\ Len(polls) <= FailureThreshold

LEMMA OutcomeType ==
  ASSUME TypeOK, NEW ok \in BOOLEAN, Outcome(ok)
  PROVE  polls' \in Seq(BOOLEAN) /\ Len(polls') <= FailureThreshold
<1>1. Shifted(ok)
  BY OutcomeShape
<1> QED
  BY <1>1, SchedulerAssumption DEF Shifted, TypeOK

LEMMA MarkSuccessType ==
  ASSUME TypeOK, MarkSuccess, Outcome(TRUE)
  PROVE  HealthType'
<1>1. polls' \in Seq(BOOLEAN) /\ Len(polls') <= FailureThreshold
  BY OutcomeType
<1>2. health' \in [ready : BOOLEAN, failures : 0 .. FailureThreshold]
  BY SchedulerAssumption DEF MarkSuccess
<1> QED
  BY <1>1, <1>2 DEF HealthType

LEMMA MarkFailureType ==
  ASSUME TypeOK, MarkFailure, Outcome(FALSE)
  PROVE  HealthType'
<1>1. polls' \in Seq(BOOLEAN) /\ Len(polls') <= FailureThreshold
  BY OutcomeType
<1>2. nextFailures \in 0 .. FailureThreshold
  BY SchedulerAssumption DEF TypeOK, nextFailures
<1>3. health' \in [ready : BOOLEAN, failures : 0 .. FailureThreshold]
  BY <1>2 DEF MarkFailure
<1> QED
  BY <1>1, <1>3 DEF HealthType

\* A version that is paid for is in range.
LEMMA VersionInRange ==
  ASSUME VersionsPaid', inv' \in Nat,
         budget' \in [commands : 0 .. MaxCommands, repairs : 0 .. MaxRepairs,
                      mishaps : 0 .. MaxMishaps]
  PROVE  inv' \in Versions
<1>1. pending' \in {0, 1}
  BY DEF pending
<1> QED
  BY <1>1, SchedulerAssumption DEF VersionsPaid, Versions

LEMMA RecordReadingType ==
  ASSUME TypeOK, NEW w \in Actors, RecordReading(w)
  PROVE  page' \in [have : BOOLEAN, sp : Versions, dated : {"now", "earlier", "never"}]
<1> DEFINE d == CASE ~stale -> "now"
                  [] stale /\ (~page.have \/ page.dated = "never") -> "never"
                  [] OTHER -> "earlier"
<1>1. d \in {"now", "earlier", "never"}
  OBVIOUS
<1>2. page' = [have |-> TRUE, sp |-> held[w], dated |-> d]
  BY DEF RecordReading
<1> HIDE DEF d
<1> QED
  BY <1>1, <1>2 DEF TypeOK

LEMMA StartType ==
  ASSUME TypeOK, Ticker \/ Deliver
  PROVE  TypeOK'
<1>1. pc' \in [Actors -> Places]
  BY GoType DEF Ticker, Deliver, Actors, Places
<1>2. budget' \in [commands : 0 .. MaxCommands, repairs : 0 .. MaxRepairs,
                   mishaps : 0 .. MaxMishaps]
  BY SchedulerAssumption DEF TypeOK, Ticker, Deliver
<1> QED
  BY <1>1, <1>2 DEF TypeOK, Ticker, Deliver

LEMMA LockType ==
  ASSUME TypeOK, NEW w \in Actors, Lock(w)
  PROVE  TypeOK'
<1>1. pc' \in [Actors -> Places]
  BY GoType DEF Lock, Places
<1>2. mu' \in Actors \cup {"free"} /\ attempt' \in 0 .. MaxRetries
  BY SchedulerAssumption DEF Lock
<1>3. passRead' \in BOOLEAN
  BY DEF Lock
<1> QED
  BY <1>1, <1>2, <1>3 DEF TypeOK, Lock

LEMMA RouteRejectType ==
  ASSUME TypeOK, VersionsPaid', Route \/ Reject
  PROVE  TypeOK'
<1>1. pc' \in [Actors -> Places]
  BY GoType, UnlockType DEF Route, Reject, Actors, Places
<1>2. mu' \in Actors \cup {"free"}
  BY DEF Route, Reject, Unlock, TypeOK
<1>3. inv' \in Versions
  BY VersionInRange DEF TypeOK, Versions, Route, Reject
<1> QED
  BY <1>1, <1>2, <1>3 DEF TypeOK, Route, Reject

LEMMA ReadTelemetryType ==
  ASSUME TypeOK, NEW w \in Actors, ReadTelemetry(w) \/ ReadTelemetryFails(w)
  PROVE  TypeOK'
<1>1. CASE ReadTelemetry(w)
  <2>1. pc' \in [Actors -> Places]
    BY <1>1, GoType DEF ReadTelemetry, Places
  <2> QED
    BY <1>1, <2>1 DEF TypeOK, ReadTelemetry
<1>2. CASE ReadTelemetryFails(w)
  <2>1. pc' \in [Actors -> Places] /\ mu' \in Actors \cup {"free"}
    BY <1>2, UnlockType DEF ReadTelemetryFails, PollFails, TypeOK, Actors
  <2>2. HealthType'
    <3>1. CASE UNCHANGED <<health, polls>>
      BY <3>1 DEF TypeOK, HealthType
    <3> QED
      BY <1>2, <3>1, MarkFailureType DEF ReadTelemetryFails, PollFails
  <2>3. attempt' \in 0 .. MaxRetries
    BY <1>2, SchedulerAssumption DEF ReadTelemetryFails, mayRetry, TypeOK
  <2>4. budget' \in [commands : 0 .. MaxCommands, repairs : 0 .. MaxRepairs,
                     mishaps : 0 .. MaxMishaps]
    BY <1>2, MishapType DEF ReadTelemetryFails
  <2>5. UNCHANGED <<inv, held, cache, stale, page, broker, hook, lastRead, passRead>>
    BY <1>2 DEF ReadTelemetryFails
  <2> QED
    BY <2>1, <2>2, <2>3, <2>4, <2>5 DEF TypeOK, HealthType
<1> QED
  BY <1>1, <1>2

LEMMA ReadSetpointsType ==
  ASSUME TypeOK, NEW w \in Actors, ReadSetpoints(w) \/ ReadSetpointsFails(w)
  PROVE  TypeOK'
<1>1. pc' \in [Actors -> Places]
  BY GoType DEF ReadSetpoints, ReadSetpointsFails, afterRead, Places
<1>2. held' \in [Actors -> Versions]
  BY DEF ReadSetpoints, ReadSetpointsFails, TypeOK
<1>3. budget' \in [commands : 0 .. MaxCommands, repairs : 0 .. MaxRepairs,
                   mishaps : 0 .. MaxMishaps]
  BY MishapType DEF ReadSetpoints, ReadSetpointsFails, TypeOK
<1> QED
  BY <1>1, <1>2, <1>3 DEF TypeOK, ReadSetpoints, ReadSetpointsFails

LEMMA RememberStateType ==
  ASSUME TypeOK, NEW w \in Actors, RememberState(w)
  PROVE  TypeOK'
<1>1. pc' \in [Actors -> Places] /\ mu' \in Actors \cup {"free"}
  BY GoType, UnlockType DEF RememberState, Places, TypeOK
<1>2. cache' \in [have : BOOLEAN, sp : Versions]
  BY DEF RememberState, TypeOK
<1> QED
  BY <1>1, <1>2 DEF TypeOK, RememberState

LEMMA PublishType ==
  ASSUME TypeOK, NEW w \in Actors, PublishState(w) \/ PublishStateFails(w)
  PROVE  TypeOK'
<1>1. pc' \in [Actors -> Places] /\ mu' \in Actors \cup {"free"}
  BY GoType, UnlockType DEF PublishState, PublishStateFails, PollFails, Places, TypeOK, Actors
<1>2. page' \in [have : BOOLEAN, sp : Versions, dated : {"now", "earlier", "never"}]
  BY RecordReadingType DEF PublishState, PublishStateFails
<1>3. HealthType'
  <2>1. CASE UNCHANGED <<health, polls>>
    BY <2>1 DEF TypeOK, HealthType
  <2> QED
    BY <2>1, MarkFailureType, MarkSuccessType DEF PublishState, PublishStateFails, PollFails
<1>4. budget' \in [commands : 0 .. MaxCommands, repairs : 0 .. MaxRepairs,
                   mishaps : 0 .. MaxMishaps]
  BY MishapType DEF PublishState, PublishStateFails, TypeOK
<1>5. broker' \in [up : BOOLEAN, subscribed : BOOLEAN, state : Versions \cup {NoDoc}]
  BY DEF PublishState, PublishStateFails, TypeOK
<1>6. UNCHANGED <<inv, held, attempt, cache, stale, hook, lastRead, passRead>>
  BY DEF PublishState, PublishStateFails
<1> QED
  BY <1>1, <1>2, <1>3, <1>4, <1>5, <1>6 DEF TypeOK, HealthType

LEMMA ReconcileType ==
  ASSUME TypeOK, VersionsPaid', Reconcile \/ SkipReconcile
  PROVE  TypeOK'
<1>1. pc' \in [Actors -> Places] /\ mu' \in Actors \cup {"free"}
  BY UnlockType DEF Reconcile, SkipReconcile, Actors
<1>2. budget' \in [commands : 0 .. MaxCommands, repairs : 0 .. MaxRepairs,
                   mishaps : 0 .. MaxMishaps]
  BY SchedulerAssumption DEF Reconcile, SkipReconcile, TypeOK
<1>3. inv' \in Nat
  BY DEF Reconcile, SkipReconcile, TypeOK, Versions
<1>4. inv' \in Versions
  BY <1>2, <1>3, VersionInRange
<1> QED
  BY <1>1, <1>2, <1>4 DEF TypeOK, Reconcile, SkipReconcile

LEMMA ConnectionType ==
  ASSUME TypeOK, ConnectionLost \/ \E h \in Hooks : ConnectionUp(h) \/ Hook(h)
  PROVE  TypeOK'
<1>1. UNCHANGED job
  BY DEF ConnectionLost, ConnectionUp, Hook, HookLastState, HookPublish, HookSubscribe
<1>2. budget' \in [commands : 0 .. MaxCommands, repairs : 0 .. MaxRepairs,
                   mishaps : 0 .. MaxMishaps]
  BY MishapType DEF ConnectionLost, ConnectionUp, Hook, HookLastState, HookPublish,
                    HookSubscribe, HookCall, TypeOK
<1>3. broker' \in [up : BOOLEAN, subscribed : BOOLEAN, state : Versions \cup {NoDoc}]
  BY DEF ConnectionLost, ConnectionUp, Hook, HookLastState, HookPublish,
         HookSubscribe, HookCall, TypeOK
<1>4. hook' \in [Hooks -> [at : {"none", "lastState", "publish", "subscribe", "done"},
                           sp : Versions]]
  <2>1. 0 \in Versions
    BY SchedulerAssumption DEF Versions
  <2>2. ASSUME NEW h \in Hooks,
               NEW r \in [at : {"none", "lastState", "publish", "subscribe", "done"},
                          sp : Versions],
               hook' = [hook EXCEPT ![h] = r]
        PROVE  hook' \in [Hooks -> [at : {"none", "lastState", "publish", "subscribe", "done"},
                                    sp : Versions]]
    BY <2>2 DEF TypeOK
  <2>3. ASSUME NEW h \in Hooks, ConnectionUp(h) \/ HookPublish(h)
        PROVE  hook' \in [Hooks -> [at : {"none", "lastState", "publish", "subscribe", "done"},
                                    sp : Versions]]
    <3>1. hook[h].sp \in Versions
      BY DEF TypeOK
    <3>2. PICK place \in {"lastState", "subscribe"} :
            hook' = [hook EXCEPT ![h] = [hook[h] EXCEPT !.at = place]]
      BY <2>3 DEF ConnectionUp, HookPublish
    <3>3. [hook[h] EXCEPT !.at = place] = [at |-> place, sp |-> hook[h].sp]
      BY DEF TypeOK
    <3> QED
      BY <2>2, <3>1, <3>2, <3>3
  <2>4. ASSUME NEW h \in Hooks, HookLastState(h) \/ HookSubscribe(h)
        PROVE  hook' \in [Hooks -> [at : {"none", "lastState", "publish", "subscribe", "done"},
                                    sp : Versions]]
    BY <2>1, <2>2, <2>4 DEF HookLastState, HookSubscribe, TypeOK
  <2>5. CASE UNCHANGED hook
    BY <2>5 DEF TypeOK
  <2> QED
    BY <2>3, <2>4, <2>5 DEF ConnectionLost, Hook
<1> QED
  BY <1>1, <1>2, <1>3, <1>4 DEF TypeOK, job

LEMMA NextType ==
  ASSUME TypeOK, VersionsPaid, [Next]_vars
  PROVE  TypeOK'
<1>1. VersionsPaid'
  BY NextVersionsPaid
<1>2. CASE UNCHANGED vars
  BY <1>2 DEF TypeOK, vars
<1> QED
  BY <1>1, <1>2, StartType, LockType, RouteRejectType, ReadTelemetryType, ReadSetpointsType,
     RememberStateType, PublishType, ReconcileType, ConnectionType DEF Next, Job

-----------------------------------------------------------------------------
(* The theorems.                                                           *)

LEMMA Inductive == Spec => []IInv
<1>1. Init => IInv
  <2>1. Init => TypeOK
    <3>1. 0 \in Versions /\ 1 \in Versions
      BY SchedulerAssumption DEF Versions
    <3>2. Init => /\ cache \in [have : BOOLEAN, sp : Versions]
                  /\ page \in [have : BOOLEAN, sp : Versions, dated : {"now", "earlier", "never"}]
                  /\ hook \in [Hooks ->
                               [at : {"none", "lastState", "publish", "subscribe", "done"},
                                sp : Versions]]
      BY <3>1 DEF Init
    <3>3. Init => /\ broker \in [up : BOOLEAN, subscribed : BOOLEAN,
                                 state : Versions \cup {NoDoc}]
                  /\ health \in [ready : BOOLEAN, failures : 0 .. FailureThreshold]
                  /\ budget \in [commands : 0 .. MaxCommands, repairs : 0 .. MaxRepairs,
                                 mishaps : 0 .. MaxMishaps]
      BY SchedulerAssumption DEF Init
    <3>4. Init => /\ inv \in Versions /\ lastRead \in Versions
                  /\ held \in [Actors -> Versions]
                  /\ pc \in [Actors -> Places]
                  /\ mu \in Actors \cup {"free"}
                  /\ attempt \in 0 .. MaxRetries
      BY <3>1, SchedulerAssumption DEF Init, Places
    <3>5. Init => stale \in BOOLEAN /\ passRead \in BOOLEAN
      BY DEF Init
    <3>6. Init => polls \in Seq(BOOLEAN) /\ Len(polls) <= FailureThreshold
      BY SchedulerAssumption DEF Init
    <3> QED
      BY <3>2, <3>3, <3>4, <3>5, <3>6 DEF TypeOK
  <2>2. Init => VersionsPaid
    BY SchedulerAssumption DEF Init, VersionsPaid, pending, Actors
  <2>3. Init => JobInv
    BY DEF Init, JobInv, LockOwned, InHand, InStep, CacheShown, PageShown, CacheDue,
           PageDue, Actors, Unread, Read
  <2>4. Init => HealthCounted
    BY DEF Init, HealthCounted
  <2> QED
    BY <2>1, <2>2, <2>3, <2>4 DEF IInv
<1>2. IInv /\ [Next]_vars => IInv'
  BY NextType, NextVersionsPaid, NextJobInv, NextHealthCounted DEF IInv
<1> QED
  BY <1>1, <1>2, PTL DEF Spec

\* Every variable keeps its type: the retries and the failures stay within their
\* limits, and the history of the polls within the threshold.
THEOREM TypeCorrect == Spec => []TypeOK
<1>1. IInv => TypeOK
  BY DEF IInv
<1> QED
  BY <1>1, Inductive, PTL

\* apiMu and the freshness gate (poll, maybeReconcile): what a reconcile is
\* handed is what the inverter holds, whatever commands wait and whatever reads
\* failed before.
THEOREM ReconcileIsFresh == Spec => []ReconcileSeesInverter
<1>1. IInv => ReconcileSeesInverter
  BY DEF IInv, JobInv, InStep, Read, ReconcileSeesInverter, At
<1> QED
  BY <1>1, Inductive, PTL

\* newStateReader, RememberState and RecordReading: between jobs the cache and
\* the status page show the setpoints last read, and never blank ones after a
\* first read.
THEOREM CacheKeepsLastRead == Spec => []CacheIsLastRead
<1>1. IInv => CacheIsLastRead
  BY DEF IInv, JobInv, LockOwned, CacheShown, PageShown, CacheDue, PageDue, Actors, Unread,
         Read, CacheIsLastRead
<1> QED
  BY <1>1, Inductive, PTL

\* MarkSuccess and MarkFailure: /readyz answers yes exactly when one of the last
\* FailureThreshold polls succeeded.
THEOREM ReadinessIsRecent == Spec => []ReadyMeansRecent
<1>1. ASSUME IInv PROVE ReadyMeansRecent
  <2>1. /\ Len(polls) \in Nat /\ health.failures \in Nat
    BY <1>1 DEF IInv, TypeOK
  <2>2. CASE health.ready
    <3>1. Len(polls) - health.failures \in 1 .. Len(polls)
      BY <1>1, <2>1, <2>2 DEF IInv, HealthCounted
    <3> QED
      BY <1>1, <2>2, <3>1 DEF IInv, HealthCounted, ReadyMeansRecent
  <2>3. CASE ~health.ready
    BY <1>1, <2>1, <2>3 DEF IInv, HealthCounted, ReadyMeansRecent
  <2> QED
    BY <2>2, <2>3
<1> QED
  BY <1>1, Inductive, PTL

\* RecordReading: the page dates setpoints "now" only when the pass it reports
\* has read them, and always then.
THEOREM PageDatesAreTrue == Spec => PageDatesSetpoints
<1>1. ASSUME IInv, [Next]_vars, page' # page
      PROVE  page'.dated = "now" <=> passRead
  <2>1. PICK w \in Actors : PublishState(w) \/ PublishStateFails(w)
    BY <1>1 DEF Next, vars, Ticker, Deliver, Lock, Job, ReadTelemetry, ReadTelemetryFails,
                ReadSetpoints, ReadSetpointsFails, RememberState, Route, Reject, Reconcile,
                SkipReconcile, ConnectionLost, ConnectionUp, Hook, HookLastState, HookPublish,
                HookSubscribe, job
  <2>2. RecordReading(w) /\ pc[w] \in Read
    BY <2>1 DEF PublishState, PublishStateFails, At, Read
  <2>3. stale <=> ~passRead
    BY <1>1, <2>2 DEF IInv, JobInv, InHand
  <2>4. page'.dated = "now" <=> ~stale
    BY <2>2 DEF RecordReading
  <2> QED
    BY <2>3, <2>4
<1>2. IInv /\ [Next]_vars => [page' # page => (page'.dated = "now" <=> passRead)]_vars
  BY <1>1
<1> QED
  BY <1>2, Inductive, PTL DEF Spec, PageDatesSetpoints
=============================================================================
