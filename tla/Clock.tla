------------------------------- MODULE Clock --------------------------------
(***************************************************************************)
(* The synchronisation of the inverter's clock: the threshold-gated sync   *)
(* of a poll (scheduler.go maybeSyncRTC) and the "Sync RTC now" command    *)
(* (handler.go syncRTC), one Modbus frame per step, while both clocks run. *)
(*                                                                         *)
(* An instant is a number of seconds in a calendar of fields, year to      *)
(* second, each made of a whole number of the next (Units); the calendar   *)
(* closes on itself, and two instants differ by the shorter way round.     *)
(* Months all have the same length.  The inverter keeps a local time      *)
(* without a zone, so the host's zone enters where the clock is decoded:   *)
(* an hour that exists twice, or not at all, decodes to either of the two  *)
(* instants (time.Date promises no more).                                  *)
(*                                                                         *)
(* Jobs hold apiMu, so there is one at a time; those of Controls write     *)
(* other registers and are idle time here.                                 *)
(***************************************************************************)
EXTENDS Integers, Sequences

CONSTANTS
  Units,           \* the seconds of the whole calendar, then of a unit of each field,
                   \* six in the code, the last of which is the second
  Zones,           \* the sets of instants that may be the host's summer
  Shift,           \* what summer adds to local time
  SyncEnabled,     \* RTC_SYNC_ENABLED, with the controls enabled
  Threshold,       \* RTC_DRIFT_THRESHOLD
  MaxLag,          \* bound on the seconds a job takes, from the read of the clock
  MaxCommands,     \* bound on the commands
  MaxMishaps,      \* bound on failing frames and restarts
  MaxSkews,        \* bound on the times the inverter's clock is disturbed
  MaxRollovers     \* bound on the rollovers of its minute inside a job

Calendar == Units[1]

Fields == 1 .. Len(Units) - 1

seconds == Len(Units) - 1

\* What one unit of a field is worth in seconds, and how many values it has.
Weight(i) == Units[i + 1]
Radix(i) == Units[i] \div Units[i + 1]

Instants == 0 .. Calendar - 1

ASSUME CalendarAssumption ==
  /\ Units \in Seq(Nat \ {0})
  /\ Len(Units) > 1
  /\ Units[Len(Units)] = 1
  /\ \A i, j \in 1 .. Len(Units) : i < j => Units[i] % Units[j] = 0
  /\ Zones \subseteq SUBSET Instants
  /\ Shift \in Instants
ASSUME ConfigAssumption ==
  /\ SyncEnabled \in BOOLEAN
  /\ Threshold \in Nat \ {0}
ASSUME ClockBoundAssumption ==
  /\ {MaxLag, MaxCommands, MaxMishaps, MaxSkews, MaxRollovers} \subseteq Nat
  /\ 2 * (Threshold + MaxLag) < Calendar

VARIABLES
  now,        \* the host's clock
  summer,     \* the host's zone: the instants at which Shift is added
  rtc,        \* the six clock registers, as the local time they show
  pc,         \* where the job is
  seen,       \* tel.Time: the clock as the poll decoded it
  target,     \* the local time the sequence is to write
  field,      \* the register under guard
  retry,      \* it is on its second attempt
  failed,     \* the last job ended with an error
  lag,        \* seconds since the job read the clock, or computed the target
  clean,      \* history: nothing but seconds happened to the clocks in this job
  budget      \* what is left of the bounds

vars == <<now, summer, rtc, pc, seen, target, field, retry, failed, lag, clean, budget>>

-----------------------------------------------------------------------------
(* Instants, local times and registers.                                    *)

\* The six registers of a local time; a register of the clock can be set alone.
EncodeRTC(w) == [i \in Fields |-> (w \div Weight(i)) % Radix(i)]
withField(w, i, v) == w + (v - EncodeRTC(w)[i]) * Weight(i)

Local(t) == (IF t \in summer THEN t + Shift ELSE t) % Calendar

\* The instants a local time may be decoded to: those that show it, or in the
\* hour that is skipped, the two that its neighbours' offsets give.
DecodeRTC(w) ==
  LET shows == {t \in Instants : Local(t) = w}
  IN IF shows # {} THEN shows ELSE {w, (w - Shift) % Calendar}

\* How far a is ahead of b.
Drift(a, b) == ((a - b + Calendar \div 2) % Calendar) - Calendar \div 2

abs(d) == IF d < 0 THEN -d ELSE d

\* How far the inverter's clock is from the local time of the host.
Error == Drift(rtc, Local(now))

Mishap == /\ budget.mishaps > 0
          /\ budget' = [budget EXCEPT !.mishaps = @ - 1]

-----------------------------------------------------------------------------
(* The sequence of guarded registers (writeRegisters, Guard).              *)

Finish(err) ==
  /\ pc' = "idle"
  /\ field' = 1
  /\ retry' = FALSE
  /\ failed' = err
  /\ seen' = 0
  /\ target' = 0
  /\ lag' = 0
  /\ clean' = TRUE

\* The registers of the sequence are computed once, from the clock at its start.
syncRTCTo ==
  /\ target' = Local(now)
  /\ seen' = 0
  /\ pc' = "read"
  /\ field' = 1
  /\ retry' = FALSE
  /\ lag' = 0
  /\ clean' = TRUE

wanted == EncodeRTC(target)[field]
shown == EncodeRTC(rtc)[field]

\* Guard returned an error without a confirmed write: once more, then stop.
GuardFails ==
  IF ~retry
  THEN /\ pc' = "read"
       /\ retry' = TRUE
       /\ UNCHANGED <<seen, target, field, failed, lag, clean>>
  ELSE Finish(TRUE)

\* Mutant: one register too many.
GuardDoneAll ==
  /\ pc' = "read"
  /\ field' = field + 1
  /\ retry' = FALSE
  /\ UNCHANGED <<seen, target, failed, lag, clean>>

\* Mutant: the last register is forgotten.
GuardDoneEarly ==
  IF field = seconds - 1 THEN Finish(FALSE)
  ELSE /\ pc' = "read"
       /\ field' = field + 1
       /\ retry' = FALSE
       /\ UNCHANGED <<seen, target, failed, lag, clean>>

\* Guard succeeded: the next register, or the end.
GuardDone ==
  IF field = seconds THEN Finish(FALSE)
  ELSE /\ pc' = "read"
       /\ field' = field + 1
       /\ retry' = FALSE
       /\ UNCHANGED <<seen, target, failed, lag, clean>>

\* readOne before the write: an equal register is skipped.
GuardRead ==
  /\ pc = "read"
  /\ IF shown = wanted
     THEN GuardDone
     ELSE /\ pc' = "write"
          /\ UNCHANGED <<seen, target, field, retry, failed, lag, clean>>
  /\ UNCHANGED <<now, summer, rtc, budget>>

GuardReadFails ==
  /\ pc = "read"
  /\ Mishap
  /\ GuardFails
  /\ UNCHANGED <<now, summer, rtc>>

\* The fc06 frame sets one field of the running clock.
GuardWrite ==
  /\ pc = "write"
  /\ rtc' = withField(rtc, field, wanted)
  /\ pc' = "confirm"
  /\ UNCHANGED <<now, summer, seen, target, field, retry, failed, lag, clean, budget>>

\* The call fails; the frame never arrived, or landed.
GuardWriteFails ==
  /\ pc = "write"
  /\ Mishap
  /\ rtc' \in {rtc, withField(rtc, field, wanted)}
  /\ GuardFails
  /\ UNCHANGED <<now, summer>>

\* The confirming read sees a clock that has gone on: a mismatch is an error.
GuardConfirm ==
  /\ pc = "confirm"
  /\ IF shown = wanted THEN GuardDone ELSE Finish(TRUE)
  /\ UNCHANGED <<now, summer, rtc, budget>>

GuardConfirmFails ==
  /\ pc = "confirm"
  /\ Mishap
  /\ Finish(TRUE)
  /\ UNCHANGED <<now, summer, rtc>>

Guard == GuardRead \/ GuardReadFails \/ GuardWrite \/ GuardWriteFails
           \/ GuardConfirm \/ GuardConfirmFails

-----------------------------------------------------------------------------
(* The two jobs that sync.                                                 *)

\* syncRTC: the command syncs whatever the drift.
SyncCommand ==
  /\ pc = "idle"
  /\ budget.commands > 0
  /\ budget' = [budget EXCEPT !.commands = @ - 1]
  /\ failed' = FALSE
  /\ syncRTCTo
  /\ UNCHANGED <<now, summer, rtc>>

\* The poll reads the six registers of the clock in one frame.
PollRead ==
  /\ pc = "idle"
  /\ pc' = "polled"
  /\ seen' \in DecodeRTC(rtc)
  /\ lag' = 0
  /\ clean' = TRUE
  /\ failed' = FALSE
  /\ UNCHANGED <<now, summer, rtc, target, field, retry, budget>>

\* The rest of the poll fails, and nothing is synced.
PollFails ==
  /\ pc = "polled"
  /\ Mishap
  /\ Finish(TRUE)
  /\ UNCHANGED <<now, summer, rtc>>

\* Mutant: only a fast clock is noticed.
driftedAhead == Drift(seen, now) > Threshold

\* Mutant: every poll syncs.
driftedAtAll == TRUE

\* The decision compares the clock as it was read with the host's clock as it is.
drifted == abs(Drift(seen, now)) > Threshold

\* maybeSyncRTC, after the state has been published.
MaybeSyncRTC ==
  /\ pc = "polled"
  /\ IF SyncEnabled /\ drifted
     THEN syncRTCTo /\ UNCHANGED failed
     ELSE Finish(FALSE)
  /\ UNCHANGED <<now, summer, rtc, budget>>

-----------------------------------------------------------------------------
(* The environment.                                                        *)

\* The next second changes more than the seconds, in the middle of a sequence.
rollsOver == pc # "polled" /\ (rtc + 1) % Radix(seconds) = 0

\* A second passes on both clocks.  In a job it may roll over a higher field
\* of the inverter's clock, or the host's zone may change.
Tick ==
  /\ now' = (now + 1) % Calendar
  /\ rtc' = (rtc + 1) % Calendar
  /\ IF pc = "idle" THEN UNCHANGED <<lag, clean, budget>>
     ELSE /\ lag < MaxLag
          /\ lag' = lag + 1
          /\ clean' = (clean /\ ~rollsOver /\ (now \in summer <=> now' \in summer))
          /\ IF rollsOver
             THEN /\ budget.rollovers > 0
                  /\ budget' = [budget EXCEPT !.rollovers = @ - 1]
             ELSE UNCHANGED budget
  /\ UNCHANGED <<summer, pc, seen, target, field, retry, failed>>

\* The inverter's clock is set by its owner, loses power, or has drifted.
Skew ==
  /\ budget.skews > 0
  /\ budget' = [budget EXCEPT !.skews = @ - 1]
  /\ rtc' \in Instants
  /\ clean' = (pc = "idle")
  /\ UNCHANGED <<now, summer, pc, seen, target, field, retry, failed, lag>>

\* The process dies and is started again.
Restart ==
  /\ Mishap
  /\ Finish(TRUE)
  /\ UNCHANGED <<now, summer, rtc>>

-----------------------------------------------------------------------------
Init ==
  /\ now = 0
  /\ summer \in Zones
  /\ rtc = Local(now)
  /\ pc = "idle"
  /\ seen = 0
  /\ target = 0
  /\ field = 1
  /\ retry = FALSE
  /\ failed = FALSE
  /\ lag = 0
  /\ clean = TRUE
  /\ budget = [commands |-> MaxCommands, mishaps |-> MaxMishaps,
               skews |-> MaxSkews, rollovers |-> MaxRollovers]

Work == PollFails \/ MaybeSyncRTC \/ Guard

Next == SyncCommand \/ PollRead \/ Work \/ Tick \/ Skew \/ Restart

Spec == Init /\ [][Next]_vars

\* Seconds pass, the ticker makes the scheduler poll, and a started job goes on
\* (every frame of it has a timeout).
FairSpec ==
  /\ Spec
  /\ SF_vars(Tick)
  /\ WF_vars(PollRead)
  /\ WF_vars(Work)

-----------------------------------------------------------------------------
(* Properties.                                                             *)

TypeOK ==
  /\ now \in Instants
  /\ summer \in Zones
  /\ rtc \in Instants
  /\ pc \in {"idle", "polled", "read", "write", "confirm"}
  /\ seen \in Instants
  /\ target \in Instants
  /\ field \in Fields
  /\ retry \in BOOLEAN
  /\ failed \in BOOLEAN
  /\ lag \in 0 .. MaxLag
  /\ clean \in BOOLEAN
  /\ budget \in [commands : Nat, mishaps : Nat, skews : Nat, rollovers : Nat]

Syncing == pc \in {"read", "write", "confirm"}

\* A sync that reports success has set the clock: it is behind the host by no
\* more than the seconds the sequence took, whatever frames failed and were
\* retried, and although each register was written by itself to a time computed
\* once (syncRTCTo), unless a higher field rolled over on the way.
SyncSetsClock ==
  [][Syncing /\ pc' = "idle" /\ ~failed' /\ clean
       => Drift(rtc', Local(now')) \in (-lag) .. 0]_vars

\* The poll comes to its decision, and the sync fires.
Decides == pc = "polled" /\ pc' # "polled" /\ ~failed'
Fires == pc = "polled" /\ pc' = "read"

\* The clock was decoded with the offset the host has.
SameOffset == /\ Local(seen) = (rtc - lag) % Calendar
              /\ seen \in summer <=> now \in summer

\* The decision of maybeSyncRTC is taken on a clock read earlier in the poll,
\* against the time of now: the seconds in between count as a clock that is
\* slow, so a fast clock is let off by that much more and a right one is synced
\* when the poll took longer than the threshold, and nothing else is decided
\* wrongly, unless the clock was decoded with the offset of the other half of
\* the year.
SyncsWhenOff ==
  [][Decides /\ SyncEnabled /\ clean /\ SameOffset
       => (Fires <=> Error > Threshold + lag \/ Error < lag - Threshold)]_vars

\* Off by no more than the threshold and the seconds a decision may be late.
InSync == abs(Error) <= Threshold + MaxLag

\* However the inverter's clock is disturbed, and whatever the zone does to
\* the host's, the polls bring it back again and again.
Resyncs == []<>(SyncEnabled => InSync)

\* No register of the clock is written any more, and the clock stays right.
Quiet == <>[](InSync /\ pc # "write")

\* The job has not taken longer than half the threshold.
Brisk == lag <= Threshold \div 2

\* Where there is no summer time, the sync limits itself (maybeSyncRTC) if the
\* jobs are short for the threshold in the end: the disturbances end, and so do
\* the writes, although slow polls may have synced a right clock before.
SelfLimiting == summer = {} /\ SyncEnabled /\ <>[]Brisk => Quiet
=============================================================================
