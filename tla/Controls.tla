------------------------------ MODULE Controls ------------------------------
(***************************************************************************)
(* internal/controls against the inverter's holding registers, one Modbus  *)
(* frame per step: the read-before-write guard, the retrying register      *)
(* sequence, the Home Assistant commands and the schedule reconcile of a   *)
(* poll.                                                                   *)
(*                                                                         *)
(* The scheduler runs every command and every poll under its apiMu         *)
(* (scheduler.go poll, ApplyCommand), so the manager has one job at a      *)
(* time; what interleaves with it is the environment: the wall clock, the  *)
(* owner's app editing the same registers, frames that fail, and a crash   *)
(* of the process, which loses everything but the registers.  The refresh  *)
(* that follows a command only reads, and what it publishes is not state   *)
(* of this module.  The clock registers (syncRTC) are none of the ones     *)
(* below.  A write that fails lands before its error is seen, or never;    *)
(* that the sidecar may break this is the subject of Sidecar.              *)
(***************************************************************************)
EXTENDS Schedule

CONSTANTS
  Configs,         \* the configurations the process may be started with
  Requests,        \* the currents a command may ask for, in hundredths of an amp
  AppWindows,      \* the windows the owner's app may program by hand
  WorkModes,       \* the work-mode words the inverter may hold
  MaxCommands,     \* bound on the commands of one behaviour
  MaxMishaps,      \* bound on its failing frames and restarts together
  MaxEdits         \* bound on the app's edits

\* TOU_WINDOW (ParseToUWindow) and the CONTROLS_ENABLED kill-switch.
Config == [tou : TimedWindow, assertToU : BOOLEAN, enabled : BOOLEAN]

ASSUME InputAssumption ==
  /\ Configs \subseteq Config
  /\ \A c \in Configs : c.assertToU => ValidToU(c.tou)
  /\ Requests \subseteq Int
  /\ AppWindows \subseteq TimedWindow
  /\ WorkModes \subseteq Nat
ASSUME BoundAssumption ==
  /\ MaxCommands \in Nat
  /\ MaxMishaps \in Nat
  /\ MaxEdits \in Nat

VARIABLES
  regs,       \* the inverter's holding registers
  conf,       \* the configuration of the running process
  now,        \* the host's wall clock, in minutes of the day
  pc,         \* where the job is
  op,         \* what the job is
  option,     \* the boost option or the work-mode flag the command carries
  slots,      \* the slots the poll read, handed to Reconcile
  target,     \* register -> value: what the job's sequence is to write
  todo,       \* the registers of target not yet guarded successfully
  retry,      \* the register under guard is on its second attempt
  failed,     \* the last job ended with an error
  disturbed,  \* history: the app edited a register since the job began
  budget      \* what is left of the bounds

vars == <<regs, conf, now, pc, op, option, slots, target, todo, retry,
          failed, disturbed, budget>>

-----------------------------------------------------------------------------
Globals == {RegWorkMode, RegTimedChargeCurrent, RegTimedDischargeCurrent}

Addr == Globals \cup AllSlotRegs

NoTarget == [a \in {} |-> 0]

NoSlots == [i \in SlotIndex |-> NoSlot]

\* Bit 1 of the work-mode word; WithTimed changes that bit alone.
Timed(raw) == (raw \div 2) % 2 = 1
WithTimed(raw, on) ==
  CASE on /\ ~Timed(raw) -> raw + 2
    [] ~on /\ Timed(raw) -> raw - 2
    [] OTHER -> raw

\* Mutant: a negative request is not clamped.
ClampCeilingOnly(r) == IF r > 6250 THEN 6250 ELSE r

\* A requested current, clamped to 0..62.5 A and rounded to tenths of an amp.
ClampHAChargeAmps(r) == IF r < 0 THEN 0 ELSE IF r > 6250 THEN 6250 ELSE r
EncodeAmps(r) == (r + 5) \div 10

\* The image of slots over a set of slot registers.
registersOf(s, A) == [a \in A |-> slotValue(s, a)]

\* The slots whose registers the sequence writes discharge block first.
swapped ==
  {i \in SlotIndex : /\ SlotRegs(i) \subseteq DOMAIN target
                     /\ dischargeFirst(decodeTimedSlot(target, i))}

\* The register the sequence has reached.
rank(swaps, a) == writeRank(slotOf(a) \in swaps, a)

isNext(swaps, a) ==
  /\ a \in todo
  /\ \A b \in todo : rank(swaps, a) <= rank(swaps, b)

\* A frame may fail or the process may die while the bound on mishaps lasts.
Mishap == /\ budget.mishaps > 0
          /\ budget' = [budget EXCEPT !.mishaps = @ - 1]

-----------------------------------------------------------------------------
(* Ends of a job.                                                          *)

\* The job is over, with or without an error: apiMu is released.
Finish(err) ==
  /\ pc' = "idle"
  /\ op' = "none"
  /\ option' = OffOption
  /\ slots' = NoSlots
  /\ target' = NoTarget
  /\ todo' = {}
  /\ retry' = FALSE
  /\ failed' = err

\* Begin guarding the registers A, aiming at the values t.
Sequence(t, A) ==
  IF A = {} THEN Finish(FALSE)
  ELSE /\ pc' = "read"
       /\ target' = t
       /\ todo' = A
       /\ retry' = FALSE
       /\ UNCHANGED <<op, option, slots, failed>>

-----------------------------------------------------------------------------
(* Commands (Handler.OnMessage and route), received while no job runs.     *)

Receive(o, opt, at) ==
  /\ conf.enabled
  /\ pc = "idle"
  /\ budget.commands > 0
  /\ budget' = [budget EXCEPT !.commands = @ - 1]
  /\ op' = o
  /\ option' = opt
  /\ disturbed' = FALSE
  /\ pc' = at
  /\ retry' = FALSE
  /\ failed' = FALSE
  /\ slots' = NoSlots
  /\ UNCHANGED <<regs, conf, now>>

\* setBoost with Off: the empty slot is written without reading the work mode.
BoostOff ==
  /\ Receive("boost", OffOption, "read")
  /\ target' = registersOf(NoSlots, SlotRegs(boostSlot))
  /\ todo' = SlotRegs(boostSlot)

\* setBoost with a charge or discharge option: first the work mode is read.
BoostOn ==
  /\ \E opt \in BoostOptions \ {OffOption} : Receive("boost", opt, "mode")
  /\ target' = NoTarget
  /\ todo' = {}

\* setOptimalIncome: Run sets bit 1 of the work mode, Stop clears it.
SetOptimalIncome ==
  /\ \E on \in {0, 1} : Receive("income", [mode |-> "Off", minutes |-> on], "mode")
  /\ target' = NoTarget
  /\ todo' = {}

\* setCurrent: the parsed and clamped current goes straight to the guard.
SetCurrent ==
  /\ Receive("amps", OffOption, "read")
  /\ \E a \in {RegTimedChargeCurrent, RegTimedDischargeCurrent}, r \in Requests :
       /\ target' = [x \in {a} |-> EncodeAmps(ClampHAChargeAmps(r))]
       /\ todo' = {a}

\* The work mode could not be read: the command is over.
ModeReadFails ==
  /\ pc = "mode"
  /\ Mishap
  /\ Finish(TRUE)
  /\ UNCHANGED <<regs, conf, now, disturbed>>

\* setOptimalIncome has read the work mode and guards it with one bit changed.
IncomeModeRead ==
  /\ pc = "mode"
  /\ op = "income"
  /\ Sequence([a \in {RegWorkMode} |-> WithTimed(regs[RegWorkMode], option.minutes = 1)],
              {RegWorkMode})
  /\ UNCHANGED budget
  /\ UNCHANGED <<regs, conf, now, disturbed>>

\* setBoost has read the work mode: a boost is refused while Optimal Income is
\* Stop, or when it cannot be planned; otherwise its slot is written.
BoostModeRead ==
  LET plan == PlanBoost(option.mode, option.minutes, now, conf.tou, conf.assertToU)
  IN /\ pc = "mode"
     /\ op = "boost"
     /\ IF Timed(regs[RegWorkMode]) /\ plan.err = ""
        THEN Sequence(registersOf([NoSlots EXCEPT ![boostSlot] = plan.slot],
                                  SlotRegs(boostSlot)),
                      SlotRegs(boostSlot))
        ELSE Finish(FALSE)
     /\ UNCHANGED budget
     /\ UNCHANGED <<regs, conf, now, disturbed>>

-----------------------------------------------------------------------------
(* The reconcile of a poll.                                                *)

\* The poll reads the setpoint block, three slots included, in one frame.
PollRead ==
  /\ pc = "idle"
  /\ ClocksInRange(regs)
  /\ pc' = "polled"
  /\ op' = "reconcile"
  /\ slots' = DecodeTimedSlots(regs)
  /\ disturbed' = FALSE
  /\ failed' = FALSE
  /\ UNCHANGED budget
  /\ UNCHANGED <<regs, conf, now, option, target, todo, retry>>

\* The poll could not read the setpoints (or any state at all): what it has is
\* stale, and nothing is reconciled.
PollReadFails ==
  /\ pc = "idle"
  /\ Mishap
  /\ failed' = TRUE
  /\ UNCHANGED <<regs, conf, now, pc, op, option, slots, target, todo, retry, disturbed>>

\* The rest of the poll fails (its state could not be published) and nothing is
\* reconciled.
PollAbandoned ==
  /\ pc = "polled"
  /\ Mishap
  /\ Finish(TRUE)
  /\ UNCHANGED <<regs, conf, now, disturbed>>

\* Reconcile: the registers that differ from the desired schedule are guarded.
Reconcile ==
  LET desired == Desired(conf.tou, conf.assertToU, slots, now)
  IN /\ pc = "polled"
     /\ IF conf.enabled
        THEN Sequence(registersOf(desired, AllSlotRegs), scheduleDiff(desired, slots))
        ELSE Finish(FALSE)
     /\ UNCHANGED budget
     /\ UNCHANGED <<regs, conf, now, disturbed>>

-----------------------------------------------------------------------------
(* Guard, one frame at a time, and writeRegisters around it.               *)

\* Mutant: the retry sends the frame again without reading first.
GuardResends ==
  IF op \in {"boost", "reconcile"} /\ ~retry
  THEN /\ retry' = TRUE
       /\ UNCHANGED <<pc, op, option, slots, target, todo, failed>>
  ELSE Finish(TRUE)

\* Mutant: an error that is not retried is swallowed.
GuardFailsQuietly ==
  IF op \in {"boost", "reconcile"} /\ ~retry
  THEN /\ pc' = "read"
       /\ retry' = TRUE
       /\ UNCHANGED <<op, option, slots, target, todo, failed>>
  ELSE Finish(FALSE)

\* Guard returned an error without a confirmed write.  A register of a sequence
\* is guarded once more; a single-register command (guardOne) is not retried.
GuardFails ==
  IF op \in {"boost", "reconcile"} /\ ~retry
  THEN /\ pc' = "read"
       /\ retry' = TRUE
       /\ UNCHANGED <<op, option, slots, target, todo, failed>>
  ELSE Finish(TRUE)

\* Guard succeeded on a: the sequence goes on, or is done.
GuardDone(a) ==
  IF todo = {a} THEN Finish(FALSE)
  ELSE /\ pc' = "read"
       /\ todo' = todo \ {a}
       /\ retry' = FALSE
       /\ UNCHANGED <<op, option, slots, target, failed>>

\* readOne before the write: an equal register is skipped.
GuardRead(a) ==
  /\ pc = "read"
  /\ IF regs[a] = target[a]
     THEN GuardDone(a)
     ELSE /\ pc' = "write"
          /\ UNCHANGED <<op, option, slots, target, todo, retry, failed>>
  /\ UNCHANGED budget
  /\ UNCHANGED <<regs, conf, now, disturbed>>

GuardReadFails ==
  /\ pc = "read"
  /\ Mishap
  /\ GuardFails
  /\ UNCHANGED <<regs, conf, now, disturbed>>

\* The fc06 frame.
GuardWrite(a) ==
  /\ pc = "write"
  /\ regs' = [regs EXCEPT ![a] = target[a]]
  /\ pc' = "confirm"
  /\ UNCHANGED budget
  /\ UNCHANGED <<conf, now, op, option, slots, target, todo, retry, failed, disturbed>>

\* The write call fails: the frame never arrived, or it landed and the reply
\* was lost.
GuardWriteFails(a) ==
  /\ pc = "write"
  /\ Mishap
  /\ \/ UNCHANGED regs
     \/ regs' = [regs EXCEPT ![a] = target[a]]
  /\ GuardFails
  /\ UNCHANGED <<conf, now, disturbed>>

\* The confirming read: a mismatch is an error, and not retried.
GuardConfirm(a) ==
  /\ pc = "confirm"
  /\ IF regs[a] = target[a] THEN GuardDone(a) ELSE Finish(TRUE)
  /\ UNCHANGED budget
  /\ UNCHANGED <<regs, conf, now, disturbed>>

\* The confirming read fails: the write was issued, so there is no retry.
GuardConfirmFails ==
  /\ pc = "confirm"
  /\ Mishap
  /\ Finish(TRUE)
  /\ UNCHANGED <<regs, conf, now, disturbed>>

-----------------------------------------------------------------------------
(* The environment.                                                        *)

\* Only the steps that leave "mode" and "polled" read the clock, so the minutes
\* that pass during the guard steps may as well pass when they are over.
Tick ==
  /\ pc \in {"idle", "mode", "polled"}
  /\ now' = (now + 1) % minutesPerDay
  /\ UNCHANGED <<regs, conf, pc, op, option, slots, target, todo, retry,
                 failed, disturbed, budget>>

\* The owner's app programs one window, or sets the work mode.
AppEdit ==
  /\ budget.edits > 0
  /\ budget' = [budget EXCEPT !.edits = @ - 1]
  /\ \/ \E i \in SlotIndex, d \in Directions, w \in AppWindows :
          regs' = [a \in Addr |->
                     IF \E f \in Fields : a = SlotReg(i, d, f)
                     THEN fieldOf(w, fieldIndexOf(a)) ELSE regs[a]]
     \/ \E m \in WorkModes : regs' = [regs EXCEPT ![RegWorkMode] = m]
  /\ disturbed' = TRUE
  /\ UNCHANGED <<conf, now, pc, op, option, slots, target, todo, retry, failed>>

\* The process dies and is started again, perhaps configured differently: only
\* the registers survive.
Restart ==
  /\ Mishap
  /\ conf' \in Configs
  /\ Finish(TRUE)
  /\ UNCHANGED <<regs, now, disturbed>>

-----------------------------------------------------------------------------
Init ==
  /\ \E m \in WorkModes :
       regs = [a \in Addr |-> IF a = RegWorkMode THEN m ELSE 0]
  /\ conf \in Configs
  /\ now \in Minutes
  /\ pc = "idle"
  /\ op = "none"
  /\ option = OffOption
  /\ slots = NoSlots
  /\ target = NoTarget
  /\ todo = {}
  /\ retry = FALSE
  /\ failed = FALSE
  /\ disturbed = FALSE
  /\ budget = [commands |-> MaxCommands, mishaps |-> MaxMishaps, edits |-> MaxEdits]

Command == BoostOff \/ BoostOn \/ SetOptimalIncome \/ SetCurrent

Work ==
  \/ ModeReadFails \/ IncomeModeRead \/ BoostModeRead
  \/ PollAbandoned \/ Reconcile
  \/ GuardReadFails \/ GuardConfirmFails
  \/ /\ pc \in {"read", "write", "confirm"}
     /\ LET swaps == swapped IN
        \E a \in todo :
          /\ isNext(swaps, a)
          /\ GuardRead(a) \/ GuardWrite(a) \/ GuardWriteFails(a) \/ GuardConfirm(a)

Environment == Tick \/ AppEdit \/ Restart

Next == Command \/ PollRead \/ PollReadFails \/ Work \/ Environment

Spec == Init /\ [][Next]_vars

-----------------------------------------------------------------------------
(* Properties.                                                             *)

Places == {"idle", "mode", "polled", "read", "write", "confirm"}

TypeOK ==
  /\ regs \in [Addr -> Nat]
  /\ conf \in Configs
  /\ now \in Minutes
  /\ pc \in Places
  /\ op \in {"none", "boost", "income", "amps", "reconcile"}
  /\ option \in [mode : Directions \cup {"Off"}, minutes : Nat]
  /\ slots \in TimedSlots
  /\ DOMAIN target \subseteq Addr
  /\ \A a \in DOMAIN target : target[a] \in Nat
  /\ todo \subseteq DOMAIN target
  /\ pc \in {"read", "write", "confirm"} => todo # {}
  /\ retry \in BOOLEAN
  /\ failed \in BOOLEAN
  /\ disturbed \in BOOLEAN
  /\ budget \in [commands : Nat, mishaps : Nat, edits : Nat]

windowSet(r, i, d) == \E f \in Fields : r[SlotReg(i, d, f)] # 0

\* No sequence, cut short wherever it may be, leaves a clock in the slots that
\* DecodeTimedSlots would reject: every later poll can read the schedule, and so
\* repair it.
ScheduleStaysReadable == ClocksInRange(regs)

\* A slot swapping direction is cleared before it is programmed
\* (TimedSlotWriteRegisters), whatever frames fail, wherever a sequence is
\* aborted and wherever the process is restarted: no step of the manager gives
\* a slot both a charge and a discharge window, unless the app edited the
\* registers under the running job.
NeverBothDirections ==
  [][\A i \in SlotIndex :
        /\ ~disturbed'
        /\ windowSet(regs', i, "Charge")
        /\ windowSet(regs', i, "Discharge")
        => windowSet(regs, i, "Charge") /\ windowSet(regs, i, "Discharge")]_vars

\* Flash wear (Guard, REQ-HA-10): when an fc06 frame is about to be sent, the
\* register it is for does not already hold the value, retries of a write that
\* landed with its reply lost included.
NoNeedlessWrite ==
  pc = "write" /\ ~disturbed => \A a \in todo : isNext(swapped, a) => regs[a] # target[a]

\* writeRegisters and guardOne report success only when the inverter holds
\* every register of the sequence: those skipped, those the diff left out and
\* those written and confirmed.
SuccessMeansHeld ==
  [][/\ pc # "idle" /\ pc' = "idle"
     /\ ~failed' /\ ~disturbed
     => \A a \in DOMAIN target : regs'[a] = target[a]]_vars

\* The manager's own writes: with the kill-switch off (CONTROLS_ENABLED) there
\* are none; the tariff slots only ever move to the tariff of
\* the running configuration, a reconcile only ever clears the boost slot, and
\* the work mode keeps every bit but the timed one.
WritesAreOwned ==
  [][budget'.edits = budget.edits =>
       \A a \in Addr : regs'[a] # regs[a] =>
         /\ conf.enabled
         /\ \/ /\ a \in SlotRegs(0) \cup SlotRegs(1)
               /\ conf.assertToU
               /\ regs'[a] = slotValue(ToUSlots(conf.tou), a)
            \/ /\ a \in SlotRegs(boostSlot)
               /\ op = "reconcile" => regs'[a] = 0
            \/ /\ a = RegWorkMode
               /\ op = "income"
               /\ ~disturbed => WithTimed(regs'[a], FALSE) = WithTimed(regs[a], FALSE)
            \/ /\ a \in Globals \ {RegWorkMode}
               /\ op = "amps"
               /\ regs'[a] \in 0 .. 625]_vars
=============================================================================
