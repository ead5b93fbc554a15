--------------------------- MODULE ControlsProofs ---------------------------
(***************************************************************************)
(* Proofs about Controls, for every length of the day, every set of        *)
(* configurations, requests and app edits, and every bound.                *)
(***************************************************************************)
EXTENDS Controls, ScheduleLemmas, TLAPS

LEMMA NoSlotsType == NoSlots \in TimedSlots
BY EmptyTypes DEF NoSlots, TimedSlots

-----------------------------------------------------------------------------
(* Types, and the ranges of the clocks.                                    *)

\* Every slot register, and every value a sequence aims at, is in the range of
\* its field.
InRange ==
  /\ \A a \in AllSlotRegs : regs[a] \in fieldRange(a)
  /\ \A a \in AllSlotRegs \cap DOMAIN target : target[a] \in fieldRange(a)

\* A boost that waits for the work mode carries a real option.
ModeOption ==
  pc = "mode" /\ op = "boost" => option \in [mode : Directions, minutes : boostDurations]

TypeInv == TypeOK /\ InRange /\ ModeOption

\* The part of the invariant that speaks of the job.
JobOK ==
  /\ pc \in Places
  /\ op \in {"none", "boost", "income", "amps", "reconcile"}
  /\ option \in [mode : Directions \cup {"Off"}, minutes : Nat]
  /\ slots \in TimedSlots
  /\ DOMAIN target \subseteq Addr
  /\ \A a \in DOMAIN target : target[a] \in Nat
  /\ todo \subseteq DOMAIN target
  /\ pc \in {"read", "write", "confirm"} => todo # {}
  /\ retry \in BOOLEAN
  /\ failed \in BOOLEAN
  /\ \A a \in AllSlotRegs \cap DOMAIN target : target[a] \in fieldRange(a)
  /\ ModeOption

\* ... and the part that speaks of everything else.
RestOK ==
  /\ regs \in [Addr -> Nat]
  /\ conf \in Configs
  /\ now \in Minutes
  /\ disturbed \in BOOLEAN
  /\ budget \in [commands : Nat, mishaps : Nat, edits : Nat]
  /\ \A a \in AllSlotRegs : regs[a] \in fieldRange(a)

LEMMA TypeInvParts == TypeInv <=> JobOK /\ RestOK
BY DEF TypeInv, TypeOK, InRange, JobOK, RestOK

LEMMA TypeInvPartsNext == JobOK' /\ RestOK' => TypeInv'
BY DEF TypeInv, TypeOK, InRange, JobOK, RestOK

LEMMA FinishOK ==
  ASSUME NEW err \in BOOLEAN, Finish(err)
  PROVE  JobOK'
BY NoSlotsType DEF Finish, JobOK, ModeOption, NoTarget, OffOption, Places

LEMMA SequenceOK ==
  ASSUME JobOK, NEW t, NEW A,
         DOMAIN t \subseteq Addr,
         \A a \in DOMAIN t : t[a] \in Nat,
         \A a \in AllSlotRegs \cap DOMAIN t : t[a] \in fieldRange(a),
         A \subseteq DOMAIN t,
         Sequence(t, A)
  PROVE  JobOK'
<1>1. CASE A = {}
  BY <1>1, FinishOK DEF Sequence
<1>2. CASE A # {}
  BY <1>2 DEF Sequence, JobOK, ModeOption, Places
<1> QED
  BY <1>1, <1>2

LEMMA GuardFailsOK ==
  ASSUME JobOK, todo # {}, GuardFails
  PROVE  JobOK'
BY FinishOK DEF GuardFails, JobOK, ModeOption, Places

LEMMA GuardDoneOK ==
  ASSUME JobOK, NEW a \in todo, GuardDone(a)
  PROVE  JobOK'
BY FinishOK DEF GuardDone, JobOK, ModeOption, Places

LEMMA MishapOK ==
  ASSUME RestOK, Mishap
  PROVE  budget' \in [commands : Nat, mishaps : Nat, edits : Nat]
<1>1. budget \in [commands : Nat, mishaps : Nat, edits : Nat]
  BY DEF RestOK
<1>2. budget.mishaps - 1 \in Nat
  BY <1>1 DEF Mishap
<1>3. budget' = [budget EXCEPT !.mishaps = budget.mishaps - 1]
  BY DEF Mishap
<1> QED
  BY <1>1, <1>2, <1>3

\* The image of valid slots over slot registers is a valid target.
LEMMA registersOfOK ==
  ASSUME NEW s \in TimedSlots, NEW A \in SUBSET AllSlotRegs
  PROVE  /\ DOMAIN registersOf(s, A) = A
         /\ \A a \in A : registersOf(s, A)[a] \in Nat
         /\ \A a \in A : registersOf(s, A)[a] \in fieldRange(a)
BY slotValueRange DEF registersOf

\* The slot block and the three single registers do not meet.
LEMMA GlobalsApart == Globals \cap AllSlotRegs = {}
<1>1. ASSUME NEW i \in SlotIndex, NEW d \in Directions, NEW f \in Fields
      PROVE  SlotReg(i, d, f) \notin Globals
  <2>1. SlotReg(i, d, f) = 43141 + i * 10 + (IF d = "Charge" THEN 2 ELSE 6) + f
    BY DEF SlotReg, timedSlotBase, timedWindowOffset, RegTimedChargeCurrent, RegTimedSlotStride
  <2> QED
    BY <2>1 DEF Globals, RegWorkMode, RegTimedChargeCurrent, RegTimedDischargeCurrent,
                SlotIndex, Fields
<1> QED
  BY <1>1 DEF AllSlotRegs, SlotRegs

LEMMA InitTypeInv == Init => TypeInv
<1> SUFFICES ASSUME Init PROVE TypeInv
  OBVIOUS
<1>1. PICK m \in WorkModes : regs = [a \in Addr |-> IF a = RegWorkMode THEN m ELSE 0]
  BY DEF Init
<1>2. \A a \in AllSlotRegs : 0 \in fieldRange(a)
  BY ClockAssumption DEF fieldRange
<1>3. RestOK
  <2>1. regs \in [Addr -> Nat]
    BY <1>1, InputAssumption
  <2>2. \A a \in AllSlotRegs : regs[a] \in fieldRange(a)
    BY <1>1, <1>2, GlobalsApart DEF Globals, Addr
  <2> QED
    BY <2>1, <2>2, BoundAssumption DEF Init, RestOK
<1>4. JobOK
  BY NoSlotsType DEF Init, JobOK, ModeOption, NoTarget, OffOption, Places
<1> QED
  BY <1>3, <1>4, TypeInvParts

LEMMA ReceiveOK ==
  ASSUME TypeInv, NEW o \in {"boost", "income", "amps"},
         NEW opt \in [mode : Directions \cup {"Off"}, minutes : Nat],
         NEW at \in {"mode", "read"}, Receive(o, opt, at),
         at = "mode" /\ o = "boost" => opt \in [mode : Directions, minutes : boostDurations],
         DOMAIN target' \subseteq Addr,
         \A a \in DOMAIN target' : target'[a] \in Nat,
         \A a \in AllSlotRegs \cap DOMAIN target' : target'[a] \in fieldRange(a),
         todo' \subseteq DOMAIN target',
         at = "read" => todo' # {}
  PROVE  TypeInv'
<1>1. budget' \in [commands : Nat, mishaps : Nat, edits : Nat]
  <2>1. budget \in [commands : Nat, mishaps : Nat, edits : Nat]
    BY DEF TypeInv, TypeOK
  <2>2. /\ budget.commands - 1 \in Nat
        /\ budget' = [budget EXCEPT !.commands = budget.commands - 1]
    BY <2>1 DEF Receive
  <2> QED
    BY <2>1, <2>2
<1>2. RestOK'
  BY <1>1 DEF Receive, RestOK, TypeInv, TypeOK, InRange
<1>3. /\ pc' = at /\ op' = o /\ option' = opt /\ slots' = NoSlots
      /\ retry' = FALSE /\ failed' = FALSE
  BY DEF Receive
<1>4. NoSlots \in TimedSlots
  BY NoSlotsType
<1>5. ModeOption'
  BY <1>3 DEF ModeOption
<1>6. JobOK'
  BY <1>3, <1>4, <1>5 DEF JobOK, Places
<1> QED
  BY <1>2, <1>6, TypeInvPartsNext

\* A step that leaves the registers, the configuration, the clock and disturbed
\* alone is judged by the job it leaves and by the budget.
LEMMA QuietStep ==
  ASSUME RestOK, UNCHANGED <<regs, conf, now, disturbed>>,
         UNCHANGED budget \/ Mishap
  PROVE  RestOK'
BY MishapOK DEF RestOK

LEMMA CommandTypeInv ==
  ASSUME TypeInv, Command
  PROVE  TypeInv'
<1>1. CASE BoostOff
  <2>1. /\ target' = registersOf(NoSlots, SlotRegs(boostSlot))
        /\ todo' = SlotRegs(boostSlot)
        /\ Receive("boost", OffOption, "read")
    BY <1>1 DEF BoostOff
  <2>2. OffOption \in [mode : Directions \cup {"Off"}, minutes : Nat]
    BY DEF OffOption
  <2>3. /\ DOMAIN target' = SlotRegs(boostSlot)
        /\ \A a \in DOMAIN target' : target'[a] \in Nat /\ target'[a] \in fieldRange(a)
    BY <2>1, NoSlotsType, BoostRegs, registersOfOK
  <2> QED
    BY <2>1, <2>2, <2>3, BoostRegs, ReceiveOK DEF Addr
<1>2. CASE BoostOn
  <2>1. PICK opt \in BoostOptions \ {OffOption} : Receive("boost", opt, "mode")
    BY <1>2 DEF BoostOn
  <2>2. opt \in [mode : Directions, minutes : boostDurations]
    BY DEF BoostOptions
  <2>3. opt \in [mode : Directions \cup {"Off"}, minutes : Nat]
    BY <2>2, BoostAssumption
  <2>4. DOMAIN target' = {} /\ todo' = {}
    BY <1>2 DEF BoostOn, NoTarget
  <2> QED
    BY <2>1, <2>2, <2>3, <2>4, ReceiveOK
<1>3. CASE SetOptimalIncome
  <2>1. PICK on \in {0, 1} : Receive("income", [mode |-> "Off", minutes |-> on], "mode")
    BY <1>3 DEF SetOptimalIncome
  <2>2. [mode |-> "Off", minutes |-> on] \in [mode : Directions \cup {"Off"}, minutes : Nat]
    OBVIOUS
  <2>3. DOMAIN target' = {} /\ todo' = {}
    BY <1>3 DEF SetOptimalIncome, NoTarget
  <2> QED
    BY <2>1, <2>2, <2>3, ReceiveOK
<1>4. CASE SetCurrent
  <2>1. Receive("amps", OffOption, "read")
    BY <1>4 DEF SetCurrent
  <2>2. PICK x \in {RegTimedChargeCurrent, RegTimedDischargeCurrent}, r \in Requests :
          /\ target' = [y \in {x} |-> EncodeAmps(ClampHAChargeAmps(r))]
          /\ todo' = {x}
    BY <1>4 DEF SetCurrent
  <2>3. EncodeAmps(ClampHAChargeAmps(r)) \in Nat
    BY InputAssumption DEF EncodeAmps, ClampHAChargeAmps
  <2>4. OffOption \in [mode : Directions \cup {"Off"}, minutes : Nat]
    BY DEF OffOption
  <2>5. /\ DOMAIN target' = {x}
        /\ \A a \in DOMAIN target' : target'[a] \in Nat
    BY <2>2, <2>3
  <2>6. x \in Globals
    BY DEF Globals
  <2>7. AllSlotRegs \cap DOMAIN target' = {}
    BY <2>5, <2>6, GlobalsApart
  <2> QED
    BY <2>1, <2>2, <2>4, <2>5, <2>6, <2>7, ReceiveOK DEF Addr
<1> QED
  BY <1>1, <1>2, <1>3, <1>4 DEF Command

LEMMA WithTimedNat ==
  ASSUME NEW raw \in Nat, NEW on \in BOOLEAN
  PROVE  WithTimed(raw, on) \in Nat
BY DEF WithTimed, Timed

LEMMA WorkTypeInv ==
  ASSUME TypeInv, Work
  PROVE  TypeInv'
<1> USE TypeInvParts
<1> SUFFICES JobOK' /\ RestOK'
  BY TypeInvPartsNext
<1>1. CASE ModeReadFails
  BY <1>1, FinishOK, QuietStep DEF ModeReadFails
<1>2. CASE IncomeModeRead
  <2> DEFINE t == [a \in {RegWorkMode} |-> WithTimed(regs[RegWorkMode], option.minutes = 1)]
  <2>1. regs[RegWorkMode] \in Nat
    BY DEF RestOK, Addr, Globals
  <2>2. DOMAIN t = {RegWorkMode} /\ \A a \in DOMAIN t : t[a] \in Nat
    BY <2>1, WithTimedNat
  <2>3. RegWorkMode \in Addr /\ AllSlotRegs \cap DOMAIN t = {}
    BY <2>2, GlobalsApart DEF Addr, Globals
  <2>4. Sequence(t, {RegWorkMode}) /\ UNCHANGED budget /\ UNCHANGED <<regs, conf, now, disturbed>>
    BY <1>2 DEF IncomeModeRead
  <2> HIDE DEF t
  <2> QED
    BY <2>2, <2>3, <2>4, SequenceOK, QuietStep
<1>3. CASE BoostModeRead
  <2> DEFINE plan == PlanBoost(option.mode, option.minutes, now, conf.tou, conf.assertToU)
             s == [NoSlots EXCEPT ![boostSlot] = plan.slot]
  <2>1. UNCHANGED budget /\ UNCHANGED <<regs, conf, now, disturbed>>
    BY <1>3 DEF BoostModeRead
  <2>2. CASE Finish(FALSE)
    BY <2>1, <2>2, FinishOK, QuietStep
  <2>3. CASE /\ plan.err = ""
             /\ Sequence(registersOf(s, SlotRegs(boostSlot)), SlotRegs(boostSlot))
    <3>1. option \in [mode : Directions, minutes : boostDurations]
      BY <1>3 DEF BoostModeRead, JobOK, ModeOption
    <3>2. option.mode \in Directions /\ option.minutes \in Nat /\ option.minutes >= boostStep
      BY <3>1, DurationsPositive
    <3>3. now \in Minutes /\ conf.assertToU \in BOOLEAN
      BY InputAssumption DEF RestOK, Config
    <3>4. OneWindow(plan.slot, option.mode)
      BY <2>3, <3>2, <3>3, PlanBoostShape, Zenon
    <3> HIDE DEF plan
    <3>5. s \in TimedSlots
      <4>1. PICK w \in TimedWindow : plan.slot = [NoSlot EXCEPT ![option.mode] = w]
        BY <3>4 DEF OneWindow
      <4>2. plan.slot \in TimedSlot
        BY <4>1, EmptyTypes DEF TimedSlot
      <4> QED
        BY <4>2, NoSlotsType DEF TimedSlots
    <3> HIDE DEF s
    <3>6. /\ DOMAIN registersOf(s, SlotRegs(boostSlot)) = SlotRegs(boostSlot)
          /\ \A a \in SlotRegs(boostSlot) :
               /\ registersOf(s, SlotRegs(boostSlot))[a] \in Nat
               /\ registersOf(s, SlotRegs(boostSlot))[a] \in fieldRange(a)
      BY <3>5, BoostRegs, registersOfOK
    <3>7. JobOK'
      BY <2>3, <3>6, BoostRegs, SequenceOK DEF Addr
    <3> QED
      BY <2>1, <3>7, QuietStep
  <2> QED
    BY <1>3, <2>2, <2>3 DEF BoostModeRead
<1>4. CASE PollAbandoned
  BY <1>4, FinishOK, QuietStep DEF PollAbandoned
<1>5. CASE Reconcile
  <2> DEFINE desired == Desired(conf.tou, conf.assertToU, slots, now)
  <2>1. UNCHANGED budget /\ UNCHANGED <<regs, conf, now, disturbed>>
    BY <1>5 DEF Reconcile
  <2>2. CASE Finish(FALSE)
    BY <2>1, <2>2, FinishOK, QuietStep
  <2>3. CASE Sequence(registersOf(desired, AllSlotRegs), scheduleDiff(desired, slots))
    <3>1. conf.tou \in TimedWindow /\ conf.assertToU \in BOOLEAN /\ slots \in TimedSlots
      BY InputAssumption DEF RestOK, JobOK, Config
    <3>2. desired \in TimedSlots
      BY <3>1, DesiredType
    <3> HIDE DEF desired
    <3>3. /\ DOMAIN registersOf(desired, AllSlotRegs) = AllSlotRegs
          /\ \A a \in AllSlotRegs :
               /\ registersOf(desired, AllSlotRegs)[a] \in Nat
               /\ registersOf(desired, AllSlotRegs)[a] \in fieldRange(a)
      BY <3>2, registersOfOK
    <3>4. scheduleDiff(desired, slots) \subseteq AllSlotRegs
      BY DEF scheduleDiff
    <3>5. JobOK'
      BY <2>3, <3>3, <3>4, SequenceOK DEF Addr
    <3> QED
      BY <2>1, <3>5, QuietStep
  <2> QED
    BY <1>5, <2>2, <2>3 DEF Reconcile
<1>6. CASE GuardReadFails
  BY <1>6, GuardFailsOK, QuietStep DEF GuardReadFails, JobOK
<1>7. CASE GuardConfirmFails
  BY <1>7, FinishOK, QuietStep DEF GuardConfirmFails
<1>8. ASSUME NEW a \in todo, GuardRead(a) PROVE JobOK' /\ RestOK'
  <2>1. CASE regs[a] = target[a]
    BY <1>8, <2>1, GuardDoneOK, QuietStep DEF GuardRead
  <2>2. CASE regs[a] # target[a]
    BY <1>8, <2>2, QuietStep DEF GuardRead, JobOK, ModeOption, Places
  <2> QED
    BY <2>1, <2>2
<1>9. ASSUME NEW a \in todo, regs' = [regs EXCEPT ![a] = target[a]]
      PROVE  /\ regs' \in [Addr -> Nat]
             /\ \A b \in AllSlotRegs : regs'[b] \in fieldRange(b)
  BY <1>9 DEF JobOK, RestOK, Addr
<1>10. ASSUME NEW a \in todo, GuardWrite(a) PROVE JobOK' /\ RestOK'
  <2>1. JobOK'
    BY <1>10 DEF GuardWrite, JobOK, ModeOption, Places
  <2>2. RestOK'
    BY <1>9, <1>10 DEF GuardWrite, RestOK
  <2> QED
    BY <2>1, <2>2
<1>11. ASSUME NEW a \in todo, GuardWriteFails(a) PROVE JobOK' /\ RestOK'
  <2>1. JobOK'
    BY <1>11, GuardFailsOK DEF GuardWriteFails
  <2>2. budget' \in [commands : Nat, mishaps : Nat, edits : Nat]
    BY <1>11, MishapOK DEF GuardWriteFails
  <2>3. /\ regs' \in [Addr -> Nat]
        /\ \A b \in AllSlotRegs : regs'[b] \in fieldRange(b)
    BY <1>9, <1>11 DEF GuardWriteFails, RestOK
  <2>4. UNCHANGED <<conf, now, disturbed>>
    BY <1>11 DEF GuardWriteFails
  <2> QED
    BY <2>1, <2>2, <2>3, <2>4 DEF RestOK
<1>12. ASSUME NEW a \in todo, GuardConfirm(a) PROVE JobOK' /\ RestOK'
  BY <1>12, GuardDoneOK, FinishOK, QuietStep DEF GuardConfirm
<1> QED
  BY <1>1, <1>2, <1>3, <1>4, <1>5, <1>6, <1>7, <1>8, <1>10, <1>11, <1>12 DEF Work

LEMMA PollTypeInv ==
  ASSUME TypeInv, PollRead \/ PollReadFails
  PROVE  TypeInv'
<1>1. JobOK /\ RestOK
  BY TypeInvParts
<1>2. CASE PollRead
  <2>1. slots' \in TimedSlots
    BY <1>2 DEF PollRead, ClocksInRange
  <2>2. JobOK'
    BY <1>1, <1>2, <2>1 DEF PollRead, JobOK, ModeOption, Places
  <2>3. RestOK'
    BY <1>1, <1>2 DEF PollRead, RestOK
  <2> QED
    BY <2>2, <2>3, TypeInvPartsNext
<1>3. CASE PollReadFails
  <2>1. JobOK'
    BY <1>1, <1>3 DEF PollReadFails, JobOK, ModeOption
  <2>2. RestOK'
    BY <1>1, <1>3, QuietStep DEF PollReadFails
  <2> QED
    BY <2>1, <2>2, TypeInvPartsNext
<1> QED
  BY <1>2, <1>3

LEMMA EnvironmentTypeInv ==
  ASSUME TypeInv, Environment
  PROVE  TypeInv'
<1>1. JobOK /\ RestOK
  BY TypeInvParts
<1>2. CASE Tick
  <2>1. now' \in Minutes
    <3>1. minutesPerDay \in Nat \ {0}
      BY ClockAssumption DEF minutesPerDay
    <3>2. now \in Nat
      BY <1>1, <3>1 DEF RestOK, Minutes
    <3> QED
      BY <1>2, <3>1, <3>2 DEF Tick, Minutes
  <2>2. JobOK' /\ RestOK'
    BY <1>1, <1>2, <2>1 DEF Tick, JobOK, RestOK, ModeOption
  <2> QED
    BY <2>2, TypeInvPartsNext
<1>3. CASE AppEdit
  <2>1. JobOK'
    BY <1>1, <1>3 DEF AppEdit, JobOK, ModeOption
  <2>2. budget' \in [commands : Nat, mishaps : Nat, edits : Nat]
    <3>1. budget \in [commands : Nat, mishaps : Nat, edits : Nat]
      BY <1>1 DEF RestOK
    <3>2. budget.edits - 1 \in Nat
      BY <1>3, <3>1 DEF AppEdit
    <3>3. budget' = [budget EXCEPT !.edits = budget.edits - 1]
      BY <1>3 DEF AppEdit
    <3> QED
      BY <3>1, <3>2, <3>3
  <2>3. UNCHANGED <<conf, now>> /\ disturbed' = TRUE
    BY <1>3 DEF AppEdit
  <2>4. regs' \in [Addr -> Nat] /\ \A a \in AllSlotRegs : regs'[a] \in fieldRange(a)
    <3>1. CASE \E m \in WorkModes : regs' = [regs EXCEPT ![RegWorkMode] = m]
      <4>1. PICK m \in WorkModes : regs' = [regs EXCEPT ![RegWorkMode] = m]
        BY <3>1
      <4>2. m \in Nat
        BY InputAssumption
      <4>3. RegWorkMode \notin AllSlotRegs
        BY GlobalsApart DEF Globals
      <4> QED
        BY <1>1, <4>1, <4>2, <4>3 DEF RestOK, Addr
    <3>2. ASSUME NEW i \in SlotIndex, NEW d \in Directions, NEW w \in AppWindows,
                 regs' = [a \in Addr |-> IF \E f \in Fields : a = SlotReg(i, d, f)
                                         THEN fieldOf(w, fieldIndexOf(a)) ELSE regs[a]]
          PROVE  regs' \in [Addr -> Nat] /\ \A a \in AllSlotRegs : regs'[a] \in fieldRange(a)
      <4>1. w \in TimedWindow
        BY InputAssumption
      <4>2. ASSUME NEW a \in Addr, \E f \in Fields : a = SlotReg(i, d, f)
            PROVE  /\ fieldOf(w, fieldIndexOf(a)) \in fieldRange(a)
                   /\ fieldOf(w, fieldIndexOf(a)) \in Nat
        <5>1. fieldIndexOf(a) \in Fields
          BY <4>2, SlotRegInverse
        <5>2. fieldOf(w, fieldIndexOf(a)) \in fieldRange(a)
          BY <4>1, <5>1, fieldOfRange DEF fieldRange
        <5>3. fieldRange(a) \subseteq Nat
          BY ClockAssumption DEF fieldRange
        <5> QED
          BY <5>2, <5>3
      <4>3. regs \in [Addr -> Nat] /\ \A a \in AllSlotRegs : regs[a] \in fieldRange(a)
        BY <1>1 DEF RestOK
      <4> QED
        BY <3>2, <4>2, <4>3 DEF Addr
    <3> QED
      BY <1>3, <3>1, <3>2 DEF AppEdit
  <2> QED
    BY <1>1, <2>1, <2>2, <2>3, <2>4, TypeInvPartsNext DEF RestOK
<1>4. CASE Restart
  <2>1. JobOK'
    BY <1>4, FinishOK DEF Restart
  <2>2. RestOK'
    BY <1>1, <1>4, MishapOK DEF Restart, RestOK
  <2> QED
    BY <2>1, <2>2, TypeInvPartsNext
<1> QED
  BY <1>2, <1>3, <1>4 DEF Environment

LEMMA StutterTypeInv ==
  ASSUME TypeInv, UNCHANGED vars
  PROVE  TypeInv'
BY DEF vars, TypeInv, TypeOK, InRange, ModeOption

LEMMA TypeInvInvariant == Spec => []TypeInv
<1>1. TypeInv /\ [Next]_vars => TypeInv'
  BY CommandTypeInv, PollTypeInv, WorkTypeInv, EnvironmentTypeInv, StutterTypeInv DEF Next
<1> QED
  BY InitTypeInv, <1>1, PTL DEF Spec

\* Every variable keeps its type.
THEOREM TypeCorrect == Spec => []TypeOK
<1>1. TypeInv => TypeOK
  BY DEF TypeInv
<1> QED
  BY <1>1, TypeInvInvariant, PTL

\* The schedule in the inverter stays one that DecodeTimedSlots accepts, at every
\* point of every sequence: aborted, retried, interleaved with the app or cut
\* off by a restart.
THEOREM ScheduleReadable == Spec => []ScheduleStaysReadable
<1>1. TypeInv => ScheduleStaysReadable
  BY InRangeDecodes DEF TypeInv, InRange, ScheduleStaysReadable
<1> QED
  BY <1>1, TypeInvInvariant, PTL

-----------------------------------------------------------------------------
(* What a sequence has done so far.                                        *)

Guarding == pc \in {"read", "write", "confirm"}

\* Only a guarding job has a target.
TargetPlace == ~Guarding => target = NoTarget

\* A job guards slot registers, or one single register.
TodoShape == todo \subseteq AllSlotRegs \/ \E a \in Addr : todo = {a}

\* The registers a sequence is done with, or that its diff left out, hold their
\* values, as long as nobody else writes.
Held == ~disturbed /\ Guarding => \A a \in DOMAIN target \ todo : regs[a] = target[a]

\* The slots handed to Reconcile are the ones in the inverter.
FreshSlots == ~disturbed /\ pc = "polled" => slots = DecodeTimedSlots(regs)

\* A sequence that is still to set a register of one direction aims at an empty
\* window in the other one, and at the whole slot.
OneDirection ==
  \A i \in SlotIndex, d \in Directions, f \in Fields :
    /\ SlotReg(i, d, f) \in todo
    /\ target[SlotReg(i, d, f)] # 0
    => /\ SlotRegs(i) \subseteq DOMAIN target
       /\ \A g \in Fields : target[SlotReg(i, otherDirection(d), g)] = 0

\* The inductive invariant of the safety theorems.
SafetyInv ==
  /\ TypeInv
  /\ TargetPlace
  /\ TodoShape
  /\ Held
  /\ FreshSlots
  /\ NoNeedlessWrite
  /\ OneDirection

\* Everything of it but the types.
JobSafe == TargetPlace /\ TodoShape /\ Held /\ FreshSlots /\ NoNeedlessWrite /\ OneDirection

-----------------------------------------------------------------------------
(* The write order.                                                        *)

\* In a swapped slot a register takes the place of its counterpart in the other
\* direction's block.
LEMMA RankValue ==
  ASSUME NEW S, NEW i \in SlotIndex, NEW d \in Directions, NEW f \in Fields
  PROVE  rank(S, SlotReg(i, d, f)) =
           IF i \in S THEN SlotReg(i, otherDirection(d), f) ELSE SlotReg(i, d, f)
<1>1. slotOf(SlotReg(i, d, f)) = i /\ directionOf(SlotReg(i, d, f)) = d
  BY SlotRegInverse
<1>2. rank(S, SlotReg(i, d, f)) =
        IF ~(i \in S) THEN SlotReg(i, d, f)
        ELSE IF d = "Charge" THEN SlotReg(i, d, f) + 4 ELSE SlotReg(i, d, f) - 4
  BY <1>1 DEF rank, writeRank
<1>3. SlotReg(i, otherDirection(d), f) =
        IF d = "Charge" THEN SlotReg(i, d, f) + 4 ELSE SlotReg(i, d, f) - 4
  <2>1. i \in Int /\ f \in Int
    BY DEF SlotIndex, Fields
  <2>2. CASE d = "Charge"
    BY <2>1, <2>2, SlotRegValue, otherDirectionType DEF otherDirection
  <2>3. CASE d = "Discharge"
    BY <2>1, <2>3, SlotRegValue, otherDirectionType DEF otherDirection
  <2> QED
    BY <2>2, <2>3 DEF Directions
<1> QED
  BY <1>2, <1>3

LEMMA RankInjective ==
  ASSUME NEW S, NEW a \in AllSlotRegs, NEW b \in AllSlotRegs, rank(S, a) = rank(S, b)
  PROVE  a = b
<1>1. PICK i \in SlotIndex, d \in Directions, f \in Fields : a = SlotReg(i, d, f)
  BY DEF AllSlotRegs, SlotRegs
<1>2. PICK j \in SlotIndex, e \in Directions, g \in Fields : b = SlotReg(j, e, g)
  BY DEF AllSlotRegs, SlotRegs
<1>3. slotOf(rank(S, a)) = i /\ fieldIndexOf(rank(S, a)) = f
      /\ directionOf(rank(S, a)) = IF i \in S THEN otherDirection(d) ELSE d
  BY <1>1, RankValue, SlotRegInverse, otherDirectionType
<1>4. slotOf(rank(S, b)) = j /\ fieldIndexOf(rank(S, b)) = g
      /\ directionOf(rank(S, b)) = IF j \in S THEN otherDirection(e) ELSE e
  BY <1>2, RankValue, SlotRegInverse, otherDirectionType
<1>5. i = j /\ f = g
  BY <1>3, <1>4
<1>6. d = e
  BY <1>3, <1>4, <1>5 DEF otherDirection, Directions
<1> QED
  BY <1>1, <1>2, <1>5, <1>6

LEMMA RankInt ==
  ASSUME NEW S, NEW a \in AllSlotRegs
  PROVE  rank(S, a) \in Int
<1>1. PICK i \in SlotIndex, d \in Directions, f \in Fields : a = SlotReg(i, d, f)
  BY DEF AllSlotRegs, SlotRegs
<1>2. PICK e \in Directions : rank(S, a) = SlotReg(i, e, f)
  BY <1>1, RankValue, otherDirectionType
<1> QED
  BY <1>2, SlotRegValue DEF SlotIndex, Fields

\* The sequence has reached one register.
LEMMA NextUnique ==
  ASSUME TodoShape, NEW S, NEW a, NEW b, isNext(S, a), isNext(S, b)
  PROVE  a = b
<1>1. CASE \E x \in Addr : todo = {x}
  BY <1>1 DEF isNext
<1>2. CASE todo \subseteq AllSlotRegs
  <2>1. rank(S, a) <= rank(S, b) /\ rank(S, b) <= rank(S, a)
    BY DEF isNext
  <2>2. a \in AllSlotRegs /\ b \in AllSlotRegs
    BY <1>2 DEF isNext
  <2>3. rank(S, a) = rank(S, b)
    BY <2>1, <2>2, RankInt
  <2> QED
    BY <2>2, <2>3, RankInjective
<1> QED
  BY <1>1, <1>2 DEF TodoShape

\* When a sequence comes to set a register of one direction, it is done with the
\* other direction of that slot, and has left it empty (the two block orders of
\* TimedSlotWriteRegisters).
LEMMA OppositeClear ==
  ASSUME JobSafe, ~disturbed, Guarding,
         NEW i \in SlotIndex, NEW d \in Directions, NEW f \in Fields,
         isNext(swapped, SlotReg(i, d, f)),
         target[SlotReg(i, d, f)] # 0
  PROVE  ~windowSet(regs, i, otherDirection(d))
<1> DEFINE e == otherDirection(d)
<1>1. e \in Directions
  BY otherDirectionType
<1>2. /\ SlotRegs(i) \subseteq DOMAIN target
      /\ \A g \in Fields : target[SlotReg(i, e, g)] = 0
  BY DEF JobSafe, OneDirection, isNext
<1>3. i \in swapped <=> d = "Charge"
  <2>1. ~IsZero(decodeTimedWindow(target, i, d)) /\ IsZero(decodeTimedWindow(target, i, e))
    BY <1>1, <1>2, DecodedIsZero
  <2>2. i \in swapped <=> dischargeFirst(decodeTimedSlot(target, i))
    BY <1>2 DEF swapped
  <2>3. CASE d = "Charge"
    BY <2>1, <2>2, <2>3
    DEF dischargeFirst, decodeTimedSlot, otherDirection, Directions
  <2>4. CASE d = "Discharge"
    BY <2>1, <2>2, <2>4
    DEF dischargeFirst, decodeTimedSlot, otherDirection, Directions
  <2> QED
    BY <2>3, <2>4 DEF Directions
<1>4. ASSUME NEW g \in Fields PROVE SlotReg(i, e, g) \notin todo
  <2>1. rank(swapped, SlotReg(i, e, g)) < rank(swapped, SlotReg(i, d, f))
    <3>1. i \in Int /\ f \in 0 .. 3 /\ g \in 0 .. 3
      BY DEF SlotIndex, Fields
    <3>2. rank(swapped, SlotReg(i, d, f)) = SlotReg(i, "Discharge", f)
      BY <1>3, RankValue DEF otherDirection, Directions
    <3>3. rank(swapped, SlotReg(i, e, g)) = SlotReg(i, "Charge", g)
      BY <1>1, <1>3, RankValue DEF otherDirection, Directions
    <3>4. "Charge" \in Directions /\ "Discharge" \in Directions
      BY DEF Directions
    <3> QED
      BY <3>1, <3>2, <3>3, <3>4, SlotRegValue
  <2>2. SlotReg(i, d, f) \in AllSlotRegs /\ SlotReg(i, e, g) \in AllSlotRegs
    BY <1>1, SlotRegInverse
  <2>3. SlotReg(i, e, g) \in todo => rank(swapped, SlotReg(i, d, f)) <= rank(swapped, SlotReg(i, e, g))
    BY DEF isNext
  <2> QED
    BY <2>1, <2>2, <2>3, RankInt
<1>5. ASSUME NEW g \in Fields PROVE regs[SlotReg(i, e, g)] = 0
  <2>1. SlotReg(i, e, g) \in DOMAIN target
    BY <1>1, <1>2 DEF SlotRegs
  <2> QED
    BY <1>2, <1>4, <2>1 DEF JobSafe, Held
<1> QED
  BY <1>5 DEF windowSet

-----------------------------------------------------------------------------
(* The targets of the jobs.                                                *)

-----------------------------------------------------------------------------
(* Every step keeps the invariant.                                         *)

LEMMA FinishSafe ==
  ASSUME NEW err, Finish(err)
  PROVE  JobSafe'
BY DEF Finish, JobSafe, TargetPlace, TodoShape, Held, FreshSlots, NoNeedlessWrite,
       OneDirection, Guarding

\* A sequence may begin when what it leaves out already holds.
LEMMA BeginSafe ==
  ASSUME pc' = "read",
         TodoShape', OneDirection',
         ~disturbed' => \A a \in DOMAIN target' \ todo' : regs'[a] = target'[a]
  PROVE  JobSafe'
BY DEF JobSafe, TargetPlace, Held, FreshSlots, NoNeedlessWrite, Guarding

\* A job without a target says nothing about the registers.
LEMMA IdleSafe ==
  ASSUME pc' \in {"idle", "mode", "polled"}, target' = NoTarget, todo' = {},
         FreshSlots'
  PROVE  JobSafe'
BY DEF JobSafe, TargetPlace, TodoShape, Held, NoNeedlessWrite, OneDirection, Guarding

LEMMA NoTargetTodo ==
  ASSUME TypeInv, JobSafe, ~Guarding
  PROVE  target = NoTarget /\ todo = {}
<1>1. target = NoTarget
  BY DEF JobSafe, TargetPlace
<1>2. DOMAIN NoTarget = {}
  BY DEF NoTarget
<1> QED
  BY <1>1, <1>2 DEF TypeInv, TypeOK

\* Slot registers are not guarded by a job on a single register.
LEMMA SingleOneDirection ==
  ASSUME NEW a \in Globals, todo' = {a}
  PROVE  TodoShape' /\ OneDirection'
<1>1. \A i \in SlotIndex, d \in Directions, f \in Fields : SlotReg(i, d, f) \notin todo'
  BY SlotRegInverse, GlobalsApart
<1> QED
  BY <1>1 DEF TodoShape, OneDirection, Addr

\* The image of slots, each register of which is in the slots' one direction.
LEMMA ImageOneDirection ==
  ASSUME NEW s, NEW A \in SUBSET AllSlotRegs, NEW B \in SUBSET A,
         target' = registersOf(s, A), todo' = B,
         \A i \in SlotIndex, d \in Directions, f \in Fields :
           /\ SlotReg(i, d, f) \in B
           /\ slotValue(s, SlotReg(i, d, f)) # 0
           => /\ SlotRegs(i) \subseteq A
              /\ \A g \in Fields : slotValue(s, SlotReg(i, otherDirection(d), g)) = 0
  PROVE  TodoShape' /\ OneDirection'
<1>1. TodoShape'
  BY DEF TodoShape
<1>2. DOMAIN target' = A /\ \A a \in A : target'[a] = slotValue(s, a)
  BY DEF registersOf
<1>3. ASSUME NEW i \in SlotIndex, NEW d \in Directions, NEW f \in Fields,
             SlotReg(i, d, f) \in todo', target'[SlotReg(i, d, f)] # 0
      PROVE  /\ SlotRegs(i) \subseteq DOMAIN target'
             /\ \A g \in Fields : target'[SlotReg(i, otherDirection(d), g)] = 0
  <2>1. /\ SlotRegs(i) \subseteq A
        /\ \A g \in Fields : slotValue(s, SlotReg(i, otherDirection(d), g)) = 0
    BY <1>2, <1>3
  <2>2. \A g \in Fields : SlotReg(i, otherDirection(d), g) \in SlotRegs(i)
    BY otherDirectionType DEF SlotRegs
  <2> QED
    BY <1>2, <2>1, <2>2
<1> QED
  BY <1>1, <1>3 DEF OneDirection

LEMMA CommandSafe ==
  ASSUME TypeInv, JobSafe, Command
  PROVE  JobSafe'
<1>1. CASE BoostOff
  <2>1. /\ pc' = "read" /\ todo' = SlotRegs(boostSlot)
        /\ target' = registersOf(NoSlots, SlotRegs(boostSlot))
    BY <1>1 DEF BoostOff, Receive
  <2>2. \A i \in SlotIndex, d \in Directions, f \in Fields :
          slotValue(NoSlots, SlotReg(i, d, f)) = 0
    BY slotValueAt, NoWindowField DEF NoSlots, NoSlot
  <2>3. TodoShape' /\ OneDirection'
    BY <2>1, <2>2, BoostRegs, ImageOneDirection
  <2>4. DOMAIN target' = todo'
    BY <2>1 DEF registersOf
  <2> QED
    BY <2>1, <2>3, <2>4, BeginSafe
<1>2. CASE BoostOn
  <2>1. pc' = "mode" /\ target' = NoTarget /\ todo' = {}
    BY <1>2 DEF BoostOn, Receive
  <2> QED
    BY <2>1, IdleSafe DEF FreshSlots
<1>3. CASE SetOptimalIncome
  <2>1. pc' = "mode" /\ target' = NoTarget /\ todo' = {}
    BY <1>3 DEF SetOptimalIncome, Receive
  <2> QED
    BY <2>1, IdleSafe DEF FreshSlots
<1>4. CASE SetCurrent
  <2>1. pc' = "read"
    BY <1>4 DEF SetCurrent, Receive
  <2>2. PICK x \in {RegTimedChargeCurrent, RegTimedDischargeCurrent}, r \in Requests :
          /\ target' = [y \in {x} |-> EncodeAmps(ClampHAChargeAmps(r))]
          /\ todo' = {x}
    BY <1>4 DEF SetCurrent
  <2>3. TodoShape' /\ OneDirection'
    BY <2>2, SingleOneDirection DEF Globals
  <2>4. DOMAIN target' = todo'
    BY <2>2
  <2> QED
    BY <2>1, <2>3, <2>4, BeginSafe
<1> QED
  BY <1>1, <1>2, <1>3, <1>4 DEF Command

\* Guard failed on a register of todo, whether its frame landed or not.
LEMMA GuardFailsSafe ==
  ASSUME TypeInv, JobSafe, Guarding, GuardFails, UNCHANGED disturbed,
         NEW a \in todo, regs' = regs \/ regs' = [regs EXCEPT ![a] = target[a]]
  PROVE  JobSafe'
<1>1. CASE Finish(TRUE)
  BY <1>1, FinishSafe
<1>2. CASE pc' = "read" /\ UNCHANGED <<target, todo>>
  <2>1. TodoShape' /\ OneDirection'
    BY <1>2 DEF JobSafe, TodoShape, OneDirection
  <2>2. ~disturbed => \A b \in DOMAIN target \ todo : regs[b] = target[b]
    BY DEF JobSafe, Held
  <2>3. \A b \in DOMAIN target \ todo : regs'[b] = regs[b]
    BY DEF TypeInv, TypeOK
  <2> QED
    BY <1>2, <2>1, <2>2, <2>3, BeginSafe
<1> QED
  BY <1>1, <1>2 DEF GuardFails

\* Guard succeeded on a register that holds its value.
LEMMA GuardDoneSafe ==
  ASSUME TypeInv, JobSafe, Guarding, UNCHANGED <<regs, disturbed>>,
         NEW a \in todo, regs[a] = target[a], GuardDone(a)
  PROVE  JobSafe'
<1>1. CASE todo = {a}
  BY <1>1, FinishSafe DEF GuardDone
<1>2. CASE todo # {a}
  <2>1. pc' = "read" /\ todo' = todo \ {a} /\ target' = target
    BY <1>2 DEF GuardDone
  <2>2. TodoShape'
    BY <1>2, <2>1 DEF JobSafe, TodoShape
  <2>3. OneDirection'
    BY <2>1 DEF JobSafe, OneDirection
  <2>4. ~disturbed => \A b \in DOMAIN target \ todo' : regs[b] = target[b]
    BY <2>1 DEF JobSafe, Held
  <2> QED
    BY <2>1, <2>2, <2>3, <2>4, BeginSafe
<1> QED
  BY <1>1, <1>2

LEMMA IncomeModeReadSafe ==
  ASSUME TypeInv, JobSafe, IncomeModeRead
  PROVE  JobSafe'
<1>1. /\ pc' = "read" /\ todo' = {RegWorkMode}
      /\ target' = [a \in {RegWorkMode} |-> WithTimed(regs[RegWorkMode], option.minutes = 1)]
  BY DEF IncomeModeRead, Sequence
<1>2. TodoShape' /\ OneDirection'
  BY <1>1, SingleOneDirection DEF Globals
<1>3. DOMAIN target' = todo'
  BY <1>1
<1> QED
  BY <1>1, <1>2, <1>3, BeginSafe

LEMMA BoostModeReadSafe ==
  ASSUME TypeInv, JobSafe, BoostModeRead
  PROVE  JobSafe'
<1> DEFINE plan == PlanBoost(option.mode, option.minutes, now, conf.tou, conf.assertToU)
           s == [NoSlots EXCEPT ![boostSlot] = plan.slot]
<1>1. CASE Finish(FALSE)
  BY <1>1, FinishSafe
<1>2. CASE /\ plan.err = ""
           /\ Sequence(registersOf(s, SlotRegs(boostSlot)), SlotRegs(boostSlot))
  <2>1. option \in [mode : Directions, minutes : boostDurations]
    BY DEF BoostModeRead, TypeInv, ModeOption
  <2>2. option.mode \in Directions /\ option.minutes \in Nat /\ option.minutes >= boostStep
    BY <2>1, DurationsPositive
  <2>3. now \in Minutes /\ conf.assertToU \in BOOLEAN
    BY InputAssumption DEF TypeInv, TypeOK, Config
  <2>4. OneWindow(plan.slot, option.mode)
    BY <1>2, <2>2, <2>3, PlanBoostShape, Zenon
  <2> HIDE DEF plan
  <2>5. boostSlot \in SlotIndex /\ s[boostSlot] = plan.slot
    BY DEF NoSlots, boostSlot, SlotIndex
  <2>6. PICK w \in TimedWindow : plan.slot = [NoSlot EXCEPT ![option.mode] = w]
    BY <2>4 DEF OneWindow
  <2>7. \A d \in Directions : d # option.mode => s[boostSlot][d] = NoWindow
    BY <2>2, <2>5, <2>6 DEF NoSlot
  <2> HIDE DEF s
  <2>8. /\ pc' = "read" /\ todo' = SlotRegs(boostSlot)
        /\ target' = registersOf(s, SlotRegs(boostSlot))
    BY <1>2, BoostRegs DEF Sequence
  <2>9. ASSUME NEW i \in SlotIndex, NEW d \in Directions, NEW f \in Fields,
               SlotReg(i, d, f) \in SlotRegs(boostSlot),
               slotValue(s, SlotReg(i, d, f)) # 0
        PROVE  /\ SlotRegs(i) \subseteq SlotRegs(boostSlot)
               /\ \A g \in Fields : slotValue(s, SlotReg(i, otherDirection(d), g)) = 0
    <3>1. i = boostSlot
      BY <2>9, BoostSlotRegs
    <3>2. d = option.mode
      BY <2>7, <2>9, <3>1, slotValueAt, NoWindowField
    <3>3. s[i][otherDirection(d)] = NoWindow
      BY <2>7, <3>1, <3>2, otherDirectionType
    <3> QED
      BY <3>1, <3>3, slotValueAt, NoWindowField, otherDirectionType
  <2>10. TodoShape' /\ OneDirection'
    BY <2>8, <2>9, BoostRegs, ImageOneDirection
  <2>11. DOMAIN target' = todo'
    BY <2>8 DEF registersOf
  <2> QED
    BY <2>8, <2>10, <2>11, BeginSafe
<1> QED
  BY <1>1, <1>2 DEF BoostModeRead

LEMMA ReconcileSafe ==
  ASSUME TypeInv, JobSafe, Reconcile
  PROVE  JobSafe'
<1> DEFINE desired == Desired(conf.tou, conf.assertToU, slots, now)
           diff == scheduleDiff(desired, slots)
<1>1. pc = "polled" /\ UNCHANGED <<regs, disturbed>>
  BY DEF Reconcile
<1>2. CASE Finish(FALSE)
  BY <1>2, FinishSafe
<1>3. CASE diff # {} /\ Sequence(registersOf(desired, AllSlotRegs), diff)
  <2>1. conf.tou \in TimedWindow /\ conf.assertToU \in BOOLEAN /\ slots \in TimedSlots
    BY InputAssumption DEF TypeInv, TypeOK, Config
  <2>2. /\ diff \subseteq AllSlotRegs
        /\ \A a \in AllSlotRegs : a \in diff <=> slotValue(desired, a) # slotValue(slots, a)
    BY DEF scheduleDiff
  <2>3. ASSUME NEW i \in SlotIndex, NEW d \in Directions, NEW f \in Fields,
               SlotReg(i, d, f) \in diff, slotValue(desired, SlotReg(i, d, f)) # 0
        PROVE  /\ SlotRegs(i) \subseteq AllSlotRegs
               /\ \A g \in Fields : slotValue(desired, SlotReg(i, otherDirection(d), g)) = 0
    <3>1. slotValue(desired, SlotReg(i, d, f)) # slotValue(slots, SlotReg(i, d, f))
      BY <2>2, <2>3, SlotRegInverse
    <3>2. SlotRegs(i) \subseteq AllSlotRegs
      BY DEF AllSlotRegs
    <3> QED
      BY <2>1, <2>3, <3>1, <3>2, DesiredOneDirection
  <2>4. /\ pc' = "read" /\ todo' = diff
        /\ target' = registersOf(desired, AllSlotRegs)
    BY <1>3 DEF Sequence
  <2> HIDE DEF desired, diff
  <2>5. TodoShape' /\ OneDirection'
    BY <2>2, <2>3, <2>4, ImageOneDirection
  <2>6. DOMAIN target' = AllSlotRegs /\ \A a \in AllSlotRegs : target'[a] = slotValue(desired, a)
    BY <2>4 DEF registersOf
  <2>7. ~disturbed => \A a \in AllSlotRegs : slotValue(slots, a) = regs[a]
    BY <1>1, DecodeImage DEF JobSafe, FreshSlots
  <2>8. ~disturbed' => \A a \in DOMAIN target' \ todo' : regs'[a] = target'[a]
    BY <1>1, <2>2, <2>4, <2>6, <2>7
  <2> QED
    BY <2>4, <2>5, <2>8, BeginSafe
<1> QED
  BY <1>2, <1>3 DEF Reconcile, Sequence

\* The frames of Guard on the register the sequence has reached.
LEMMA GuardSafe ==
  ASSUME TypeInv, JobSafe, Guarding, NEW a \in todo, isNext(swapped, a),
         GuardRead(a) \/ GuardWrite(a) \/ GuardWriteFails(a) \/ GuardConfirm(a)
  PROVE  JobSafe'
<1>1. CASE GuardRead(a) /\ regs[a] = target[a]
  BY <1>1, GuardDoneSafe DEF GuardRead
<1>2. CASE GuardRead(a) /\ regs[a] # target[a]
  <2>1. pc' = "write" /\ UNCHANGED <<regs, target, todo, disturbed, slots>>
    BY <1>2 DEF GuardRead
  <2>2. swapped' = swapped
    BY <2>1 DEF swapped
  <2>3. ASSUME NEW b \in todo, isNext(swapped, b)' PROVE regs[b] # target[b]
    <3>1. isNext(swapped, b)
      BY <2>1, <2>2, <2>3 DEF isNext
    <3>2. a = b
      BY <3>1, NextUnique DEF JobSafe
    <3> QED
      BY <1>2, <3>2
  <2>4. NoNeedlessWrite'
    BY <2>1, <2>3 DEF NoNeedlessWrite
  <2>5. TargetPlace' /\ TodoShape' /\ Held' /\ FreshSlots' /\ OneDirection'
    BY <2>1 DEF JobSafe, TargetPlace, TodoShape, Held, FreshSlots, OneDirection, Guarding
  <2> QED
    BY <2>4, <2>5 DEF JobSafe
<1>3. CASE GuardWrite(a)
  <2>1. /\ pc' = "confirm" /\ UNCHANGED <<target, todo, disturbed>>
        /\ regs' = [regs EXCEPT ![a] = target[a]]
    BY <1>3 DEF GuardWrite
  <2>2. \A b \in DOMAIN target \ todo : regs'[b] = regs[b]
    BY <2>1 DEF TypeInv, TypeOK
  <2>3. Held'
    BY <2>1, <2>2 DEF JobSafe, Held
  <2>4. TargetPlace' /\ TodoShape' /\ FreshSlots' /\ NoNeedlessWrite' /\ OneDirection'
    BY <2>1 DEF JobSafe, TargetPlace, TodoShape, FreshSlots, NoNeedlessWrite, OneDirection,
                Guarding
  <2> QED
    BY <2>3, <2>4 DEF JobSafe
<1>4. CASE GuardWriteFails(a)
  BY <1>4, GuardFailsSafe DEF GuardWriteFails
<1>5. CASE GuardConfirm(a) /\ regs[a] = target[a]
  BY <1>5, GuardDoneSafe DEF GuardConfirm
<1>6. CASE GuardConfirm(a) /\ regs[a] # target[a]
  BY <1>6, FinishSafe DEF GuardConfirm
<1> QED
  BY <1>1, <1>2, <1>3, <1>4, <1>5, <1>6

LEMMA WorkSafe ==
  ASSUME TypeInv, JobSafe, Work
  PROVE  JobSafe'
<1>1. CASE ModeReadFails
  BY <1>1, FinishSafe DEF ModeReadFails
<1>2. CASE IncomeModeRead
  BY <1>2, IncomeModeReadSafe
<1>3. CASE BoostModeRead
  BY <1>3, BoostModeReadSafe
<1>4. CASE PollAbandoned
  BY <1>4, FinishSafe DEF PollAbandoned
<1>5. CASE Reconcile
  BY <1>5, ReconcileSafe
<1>6. CASE GuardReadFails
  <2>1. Guarding /\ GuardFails /\ UNCHANGED <<regs, disturbed>>
    BY <1>6 DEF GuardReadFails, Guarding
  <2>2. PICK a : a \in todo
    BY <2>1 DEF TypeInv, TypeOK, Guarding
  <2> QED
    BY <2>1, <2>2, GuardFailsSafe
<1>7. CASE GuardConfirmFails
  BY <1>7, FinishSafe DEF GuardConfirmFails
<1>8. ASSUME Guarding, NEW a \in todo, isNext(swapped, a),
             GuardRead(a) \/ GuardWrite(a) \/ GuardWriteFails(a) \/ GuardConfirm(a)
      PROVE  JobSafe'
  BY <1>8, GuardSafe
<1> QED
  BY <1>1, <1>2, <1>3, <1>4, <1>5, <1>6, <1>7, <1>8 DEF Work, Guarding

LEMMA PollSafe ==
  ASSUME TypeInv, JobSafe, PollRead \/ PollReadFails
  PROVE  JobSafe'
<1>1. pc = "idle" /\ target' = target /\ todo' = todo /\ UNCHANGED regs
  BY DEF PollRead, PollReadFails
<1>2. target' = NoTarget /\ todo' = {}
  BY <1>1, NoTargetTodo DEF Guarding
<1>3. pc' \in {"idle", "polled"} /\ FreshSlots'
  BY <1>1 DEF PollRead, PollReadFails, FreshSlots
<1> QED
  BY <1>2, <1>3, IdleSafe

LEMMA EnvironmentSafe ==
  ASSUME TypeInv, JobSafe, Environment
  PROVE  JobSafe'
<1>1. CASE Tick
  <2>1. /\ pc \in {"idle", "mode", "polled"}
        /\ UNCHANGED <<pc, target, todo, regs, slots, disturbed>>
    BY <1>1 DEF Tick
  <2>2. target' = NoTarget /\ todo' = {}
    BY <2>1, NoTargetTodo DEF Guarding
  <2>3. FreshSlots'
    BY <2>1 DEF JobSafe, FreshSlots
  <2> QED
    BY <2>1, <2>2, <2>3, IdleSafe
<1>2. CASE AppEdit
  <2>1. disturbed' = TRUE /\ UNCHANGED <<pc, target, todo>>
    BY <1>2 DEF AppEdit
  <2> QED
    BY <2>1 DEF JobSafe, TargetPlace, TodoShape, Held, FreshSlots, NoNeedlessWrite,
                OneDirection, Guarding
<1>3. CASE Restart
  BY <1>3, FinishSafe DEF Restart
<1> QED
  BY <1>1, <1>2, <1>3 DEF Environment

LEMMA StutterSafe ==
  ASSUME JobSafe, UNCHANGED vars
  PROVE  JobSafe'
<1>1. UNCHANGED <<pc, target, todo, regs, slots, disturbed>>
  BY DEF vars
<1>2. swapped' = swapped
  BY <1>1 DEF swapped
<1>3. NoNeedlessWrite'
  BY <1>1, <1>2 DEF JobSafe, NoNeedlessWrite, isNext
<1> QED
  BY <1>1, <1>3
  DEF JobSafe, TargetPlace, TodoShape, Held, FreshSlots, OneDirection, Guarding

LEMMA SafetyInvInvariant == Spec => []SafetyInv
<1>1. Init => SafetyInv
  <2>1. Init => JobSafe
    BY DEF Init, JobSafe, TargetPlace, TodoShape, Held, FreshSlots, NoNeedlessWrite,
           OneDirection, Guarding
  <2> QED
    BY <2>1, InitTypeInv DEF JobSafe, SafetyInv
<1>2. SafetyInv /\ [Next]_vars => JobSafe'
  BY CommandSafe, PollSafe, WorkSafe, EnvironmentSafe, StutterSafe
  DEF Next, SafetyInv, JobSafe
<1>3. SafetyInv /\ [Next]_vars => TypeInv'
  BY CommandTypeInv, PollTypeInv, WorkTypeInv, EnvironmentTypeInv, StutterTypeInv
  DEF Next, SafetyInv
<1>4. SafetyInv /\ [Next]_vars => SafetyInv'
  BY <1>2, <1>3 DEF SafetyInv, JobSafe
<1> QED
  BY <1>1, <1>4, PTL DEF Spec

-----------------------------------------------------------------------------
(* The safety theorems.                                                    *)

\* Guard never sends a frame for a register that already holds the value, the
\* retry after a write whose reply was lost included (REQ-HA-10).
THEOREM FlashWear == Spec => []NoNeedlessWrite
<1>1. SafetyInv => NoNeedlessWrite
  BY DEF SafetyInv
<1> QED
  BY <1>1, SafetyInvInvariant, PTL

\* The registers change only by the frame of a guard, or by the app.
LEMMA RegistersChange ==
  ASSUME [Next]_vars, regs' # regs, ~disturbed'
  PROVE  /\ Guarding /\ ~disturbed
         /\ \E a \in todo : isNext(swapped, a) /\ regs' = [regs EXCEPT ![a] = target[a]]
<1>1. ~Command /\ ~PollRead /\ ~PollReadFails /\ ~Environment /\ ~UNCHANGED vars
  BY DEF Command, BoostOff, BoostOn, SetOptimalIncome, SetCurrent, Receive, PollRead,
         PollReadFails, Environment, Tick, AppEdit, Restart, vars
<1>2. Work
  BY <1>1 DEF Next
<1>3. /\ ~ModeReadFails /\ ~IncomeModeRead /\ ~BoostModeRead /\ ~PollAbandoned
      /\ ~Reconcile /\ ~GuardReadFails /\ ~GuardConfirmFails
  BY DEF ModeReadFails, IncomeModeRead, BoostModeRead, PollAbandoned, Reconcile,
         GuardReadFails, GuardConfirmFails
<1>4. PICK a \in todo : /\ Guarding /\ isNext(swapped, a)
                        /\ GuardRead(a) \/ GuardWrite(a) \/ GuardWriteFails(a) \/ GuardConfirm(a)
  BY <1>2, <1>3 DEF Work, Guarding
<1>5. ~GuardRead(a) /\ ~GuardConfirm(a)
  BY DEF GuardRead, GuardConfirm
<1>6. UNCHANGED disturbed /\ regs' = [regs EXCEPT ![a] = target[a]]
  BY <1>4, <1>5 DEF GuardWrite, GuardWriteFails
<1> QED
  BY <1>4, <1>6

\* No step of the manager gives a slot both a charge and a discharge window:
\* a slot is cleared before it is programmed the other way.
THEOREM ClearedBeforeProgrammed == Spec => NeverBothDirections
<1> DEFINE Both(r, i) == windowSet(r, i, "Charge") /\ windowSet(r, i, "Discharge")
<1>1. ASSUME SafetyInv, [Next]_vars, NEW i \in SlotIndex, ~disturbed', Both(regs', i)
      PROVE  Both(regs, i)
  <2>1. CASE regs' = regs
    BY <1>1, <2>1 DEF windowSet
  <2>2. CASE regs' # regs
    <3>1. PICK a \in todo : /\ Guarding /\ ~disturbed /\ isNext(swapped, a)
                            /\ regs' = [regs EXCEPT ![a] = target[a]]
      BY <1>1, <2>2, RegistersChange
    <3>2. a \in Addr /\ regs \in [Addr -> Nat]
      BY <1>1 DEF SafetyInv, TypeInv, TypeOK
    <3>3. SUFFICES ASSUME NEW d \in Directions, NEW f \in Fields, a = SlotReg(i, d, f),
                          target[a] # 0
                   PROVE  FALSE
      <4>1. \A d \in Directions, f \in Fields :
              regs'[SlotReg(i, d, f)] # 0 =>
                \/ regs[SlotReg(i, d, f)] # 0
                \/ a = SlotReg(i, d, f) /\ target[a] # 0
        BY <3>1, <3>2, SlotRegInverse
      <4> QED
        BY <1>1, <3>3, <4>1 DEF windowSet, Directions
    <3>4. ~windowSet(regs, i, otherDirection(d))
      BY <1>1, <3>1, <3>3, OppositeClear DEF SafetyInv, JobSafe
    <3>5. ~windowSet(regs', i, otherDirection(d))
      <4>1. ASSUME NEW g \in Fields PROVE SlotReg(i, otherDirection(d), g) # a
        BY <3>3, SlotRegInverse, otherDirectionType
      <4> QED
        BY <3>1, <3>2, <3>4, <4>1, SlotRegInverse, otherDirectionType DEF windowSet
    <3> QED
      BY <1>1, <3>5 DEF otherDirection, Directions
  <2> QED
    BY <2>1, <2>2
<1>2. SafetyInv /\ [Next]_vars =>
        [\A i \in SlotIndex :
           /\ ~disturbed'
           /\ windowSet(regs', i, "Charge")
           /\ windowSet(regs', i, "Discharge")
           => windowSet(regs, i, "Charge") /\ windowSet(regs, i, "Discharge")]_vars
  BY <1>1
<1> QED
  BY <1>2, SafetyInvInvariant, PTL DEF Spec, NeverBothDirections

\* A sequence that ends without an error leaves every register of its target at
\* its value.
THEOREM SuccessIsHeld == Spec => SuccessMeansHeld
<1>1. ASSUME SafetyInv, [Next]_vars, pc # "idle", pc' = "idle", ~failed', ~disturbed,
             NEW b \in DOMAIN target
      PROVE  regs'[b] = target[b]
  <2>1. Guarding
    BY <1>1 DEF SafetyInv, TargetPlace, NoTarget
  <2>2. PICK a \in todo : todo = {a} /\ regs[a] = target[a] /\ regs' = regs
    <3>1. ~Command /\ ~PollRead /\ ~PollReadFails /\ ~UNCHANGED vars
      BY <1>1 DEF Command, BoostOff, BoostOn, SetOptimalIncome, SetCurrent, Receive, PollRead,
                  PollReadFails, vars
    <3>2. ~Environment
      BY <1>1 DEF Environment, Tick, AppEdit, Restart, Finish
    <3>3. /\ ~ModeReadFails /\ ~IncomeModeRead /\ ~BoostModeRead /\ ~PollAbandoned
          /\ ~Reconcile
      BY <2>1 DEF ModeReadFails, IncomeModeRead, BoostModeRead, PollAbandoned, Reconcile,
                  Guarding
    <3>4. ~GuardReadFails /\ ~GuardConfirmFails
      BY <1>1 DEF GuardReadFails, GuardConfirmFails, GuardFails, Finish
    <3>5. PICK a \in todo :
            GuardRead(a) \/ GuardWrite(a) \/ GuardWriteFails(a) \/ GuardConfirm(a)
      BY <1>1, <3>1, <3>2, <3>3, <3>4 DEF Next, Work
    <3>6. ~GuardWrite(a) /\ ~GuardWriteFails(a)
      BY <1>1 DEF GuardWrite, GuardWriteFails, GuardFails, Finish
    <3>7. regs[a] = target[a] /\ GuardDone(a) /\ regs' = regs
      BY <1>1, <3>5, <3>6 DEF GuardRead, GuardConfirm, Finish
    <3>8. todo = {a}
      BY <1>1, <3>7 DEF GuardDone
    <3> QED
      BY <3>7, <3>8
  <2> QED
    BY <1>1, <2>1, <2>2 DEF SafetyInv, Held
<1>2. SafetyInv /\ [Next]_vars =>
        [/\ pc # "idle" /\ pc' = "idle"
         /\ ~failed' /\ ~disturbed
         => \A a \in DOMAIN target : regs'[a] = target[a]]_vars
  BY <1>1
<1> QED
  BY <1>2, SafetyInvInvariant, PTL DEF Spec, SuccessMeansHeld

-----------------------------------------------------------------------------
(* Whose registers they are.                                               *)

\* What the running job may write to register a.
Owns(a, v) ==
  \/ /\ a \in SlotRegs(0) \cup SlotRegs(1)
     /\ conf.assertToU
     /\ v = slotValue(ToUSlots(conf.tou), a)
  \/ /\ a \in SlotRegs(boostSlot)
     /\ op = "reconcile" => v = 0
  \/ /\ a = RegWorkMode
     /\ op = "income"
     /\ ~disturbed => WithTimed(v, FALSE) = WithTimed(regs[a], FALSE)
  \/ /\ a \in Globals \ {RegWorkMode}
     /\ op = "amps"
     /\ v \in 0 .. 625

\* A command that waits for the work mode has passed the kill-switch.
ModeEnabled == pc = "mode" => conf.enabled

\* The frames still to be sent are the job's to send.
TodoOwned == Guarding => conf.enabled /\ \A a \in todo : Owns(a, target[a])

OwnedInv == ModeEnabled /\ TodoOwned

LEMMA WithTimedKeepsRest ==
  ASSUME NEW m \in Nat, NEW on \in BOOLEAN
  PROVE  WithTimed(WithTimed(m, on), FALSE) = WithTimed(m, FALSE)
<1>1. (m + 2) \div 2 = m \div 2 + 1 /\ m \div 2 \in Nat
  OBVIOUS
<1>2. ~Timed(m) => Timed(m + 2)
  BY <1>1 DEF Timed
<1>3. Timed(m) => m - 2 \in Nat /\ ~Timed(m - 2)
  <2>1. Timed(m) => m >= 2
    BY DEF Timed
  <2>2. m >= 2 => m \div 2 = (m - 2) \div 2 + 1 /\ (m - 2) \div 2 \in Nat
    OBVIOUS
  <2> QED
    BY <2>1, <2>2 DEF Timed
<1>4. CASE Timed(m)
  BY <1>3, <1>4 DEF WithTimed
<1>5. CASE ~Timed(m)
  <2>1. WithTimed(m, FALSE) = m
    BY <1>5 DEF WithTimed
  <2>2. WithTimed(m, on) = m \/ WithTimed(m, on) = m + 2
    BY <1>5 DEF WithTimed
  <2>3. WithTimed(m + 2, FALSE) = m
    BY <1>2, <1>5 DEF WithTimed
  <2> QED
    BY <2>1, <2>2, <2>3
<1> QED
  BY <1>4, <1>5

\* setCurrent clamps: whatever is asked for, the register gets 0 to 62.5 A.
LEMMA EncodedInRange ==
  ASSUME NEW r \in Int
  PROVE  EncodeAmps(ClampHAChargeAmps(r)) \in 0 .. 625
<1> DEFINE x == ClampHAChargeAmps(r)
<1>1. x \in 0 .. 6250
  BY DEF ClampHAChargeAmps
<1> HIDE DEF x
<1>2. EncodeAmps(x) \in 0 .. 625
  BY <1>1 DEF EncodeAmps
<1> QED
  BY <1>2 DEF x

LEMMA FinishOwned ==
  ASSUME NEW err, Finish(err)
  PROVE  OwnedInv'
BY DEF Finish, OwnedInv, ModeEnabled, TodoOwned, Guarding

\* Guard goes on with registers that it was to write before.
LEMMA GuardOwned ==
  ASSUME TypeInv, OwnedInv, Guarding, pc' \in {"read", "write", "confirm"},
         UNCHANGED <<conf, op, target, disturbed>>, todo' \subseteq todo,
         NEW b \in todo, regs' = regs \/ regs' = [regs EXCEPT ![b] = target[b]]
  PROVE  OwnedInv'
<1>1. ASSUME NEW a \in todo PROVE Owns(a, target[a])'
  <2>1. Owns(a, target[a])
    BY DEF OwnedInv, TodoOwned
  <2>2. regs'[a] = regs[a] \/ regs'[a] = target[a]
    BY DEF TypeInv, TypeOK
  <2> QED
    BY <2>1, <2>2 DEF Owns
<1> QED
  BY <1>1 DEF OwnedInv, ModeEnabled, TodoOwned, Guarding

LEMMA CommandOwned ==
  ASSUME TypeInv, Command
  PROVE  OwnedInv'
<1>1. conf.enabled /\ UNCHANGED conf
  BY DEF Command, BoostOff, BoostOn, SetOptimalIncome, SetCurrent, Receive
<1>2. CASE pc' = "mode"
  BY <1>1, <1>2 DEF OwnedInv, ModeEnabled, TodoOwned, Guarding
<1>3. CASE BoostOff
  <2>1. op' = "boost" /\ pc' = "read" /\ todo' = SlotRegs(boostSlot)
    BY <1>3 DEF BoostOff, Receive
  <2> QED
    BY <1>1, <2>1 DEF OwnedInv, ModeEnabled, TodoOwned, Owns
<1>4. CASE SetCurrent
  <2>1. op' = "amps" /\ pc' = "read"
    BY <1>4 DEF SetCurrent, Receive
  <2>2. PICK x \in {RegTimedChargeCurrent, RegTimedDischargeCurrent}, r \in Requests :
          /\ target' = [y \in {x} |-> EncodeAmps(ClampHAChargeAmps(r))]
          /\ todo' = {x}
    BY <1>4 DEF SetCurrent
  <2>3. target'[x] \in 0 .. 625
    BY <2>2, EncodedInRange, InputAssumption
  <2>4. x \in Globals \ {RegWorkMode}
    BY DEF Globals, RegWorkMode, RegTimedChargeCurrent, RegTimedDischargeCurrent
  <2> QED
    BY <1>1, <2>1, <2>2, <2>3, <2>4 DEF OwnedInv, ModeEnabled, TodoOwned, Owns
<1> QED
  BY <1>2, <1>3, <1>4 DEF Command, BoostOn, SetOptimalIncome, Receive

LEMMA WorkOwned ==
  ASSUME TypeInv, OwnedInv, Work
  PROVE  OwnedInv'
<1>1. CASE \E err : Finish(err)
  BY <1>1, FinishOwned
<1>2. CASE IncomeModeRead
  <2>1. /\ pc' = "read" /\ op' = "income" /\ todo' = {RegWorkMode}
        /\ target' = [a \in {RegWorkMode} |-> WithTimed(regs[RegWorkMode], option.minutes = 1)]
        /\ UNCHANGED <<conf, regs>> /\ conf.enabled
    BY <1>2 DEF IncomeModeRead, Sequence, OwnedInv, ModeEnabled
  <2>2. regs[RegWorkMode] \in Nat
    BY DEF TypeInv, TypeOK, Addr, Globals
  <2>3. WithTimed(target'[RegWorkMode], FALSE) = WithTimed(regs[RegWorkMode], FALSE)
    BY <2>1, <2>2, WithTimedKeepsRest
  <2> QED
    BY <2>1, <2>3 DEF OwnedInv, ModeEnabled, TodoOwned, Owns
<1>3. CASE BoostModeRead /\ ~Finish(FALSE)
  <2>1. /\ pc' = "read" /\ op' = "boost" /\ todo' = SlotRegs(boostSlot)
        /\ UNCHANGED conf /\ conf.enabled
    BY <1>3, BoostRegs, Zenon DEF BoostModeRead, Sequence, OwnedInv, ModeEnabled
  <2> QED
    BY <2>1 DEF OwnedInv, ModeEnabled, TodoOwned, Owns
<1>4. CASE Reconcile /\ ~Finish(FALSE)
  <2> DEFINE desired == Desired(conf.tou, conf.assertToU, slots, now)
             diff == scheduleDiff(desired, slots)
  <2>1. /\ pc' = "read" /\ todo' = diff /\ target' = registersOf(desired, AllSlotRegs)
        /\ UNCHANGED conf /\ conf.enabled
    BY <1>4 DEF Reconcile, Sequence
  <2>2. conf.tou \in TimedWindow /\ conf.assertToU \in BOOLEAN /\ slots \in TimedSlots
    BY InputAssumption DEF TypeInv, TypeOK, Config
  <2>3. ASSUME NEW a \in diff PROVE Owns(a, target[a])'
    <3>1. target'[a] = slotValue(desired, a)
      BY <2>1 DEF registersOf, scheduleDiff
    <3>2. \/ /\ a \in SlotRegs(0) \cup SlotRegs(1)
             /\ conf.assertToU
             /\ slotValue(desired, a) = slotValue(ToUSlots(conf.tou), a)
          \/ a \in SlotRegs(boostSlot) /\ slotValue(desired, a) = 0
      BY <2>2, DiffOwned
    <3> HIDE DEF desired, diff
    <3> QED
      BY <2>1, <3>1, <3>2 DEF Owns
  <2> QED
    BY <2>1, <2>3 DEF OwnedInv, ModeEnabled, TodoOwned
<1>5. CASE GuardReadFails /\ ~Finish(TRUE)
  <2>1. Guarding /\ pc' = "read" /\ UNCHANGED <<conf, op, target, todo, disturbed, regs>>
    BY <1>5, Zenon DEF GuardReadFails, GuardFails, Guarding
  <2>2. PICK b : b \in todo
    BY <2>1 DEF TypeInv, TypeOK, Guarding
  <2> QED
    BY <2>1, <2>2, GuardOwned
<1>6. ASSUME Guarding, NEW a \in todo, ~\E err : Finish(err),
             GuardRead(a) \/ GuardWrite(a) \/ GuardWriteFails(a) \/ GuardConfirm(a)
      PROVE  OwnedInv'
  <2>1. /\ pc' \in {"read", "write", "confirm"}
        /\ UNCHANGED <<conf, op, target, disturbed>> /\ todo' \subseteq todo
        /\ regs' = regs \/ regs' = [regs EXCEPT ![a] = target[a]]
    BY <1>6 DEF GuardRead, GuardWrite, GuardWriteFails, GuardConfirm, GuardDone, GuardFails
  <2> QED
    BY <1>6, <2>1, GuardOwned
<1> QED
  BY <1>1, <1>2, <1>3, <1>4, <1>5, <1>6
  DEF Work, ModeReadFails, PollAbandoned, GuardConfirmFails, Guarding

LEMMA OwnedInvInvariant == Spec => []OwnedInv
<1>1. Init => OwnedInv
  BY DEF Init, OwnedInv, ModeEnabled, TodoOwned, Guarding
<1>2. TypeInv /\ OwnedInv /\ [Next]_vars => OwnedInv'
  <2> SUFFICES ASSUME TypeInv, OwnedInv, [Next]_vars PROVE OwnedInv'
    OBVIOUS
  <2>1. CASE Command
    BY <2>1, CommandOwned
  <2>2. CASE PollRead \/ PollReadFails
    BY <2>2 DEF PollRead, PollReadFails, OwnedInv, ModeEnabled, TodoOwned, Guarding
  <2>3. CASE Work
    BY <2>3, WorkOwned
  <2>4. CASE Tick
    BY <2>4 DEF Tick, OwnedInv, ModeEnabled, TodoOwned, Guarding
  <2>5. CASE AppEdit
    <3>1. disturbed' = TRUE /\ UNCHANGED <<conf, pc, op, target, todo>>
      BY <2>5 DEF AppEdit
    <3>2. ASSUME NEW a \in todo, Owns(a, target[a]) PROVE Owns(a, target[a])'
      BY <3>1, <3>2 DEF Owns
    <3> QED
      BY <3>1, <3>2 DEF OwnedInv, ModeEnabled, TodoOwned, Guarding
  <2>6. CASE Restart
    BY <2>6, FinishOwned DEF Restart
  <2>7. CASE UNCHANGED vars
    <3>1. UNCHANGED <<regs, conf, pc, op, target, todo, disturbed>>
      BY <2>7 DEF vars
    <3>2. ASSUME NEW a \in todo, Owns(a, target[a]) PROVE Owns(a, target[a])'
      BY <3>1, <3>2, Zenon DEF Owns
    <3> QED
      BY <3>1, <3>2 DEF OwnedInv, ModeEnabled, TodoOwned, Guarding
  <2> QED
    BY <2>1, <2>2, <2>3, <2>4, <2>5, <2>6, <2>7 DEF Next, Environment
<1> QED
  BY <1>1, <1>2, TypeInvInvariant, PTL DEF Spec

\* The manager writes only what is its own: nothing with the kill-switch off,
\* the tariff to the tariff slots, zeroes to the boost slot when it reconciles,
\* one bit of the work mode, and currents within the range of the inverter.
THEOREM OwnWritesOnly == Spec => WritesAreOwned
<1>1. ASSUME TypeInv, OwnedInv, [Next]_vars, budget'.edits = budget.edits,
             NEW a \in Addr, regs'[a] # regs[a]
      PROVE  conf.enabled /\ Owns(a, regs'[a])
  <2>6. regs' # regs
    BY <1>1
  <2>1. ~AppEdit
    <3>1. budget \in [commands : Nat, mishaps : Nat, edits : Nat]
      BY <1>1 DEF TypeInv, TypeOK
    <3>2. AppEdit => budget'.edits = budget.edits - 1
      BY <3>1 DEF AppEdit
    <3>3. budget.edits \in Nat
      BY <3>1
    <3> QED
      BY <1>1, <3>2, <3>3
  <2>2. ~Command /\ ~PollRead /\ ~PollReadFails /\ ~Environment /\ ~UNCHANGED vars
    BY <1>1, <2>1
    DEF Command, BoostOff, BoostOn, SetOptimalIncome, SetCurrent, Receive, PollRead,
        PollReadFails, Environment, Tick, Restart, vars
  <2>3. PICK b \in todo : Guarding /\ (GuardWrite(b) \/ GuardWriteFails(b))
    <3>1. /\ ~ModeReadFails /\ ~IncomeModeRead /\ ~BoostModeRead /\ ~PollAbandoned
          /\ ~Reconcile /\ ~GuardReadFails /\ ~GuardConfirmFails
      BY <2>6 DEF ModeReadFails, IncomeModeRead, BoostModeRead, PollAbandoned, Reconcile,
                  GuardReadFails, GuardConfirmFails
    <3>2. \A b \in todo : ~GuardRead(b) /\ ~GuardConfirm(b)
      BY <1>1 DEF GuardRead, GuardConfirm
    <3> QED
      BY <1>1, <2>2, <3>1, <3>2, Zenon DEF Next, Work, Guarding
  <2>4. regs' = [regs EXCEPT ![b] = target[b]]
    BY <1>1, <2>3 DEF GuardWrite, GuardWriteFails
  <2>5. a = b /\ regs'[a] = target[a]
    BY <1>1, <2>4 DEF TypeInv, TypeOK
  <2> QED
    BY <1>1, <2>3, <2>5 DEF OwnedInv, TodoOwned
<1>2. TypeInv /\ OwnedInv /\ [Next]_vars =>
        [budget'.edits = budget.edits =>
           \A a \in Addr : regs'[a] # regs[a] =>
             /\ conf.enabled
             /\ \/ /\ a \in SlotRegs(0) \cup SlotRegs(1)
                   /\ conf.assertToU
                   /\ regs'[a] = slotValue(ToUSlots(conf.tou), a)
                \/ /\ a \in SlotRegs(boostSlot)
                   /\ op = "reconcile" => regs'[a] = 0
                \/ /\ a = RegWorkMode
                   /\ op = "income"
                   /\ ~disturbed => WithTimed(regs'[a], FALSE) = WithTimed(regs[a], FALSE)
                \/ /\ a \in Globals \ {RegWorkMode}
                   /\ op = "amps"
                   /\ regs'[a] \in 0 .. 625]_vars
  BY <1>1 DEF Owns
<1> QED
  BY <1>2, TypeInvInvariant, OwnedInvInvariant, PTL DEF Spec, WritesAreOwned
=============================================================================
