--------------------------- MODULE ScheduleLemmas ---------------------------
(***************************************************************************)
(* What the operators of Schedule return and keep, for every length of the *)
(* hour and of the day and every grid of the boosts: the lemmas that       *)
(* ControlsProofs and ScheduleProofs rest on.                              *)
(***************************************************************************)
EXTENDS Schedule, TLAPS

-----------------------------------------------------------------------------
(* The register image.                                                     *)

\* timedSlotBase and the offsets: an address of the slot block names one slot,
\* one direction and one field.
LEMMA SlotRegInverse ==
  ASSUME NEW i \in SlotIndex, NEW d \in Directions, NEW f \in Fields
  PROVE  /\ SlotReg(i, d, f) \in AllSlotRegs
         /\ slotOf(SlotReg(i, d, f)) = i
         /\ directionOf(SlotReg(i, d, f)) = d
         /\ fieldIndexOf(SlotReg(i, d, f)) = f
<1>1. SlotReg(i, d, f) \in AllSlotRegs
  BY DEF AllSlotRegs, SlotRegs
<1>2. i \in {0, 1, 2} /\ f \in {0, 1, 2, 3} /\ d \in {"Charge", "Discharge"}
  BY DEF SlotIndex, Fields, Directions
<1>3. SlotReg(i, d, f) = 43141 + i * 10 + (IF d = "Charge" THEN 2 ELSE 6) + f
  BY DEF SlotReg, timedSlotBase, timedWindowOffset, RegTimedChargeCurrent, RegTimedSlotStride
<1>4. slotOf(SlotReg(i, d, f)) = i
  BY <1>2, <1>3 DEF slotOf, RegTimedChargeCurrent, RegTimedSlotStride
<1>5. directionOf(SlotReg(i, d, f)) = d
  BY <1>2, <1>3
  DEF directionOf, timedWindowOffset, RegTimedChargeCurrent, RegTimedSlotStride
<1>6. fieldIndexOf(SlotReg(i, d, f)) = f
  <2>1. SlotReg(i, d, 0) = 43141 + i * 10 + (IF d = "Charge" THEN 2 ELSE 6) + 0
    BY DEF SlotReg, timedSlotBase, timedWindowOffset, RegTimedChargeCurrent, RegTimedSlotStride
  <2> QED
    BY <1>2, <1>3, <1>4, <1>5, <2>1 DEF fieldIndexOf
<1> QED
  BY <1>1, <1>4, <1>5, <1>6

\* Every address of the slot block is the register of some slot.
LEMMA SlotRegParts ==
  ASSUME NEW a \in AllSlotRegs
  PROVE  /\ slotOf(a) \in SlotIndex
         /\ directionOf(a) \in Directions
         /\ fieldIndexOf(a) \in Fields
         /\ a = SlotReg(slotOf(a), directionOf(a), fieldIndexOf(a))
<1>1. PICK i \in SlotIndex, d \in Directions, f \in Fields : a = SlotReg(i, d, f)
  BY DEF AllSlotRegs, SlotRegs
<1> QED
  BY <1>1, SlotRegInverse

\* The values a slot register may hold: an hour or a minute of a clock.
fieldRange(a) ==
  IF fieldIndexOf(a) \in {0, 2} THEN 0 .. HoursPerDay - 1 ELSE 0 .. MinutesPerHour - 1

LEMMA fieldOfRange ==
  ASSUME NEW w \in TimedWindow, NEW f \in Fields
  PROVE  fieldOf(w, f) \in IF f \in {0, 2} THEN 0 .. HoursPerDay - 1
                                           ELSE 0 .. MinutesPerHour - 1
<1>1. f \in {0, 1, 2, 3}
  BY DEF Fields
<1>2. /\ w.Start.Hour \in 0 .. HoursPerDay - 1 /\ w.End.Hour \in 0 .. HoursPerDay - 1
      /\ w.Start.Minute \in 0 .. MinutesPerHour - 1 /\ w.End.Minute \in 0 .. MinutesPerHour - 1
  BY DEF TimedWindow, Clock
<1>3. CASE f = 0
  BY <1>2, <1>3 DEF fieldOf
<1>4. CASE f = 1
  BY <1>2, <1>4 DEF fieldOf
<1>5. CASE f = 2
  BY <1>2, <1>5 DEF fieldOf
<1>6. CASE f = 3
  BY <1>2, <1>6 DEF fieldOf
<1> QED
  BY <1>1, <1>3, <1>4, <1>5, <1>6

LEMMA slotValueRange ==
  ASSUME NEW s \in TimedSlots, NEW a \in AllSlotRegs
  PROVE  slotValue(s, a) \in fieldRange(a) /\ slotValue(s, a) \in Nat
<1>1. s[slotOf(a)][directionOf(a)] \in TimedWindow
  BY SlotRegParts DEF TimedSlots, TimedSlot
<1>2. slotValue(s, a) \in fieldRange(a)
  BY <1>1, SlotRegParts, fieldOfRange DEF slotValue, fieldRange
<1>3. fieldRange(a) \subseteq Nat
  BY ClockAssumption DEF fieldRange
<1> QED
  BY <1>2, <1>3

LEMMA SlotRegValue ==
  ASSUME NEW i \in SlotIndex, NEW d \in Directions, NEW f \in Fields
  PROVE  SlotReg(i, d, f) = 43141 + i * 10 + (IF d = "Charge" THEN 2 ELSE 6) + f
BY DEF SlotReg, timedSlotBase, timedWindowOffset, RegTimedChargeCurrent, RegTimedSlotStride

LEMMA slotValueAt ==
  ASSUME NEW s, NEW i \in SlotIndex, NEW d \in Directions, NEW f \in Fields
  PROVE  slotValue(s, SlotReg(i, d, f)) = fieldOf(s[i][d], f)
BY SlotRegInverse DEF slotValue

LEMMA NoWindowField ==
  ASSUME NEW f \in Fields
  PROVE  fieldOf(NoWindow, f) = 0
<1>1. f \in {0, 1, 2, 3}
  BY DEF Fields
<1>2. CASE f = 0
  BY <1>2 DEF fieldOf, NoWindow, Midnight
<1>3. CASE f = 1
  BY <1>3 DEF fieldOf, NoWindow, Midnight
<1>4. CASE f = 2
  BY <1>4 DEF fieldOf, NoWindow, Midnight
<1>5. CASE f = 3
  BY <1>5 DEF fieldOf, NoWindow, Midnight
<1> QED
  BY <1>1, <1>2, <1>3, <1>4, <1>5

LEMMA BoostRegs == SlotRegs(boostSlot) \subseteq AllSlotRegs /\ SlotRegs(boostSlot) # {}
BY DEF AllSlotRegs, SlotRegs, boostSlot, SlotIndex, Directions, Fields

\* The registers of the boost slot are those of slot 2 and of no other.
LEMMA BoostSlotRegs ==
  ASSUME NEW i \in SlotIndex, NEW d \in Directions, NEW f \in Fields
  PROVE  SlotReg(i, d, f) \in SlotRegs(boostSlot) <=> i = boostSlot
<1>1. boostSlot \in SlotIndex
  BY DEF boostSlot, SlotIndex
<1>2. ASSUME SlotReg(i, d, f) \in SlotRegs(boostSlot) PROVE i = boostSlot
  <2>1. PICK e \in Directions, g \in Fields : SlotReg(i, d, f) = SlotReg(boostSlot, e, g)
    BY <1>2 DEF SlotRegs
  <2> QED
    BY <1>1, <2>1, SlotRegInverse
<1> QED
  BY <1>2 DEF SlotRegs

\* decodeTimedWindow reads an empty window exactly when its registers are zero.
LEMMA DecodedIsZero ==
  ASSUME NEW r, NEW i \in SlotIndex, NEW d \in Directions
  PROVE  IsZero(decodeTimedWindow(r, i, d)) <=> \A f \in Fields : r[SlotReg(i, d, f)] = 0
<1>1. Fields = {0, 1, 2, 3}
  BY DEF Fields
<1> QED
  BY <1>1 DEF IsZero, decodeTimedWindow, NoWindow, Midnight

\* The registers of decoded slots are the registers they were decoded from.
LEMMA DecodeImage ==
  ASSUME NEW r, NEW a \in AllSlotRegs
  PROVE  slotValue(DecodeTimedSlots(r), a) = r[a]
<1> DEFINE i == slotOf(a)
           d == directionOf(a)
           f == fieldIndexOf(a)
<1>1. i \in SlotIndex /\ d \in Directions /\ f \in {0, 1, 2, 3} /\ a = SlotReg(i, d, f)
  BY SlotRegParts DEF Fields
<1>2. slotValue(DecodeTimedSlots(r), a) = fieldOf(decodeTimedWindow(r, i, d), f)
  BY <1>1 DEF slotValue, DecodeTimedSlots, decodeTimedSlot
<1> HIDE DEF i, d, f
<1>3. CASE f = 0
  BY <1>1, <1>2, <1>3 DEF fieldOf, decodeTimedWindow
<1>4. CASE f = 1
  BY <1>1, <1>2, <1>4 DEF fieldOf, decodeTimedWindow
<1>5. CASE f = 2
  BY <1>1, <1>2, <1>5 DEF fieldOf, decodeTimedWindow
<1>6. CASE f = 3
  BY <1>1, <1>2, <1>6 DEF fieldOf, decodeTimedWindow
<1> QED
  BY <1>1, <1>3, <1>4, <1>5, <1>6

\* DecodeTimedSlots accepts registers that are in range, and only those.
LEMMA InRangeDecodes ==
  ASSUME NEW r, \A a \in AllSlotRegs : r[a] \in fieldRange(a)
  PROVE  ClocksInRange(r)
<1>1. ASSUME NEW i \in SlotIndex, NEW d \in Directions
      PROVE  decodeTimedWindow(r, i, d) \in TimedWindow
  <2>1. /\ SlotReg(i, d, 0) \in AllSlotRegs /\ fieldIndexOf(SlotReg(i, d, 0)) = 0
        /\ SlotReg(i, d, 1) \in AllSlotRegs /\ fieldIndexOf(SlotReg(i, d, 1)) = 1
        /\ SlotReg(i, d, 2) \in AllSlotRegs /\ fieldIndexOf(SlotReg(i, d, 2)) = 2
        /\ SlotReg(i, d, 3) \in AllSlotRegs /\ fieldIndexOf(SlotReg(i, d, 3)) = 3
    BY SlotRegInverse DEF Fields
  <2>2. /\ fieldRange(SlotReg(i, d, 0)) = 0 .. HoursPerDay - 1
        /\ fieldRange(SlotReg(i, d, 2)) = 0 .. HoursPerDay - 1
        /\ fieldRange(SlotReg(i, d, 1)) = 0 .. MinutesPerHour - 1
        /\ fieldRange(SlotReg(i, d, 3)) = 0 .. MinutesPerHour - 1
    BY <2>1 DEF fieldRange
  <2>3. /\ r[SlotReg(i, d, 0)] \in 0 .. HoursPerDay - 1
        /\ r[SlotReg(i, d, 2)] \in 0 .. HoursPerDay - 1
        /\ r[SlotReg(i, d, 1)] \in 0 .. MinutesPerHour - 1
        /\ r[SlotReg(i, d, 3)] \in 0 .. MinutesPerHour - 1
    BY <2>1, <2>2
  <2> QED
    BY <2>3 DEF decodeTimedWindow, TimedWindow, Clock
<1> QED
  BY <1>1 DEF ClocksInRange, DecodeTimedSlots, decodeTimedSlot, TimedSlots, TimedSlot

otherDirection(d) == IF d = "Charge" THEN "Discharge" ELSE "Charge"

LEMMA otherDirectionType ==
  ASSUME NEW d \in Directions
  PROVE  otherDirection(d) \in Directions /\ otherDirection(d) # d
BY DEF otherDirection, Directions

-----------------------------------------------------------------------------
(* Windows and slots.                                                      *)

LEMMA EmptyTypes ==
  /\ Midnight \in Clock
  /\ NoWindow \in TimedWindow
  /\ NoSlot \in TimedSlot
BY ClockAssumption
DEF Midnight, Clock, NoWindow, TimedWindow, NoSlot, TimedSlot

LEMMA ChargeSlotType ==
  ASSUME NEW w \in TimedWindow
  PROVE  ChargeSlot(w) \in TimedSlot
BY EmptyTypes DEF ChargeSlot, TimedSlot, Directions

\* ToUSlots splits a tariff into two slots of valid clocks.
LEMMA ToUSlotsType ==
  ASSUME NEW tou \in TimedWindow
  PROVE  ToUSlots(tou) \in [0 .. 1 -> TimedSlot]
<1> DEFINE split == isMidnight(tou.End) \/ minuteOfDay(tou.Start) >= minuteOfDay(tou.End)
           first == IF split THEN [tou EXCEPT !.End = Midnight] ELSE tou
           second == IF split /\ ~isMidnight(tou.End)
                     THEN [tou EXCEPT !.Start = Midnight] ELSE NoWindow
<1>1. first \in TimedWindow /\ second \in TimedWindow
  BY EmptyTypes DEF TimedWindow
<1>2. ToUSlots(tou) = [i \in 0 .. 1 |-> ChargeSlot(IF i = 0 THEN first ELSE second)]
  BY DEF ToUSlots
<1> QED
  BY <1>1, <1>2, ChargeSlotType

LEMMA runningType ==
  ASSUME NEW slot \in TimedSlot, NEW m
  PROVE  running(slot, m) \in TimedSlot
BY EmptyTypes DEF running, TimedSlot

\* The schedule the manager wants is made of valid clocks.
LEMMA DesiredType ==
  ASSUME NEW tou \in TimedWindow, NEW assertToU \in BOOLEAN, NEW s \in TimedSlots, NEW m
  PROVE  Desired(tou, assertToU, s, m) \in TimedSlots
<1>1. SUFFICES ASSUME NEW i \in SlotIndex
               PROVE  Desired(tou, assertToU, s, m)[i] \in TimedSlot
  BY DEF Desired, TimedSlots
<1>2. s[i] \in TimedSlot
  BY DEF TimedSlots
<1>3. CASE i = boostSlot
  BY <1>2, <1>3, runningType DEF Desired
<1>4. CASE i # boostSlot /\ assertToU /\ ~IsZero(tou)
  <2>1. i \in 0 .. 1
    BY <1>4 DEF SlotIndex, boostSlot
  <2> QED
    BY <2>1, <1>4, ToUSlotsType DEF Desired
<1>5. CASE i # boostSlot /\ ~(assertToU /\ ~IsZero(tou))
  BY <1>2, <1>5 DEF Desired
<1> QED
  BY <1>3, <1>4, <1>5

\* A minute of the day is a valid clock.
LEMMA clockAtType ==
  ASSUME NEW m \in Nat, m < minutesPerDay
  PROVE  clockAt(m) \in Clock
<1> DEFINE q == m \div MinutesPerHour
           r == m % MinutesPerHour
<1>1. q \in Nat /\ r \in 0 .. MinutesPerHour - 1 /\ m = MinutesPerHour * q + r
  BY ClockAssumption
<1>2. q < HoursPerDay
  <2>1. SUFFICES ASSUME q >= HoursPerDay PROVE FALSE
    BY <1>1, ClockAssumption
  <2>2. MinutesPerHour * q >= MinutesPerHour * HoursPerDay
    BY <1>1, <2>1, ClockAssumption
  <2> QED
    BY <1>1, <2>2, ClockAssumption DEF minutesPerDay
<1> QED
  BY <1>1, <1>2, ClockAssumption DEF clockAt, Clock

\* A slot with one window, of valid clocks, in direction mode.
OneWindow(slot, mode) == \E w \in TimedWindow : slot = [NoSlot EXCEPT ![mode] = w]

\* A planned boost is one window of valid clocks, in the direction asked for: it
\* ends before midnight.
LEMMA PlanBoostShape ==
  ASSUME NEW mode \in Directions, NEW minutes \in Nat, minutes >= boostStep,
         NEW m \in Minutes, NEW tou, NEW assertToU \in BOOLEAN
  PROVE  PlanBoost(mode, minutes, m, tou, assertToU).err = ""
           => OneWindow(PlanBoost(mode, minutes, m, tou, assertToU).slot, mode)
<1> DEFINE end == boostEnd(m, minutes)
           window == [Start |-> clockAt(m), End |-> clockAt(end)]
<1>1. m \in Nat /\ m < minutesPerDay /\ minutesPerDay \in Nat
  BY ClockAssumption DEF Minutes, minutesPerDay
<1>2. end \in Nat
  <2> DEFINE q == m \div boostStep
  <2>1. q \in Nat
    BY <1>1, BoostAssumption
  <2>2. (q + 1) * boostStep \in Nat
    BY <2>1, BoostAssumption
  <2> QED
    BY <2>2, BoostAssumption DEF boostEnd
<1>3. CASE end >= minutesPerDay
  BY <1>3 DEF PlanBoost, Refused
<1>4. CASE end < minutesPerDay
  <2>1. window \in TimedWindow
    BY <1>1, <1>2, <1>4, clockAtType DEF TimedWindow
  <2>2. ~(end >= minutesPerDay)
    BY <1>1, <1>2, <1>4
  <2>3. CASE assertToU /\ overlaps(tou, m, end)
    BY <2>2, <2>3 DEF PlanBoost, Refused
  <2>4. CASE ~(assertToU /\ overlaps(tou, m, end))
    BY <2>1, <2>2, <2>4 DEF PlanBoost, OneWindow
  <2> QED
    BY <2>3, <2>4, Zenon
<1>5. end >= minutesPerDay \/ end < minutesPerDay
  BY <1>1, <1>2
<1> QED
  BY <1>3, <1>4, <1>5, Zenon

\* The least boost is a whole step of the grid.
LEMMA DurationsPositive ==
  ASSUME NEW m \in boostDurations
  PROVE  m \in Nat /\ m >= boostStep
<1>1. m \in Nat /\ m > 0 /\ m % boostStep = 0 /\ boostStep \in Nat \ {0}
  BY BoostAssumption
<1>2. ASSUME m < boostStep PROVE FALSE
  <2>1. m % boostStep = m
    BY <1>1, <1>2
  <2> QED
    BY <1>1, <2>1
<1> QED
  BY <1>1, <1>2

\* A reconcile that is to set a register sets a tariff slot, whose discharge
\* window is empty: the boost slot is only kept or cleared.
LEMMA DesiredOneDirection ==
  ASSUME NEW tou \in TimedWindow, NEW assertToU \in BOOLEAN, NEW s \in TimedSlots, NEW m,
         NEW i \in SlotIndex, NEW d \in Directions, NEW f \in Fields, NEW g \in Fields,
         NEW desired, desired = Desired(tou, assertToU, s, m),
         slotValue(desired, SlotReg(i, d, f)) # slotValue(s, SlotReg(i, d, f)),
         slotValue(desired, SlotReg(i, d, f)) # 0
  PROVE  slotValue(desired, SlotReg(i, otherDirection(d), g)) = 0
<1>1. /\ fieldOf(desired[i][d], f) # fieldOf(s[i][d], f)
      /\ fieldOf(desired[i][d], f) # 0
  BY slotValueAt
<1>2. SUFFICES fieldOf(desired[i][otherDirection(d)], g) = 0
  BY slotValueAt, otherDirectionType
<1>3. CASE i = boostSlot
  <2>1. desired[i] = running(s[i], m)
    BY <1>3 DEF Desired
  <2>2. desired[i][d] = s[i][d] \/ desired[i][d] = NoWindow
    BY <2>1 DEF running
  <2> QED
    BY <1>1, <2>2, NoWindowField
<1>4. CASE i # boostSlot /\ assertToU /\ ~IsZero(tou)
  <2>1. i \in 0 .. 1
    BY <1>4 DEF SlotIndex, boostSlot
  <2>2. desired[i] = ToUSlots(tou)[i]
    BY <1>4 DEF Desired
  <2>3. PICK w : desired[i] = ChargeSlot(w)
    BY <2>1, <2>2 DEF ToUSlots
  <2>4. desired[i]["Discharge"] = NoWindow
    BY <2>3 DEF ChargeSlot, NoSlot, Directions
  <2> QED
    BY <1>1, <2>4, NoWindowField DEF otherDirection, Directions
<1>5. CASE i # boostSlot /\ ~(assertToU /\ ~IsZero(tou))
  <2>1. desired[i] = s[i]
    BY <1>5 DEF Desired
  <2> QED
    BY <1>1, <2>1
<1> QED
  BY <1>3, <1>4, <1>5

\* A reconcile moves the tariff slots to the tariff and clears the boost slot.
LEMMA DiffOwned ==
  ASSUME NEW tou \in TimedWindow, NEW assertToU \in BOOLEAN, NEW s \in TimedSlots, NEW m,
         NEW desired, desired = Desired(tou, assertToU, s, m),
         NEW a \in scheduleDiff(desired, s)
  PROVE  \/ /\ a \in SlotRegs(0) \cup SlotRegs(1)
            /\ assertToU
            /\ slotValue(desired, a) = slotValue(ToUSlots(tou), a)
         \/ a \in SlotRegs(boostSlot) /\ slotValue(desired, a) = 0
<1>1. a \in AllSlotRegs /\ slotValue(desired, a) # slotValue(s, a)
  BY DEF scheduleDiff
<1>2. PICK i \in SlotIndex, d \in Directions, f \in Fields : a = SlotReg(i, d, f)
  BY <1>1 DEF AllSlotRegs, SlotRegs
<1>3. fieldOf(desired[i][d], f) # fieldOf(s[i][d], f)
  BY <1>1, <1>2, slotValueAt
<1>4. CASE i = boostSlot
  <2>1. desired[i][d] = s[i][d] \/ desired[i][d] = NoWindow
    BY <1>4 DEF Desired, running
  <2> QED
    BY <1>2, <1>3, <1>4, <2>1, NoWindowField, slotValueAt, BoostSlotRegs
<1>5. CASE i # boostSlot
  <2>1. i = 0 \/ i = 1
    BY <1>5 DEF SlotIndex, boostSlot
  <2>2. assertToU /\ desired[i] = ToUSlots(tou)[i]
    BY <1>3, <1>5 DEF Desired
  <2>3. a \in SlotRegs(0) \cup SlotRegs(1)
    BY <1>2, <2>1 DEF SlotRegs
  <2>4. slotValue(desired, a) = fieldOf(desired[i][d], f)
    BY <1>2, slotValueAt
  <2>5. slotValue(ToUSlots(tou), a) = fieldOf(ToUSlots(tou)[i][d], f)
    BY <1>2, slotValueAt
  <2> QED
    BY <2>2, <2>3, <2>4, <2>5
<1> QED
  BY <1>4, <1>5
=============================================================================
