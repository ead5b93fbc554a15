------------------------------ MODULE Schedule ------------------------------
(***************************************************************************)
(* The pure schedule arithmetic of internal/schedule and of                *)
(* internal/inverter/schedule.go: clocks, timed windows and slots, their   *)
(* register image, the Time-of-Use split, the boost plan, and the schedule *)
(* the manager wants the inverter to hold.                                 *)
(*                                                                         *)
(* An instant is its minute of the day: minuteOf (plan.go) drops the date  *)
(* and the seconds before any decision is taken.  The length of an hour    *)
(* and of a day are parameters, so that a state machine can be explored    *)
(* over a short day; the code's values are 60, 24 and 15.                  *)
(***************************************************************************)
EXTENDS Integers, FiniteSets

CONSTANTS
  HoursPerDay,      \* 24 (inverter.maxHour + 1)
  MinutesPerHour,   \* 60 (inverter.maxMinute + 1)
  boostStep,        \* 15: the grid a boost ends on
  boostDurations    \* {15, 30, 45, 60}: the selectable boost lengths

ASSUME ClockAssumption ==
  /\ HoursPerDay \in Nat \ {0}
  /\ MinutesPerHour \in Nat \ {0}

ASSUME BoostAssumption ==
  /\ boostStep \in Nat \ {0}
  /\ boostDurations \subseteq Nat
  /\ \A m \in boostDurations : m > 0 /\ m % boostStep = 0

minutesPerDay == HoursPerDay * MinutesPerHour

Minutes == 0 .. minutesPerDay - 1

-----------------------------------------------------------------------------
(* Clocks, windows and slots.                                              *)

Clock == [Hour : 0 .. HoursPerDay - 1, Minute : 0 .. MinutesPerHour - 1]

Midnight == [Hour |-> 0, Minute |-> 0]

TimedWindow == [Start : Clock, End : Clock]

NoWindow == [Start |-> Midnight, End |-> Midnight]

Directions == {"Charge", "Discharge"}

TimedSlot == [Directions -> TimedWindow]

NoSlot == [d \in Directions |-> NoWindow]

SlotIndex == 0 .. 2

TimedSlots == [SlotIndex -> TimedSlot]

boostSlot == 2

IsZero(w) == w = NoWindow

isMidnight(c) == c = Midnight

minuteOfDay(c) == c.Hour * MinutesPerHour + c.Minute

\* As the End of a window, 00:00 stands for end-of-day.
endMinuteOfDay(c) == IF isMidnight(c) THEN minutesPerDay ELSE minuteOfDay(c)

clockAt(minute) == [Hour   |-> minute \div MinutesPerHour,
                    Minute |-> minute % MinutesPerHour]

-----------------------------------------------------------------------------
(* The register image of a slot.  Addresses are the inverter's own; a      *)
(* window is four registers: start hour, start minute, end hour, end       *)
(* minute, numbered 0 to 3.                                                *)

RegWorkMode == 43110
RegTimedChargeCurrent == 43141
RegTimedDischargeCurrent == 43142
RegTimedSlotStride == 10

Fields == 0 .. 3

timedSlotBase(i) == RegTimedChargeCurrent + i * RegTimedSlotStride

\* timedChargeOffsets and timedDischargeOffsets.
timedWindowOffset(d) == IF d = "Charge" THEN 2 ELSE 6

SlotReg(i, d, f) == timedSlotBase(i) + timedWindowOffset(d) + f

SlotRegs(i) == {SlotReg(i, d, f) : d \in Directions, f \in Fields}

AllSlotRegs == UNION {SlotRegs(i) : i \in SlotIndex}

fieldOf(w, f) == CASE f = 0 -> w.Start.Hour
                   [] f = 1 -> w.Start.Minute
                   [] f = 2 -> w.End.Hour
                   [] f = 3 -> w.End.Minute

\* The slot, the direction and the field an address of the slot block names.
slotOf(a) == (a - RegTimedChargeCurrent) \div RegTimedSlotStride
directionOf(a) ==
  IF (a - RegTimedChargeCurrent) % RegTimedSlotStride < timedWindowOffset("Discharge")
  THEN "Charge" ELSE "Discharge"
fieldIndexOf(a) == a - SlotReg(slotOf(a), directionOf(a), 0)

\* The value slots want in register a.
slotValue(slots, a) == fieldOf(slots[slotOf(a)][directionOf(a)], fieldIndexOf(a))

decodeTimedWindow(regs, i, d) ==
  [Start |-> [Hour |-> regs[SlotReg(i, d, 0)], Minute |-> regs[SlotReg(i, d, 1)]],
   End   |-> [Hour |-> regs[SlotReg(i, d, 2)], Minute |-> regs[SlotReg(i, d, 3)]]]

decodeTimedSlot(regs, i) == [d \in Directions |-> decodeTimedWindow(regs, i, d)]

DecodeTimedSlots(regs) == [i \in SlotIndex |-> decodeTimedSlot(regs, i)]

\* The field check of decodeClock: outside it the whole decode is an error.
ClocksInRange(regs) == DecodeTimedSlots(regs) \in TimedSlots

\* Mutant: the charge block always comes first.
neverDischargeFirst(slot) == FALSE

\* The order of TimedSlotWriteRegisters: ascending addresses, except that a slot
\* whose charge window is set and whose discharge window is not lists its
\* discharge block first.  Ranks also order the registers of different slots.
dischargeFirst(slot) == ~IsZero(slot["Charge"]) /\ IsZero(slot["Discharge"])

writeRank(swapped, a) ==
  IF ~swapped THEN a ELSE IF directionOf(a) = "Charge" THEN a + 4 ELSE a - 4

-----------------------------------------------------------------------------
(* The Time-of-Use tariff.                                                 *)

\* What ParseToUWindow accepts of a non-empty setting.
ValidToU(w) == w \in TimedWindow /\ w.Start # w.End

ChargeSlot(w) == [NoSlot EXCEPT !["Charge"] = w]

\* Mutant: the slots of a split tariff follow the day, the part after midnight
\* first, which leaves the first slot empty when the tariff ends at midnight.
ToUSlotsMorningFirst(tou) ==
  LET split == minuteOfDay(tou.Start) >= minuteOfDay(tou.End)
      morning == IF split THEN [tou EXCEPT !.Start = Midnight] ELSE tou
      evening == IF split THEN [tou EXCEPT !.End = Midnight] ELSE NoWindow
  IN [i \in 0 .. 1 |-> ChargeSlot(IF i = 0 THEN morning ELSE evening)]

\* A tariff that crosses midnight is split at it.
ToUSlots(tou) ==
  LET split == isMidnight(tou.End) \/ minuteOfDay(tou.Start) >= minuteOfDay(tou.End)
      first == IF split THEN [tou EXCEPT !.End = Midnight] ELSE tou
      second == IF split /\ ~isMidnight(tou.End)
                THEN [tou EXCEPT !.Start = Midnight] ELSE NoWindow
  IN [i \in 0 .. 1 |-> ChargeSlot(IF i = 0 THEN first ELSE second)]

\* The rejoined tariff, with whether the slots are a recognisable one.
ToU(slots) ==
  LET first == slots[0]["Charge"]
      second == slots[1]["Charge"]
  IN CASE IsZero(first) -> [window |-> NoWindow, ok |-> FALSE]
       [] ~IsZero(first) /\ IsZero(second) -> [window |-> first, ok |-> TRUE]
       [] /\ ~IsZero(first) /\ ~IsZero(second)
          /\ isMidnight(first.End) /\ isMidnight(second.Start)
            -> [window |-> [Start |-> first.Start, End |-> second.End], ok |-> TRUE]
       [] OTHER -> [window |-> NoWindow, ok |-> FALSE]

-----------------------------------------------------------------------------
(* The schedule the manager wants.                                         *)

\* Mutant: a window is judged by its end alone, 00:00 being end-of-day.
liveByEnd(w, now) == ~IsZero(w) /\ now < endMinuteOfDay(w.End)

\* A window that reads as a boost worth keeping at minute now.
live(w, now) ==
  /\ ~IsZero(w)
  /\ ~isMidnight(w.End)
  /\ minuteOfDay(w.Start) <= now
  /\ now < minuteOfDay(w.End)

\* Each direction is judged by itself.
running(slot, now) ==
  [d \in Directions |-> IF live(slot[d], now) THEN slot[d] ELSE NoWindow]

\* Mutant: the tariff is asserted whether the owner asks for it or not.
DesiredAlwaysTariff(tou, assertToU, slots, now) ==
  [i \in SlotIndex |->
     IF i = boostSlot THEN running(slots[i], now) ELSE ToUSlots(tou)[i]]

Desired(tou, assertToU, slots, now) ==
  [i \in SlotIndex |->
     CASE i = boostSlot -> running(slots[i], now)
       [] i # boostSlot /\ assertToU /\ ~IsZero(tou) -> ToUSlots(tou)[i]
       [] OTHER -> slots[i]]

\* Mutant: the first slot is left out.
scheduleDiffFromSecond(desired, slots) ==
  {a \in SlotRegs(1) \cup SlotRegs(2) : slotValue(desired, a) # slotValue(slots, a)}

\* The registers whose desired value differs from the one the slots hold.
scheduleDiff(desired, slots) ==
  {a \in AllSlotRegs : slotValue(desired, a) # slotValue(slots, a)}

-----------------------------------------------------------------------------
(* The boost select.  An option is a mode and a number of minutes; the     *)
(* text of an option is not modelled.                                      *)

OffOption == [mode |-> "Off", minutes |-> 0]

BoostOptions == {OffOption} \cup [mode : Directions, minutes : boostDurations]

\* Half-open minute ranges share a minute.
intersects(aStart, aEnd, bStart, bEnd) == aStart < bEnd /\ bStart < aEnd

\* Mutant: the morning half of a tariff across midnight is forgotten.
overlapsEveningOnly(w, start, end) ==
  LET windowStart == minuteOfDay(w.Start)
      windowEnd == endMinuteOfDay(w.End)
  IN /\ ~IsZero(w)
     /\ intersects(start, end, windowStart,
                   IF windowStart < windowEnd THEN windowEnd ELSE minutesPerDay)

overlaps(w, start, end) ==
  LET windowStart == minuteOfDay(w.Start)
      windowEnd == endMinuteOfDay(w.End)
  IN /\ ~IsZero(w)
     /\ \/ /\ windowStart < windowEnd
           /\ intersects(start, end, windowStart, windowEnd)
        \/ /\ windowStart >= windowEnd
           /\ \/ intersects(start, end, windowStart, minutesPerDay)
              \/ intersects(start, end, 0, windowEnd)

\* The end of a boost: the minutes/boostStep-th grid boundary after start.
boostEnd(start, minutes) == (start \div boostStep + 1) * boostStep + minutes - boostStep

Refused(reason) == [err |-> reason, slot |-> NoSlot]

\* Mutant: an end on midnight itself is let through.
PlanBoostToMidnight(mode, minutes, now, tou, assertToU) ==
  LET end == boostEnd(now, minutes)
      window == [Start |-> clockAt(now), End |-> clockAt(end)]
  IN IF end > minutesPerDay THEN Refused("ErrCrossesMidnight")
     ELSE IF assertToU /\ overlaps(tou, now, end) THEN Refused("ErrOverlapsToU")
     ELSE [err |-> "", slot |-> [NoSlot EXCEPT ![mode] = window]]

\* A planned slot, or the reason the boost is refused.
PlanBoost(mode, minutes, now, tou, assertToU) ==
  LET end == boostEnd(now, minutes)
      window == [Start |-> clockAt(now), End |-> clockAt(end)]
  IN IF end >= minutesPerDay THEN Refused("ErrCrossesMidnight")
     ELSE IF assertToU /\ overlaps(tou, now, end) THEN Refused("ErrOverlapsToU")
     ELSE [err |-> "", slot |-> [NoSlot EXCEPT ![mode] = window]]

BoostOf(slots) ==
  LET slot == slots[boostSlot]
  IN CASE ~IsZero(slot["Charge"]) -> [mode |-> "Charge", window |-> slot["Charge"]]
       [] IsZero(slot["Charge"]) /\ ~IsZero(slot["Discharge"])
            -> [mode |-> "Discharge", window |-> slot["Discharge"]]
       [] OTHER -> [mode |-> "Off", window |-> NoWindow]

\* Mutant: rounded down.
roundDownToStep(minutes) == (minutes \div boostStep) * boostStep

roundUpToStep(minutes) ==
  IF minutes <= 0 THEN minutes
  ELSE ((minutes + boostStep - 1) \div boostStep) * boostStep

\* The option the select shows for the slots; an unknown one is the code's nil.
UnknownOption == [mode |-> "unknown", minutes |-> 0]

BoostSelectState(slots) ==
  LET boost == BoostOf(slots)
      minutes == roundUpToStep(endMinuteOfDay(boost.window.End)
                                 - minuteOfDay(boost.window.Start))
  IN CASE boost.mode = "Off" -> OffOption
       [] boost.mode # "Off" /\ minutes \in boostDurations
            -> [mode |-> boost.mode, minutes |-> minutes]
       [] OTHER -> UnknownOption
=============================================================================
