--------------------------- MODULE ScheduleProofs ---------------------------
(***************************************************************************)
(* Proofs about the schedule arithmetic, for every length of the hour and  *)
(* of the day, every grid of the boosts, every tariff and every minute.    *)
(***************************************************************************)
EXTENDS MCSchedule, ScheduleLemmas, TLAPS

-----------------------------------------------------------------------------
(* Division.                                                               *)

\* There is one quotient and one remainder.
LEMMA DivModUnique ==
  ASSUME NEW D \in Nat \ {0}, NEW x \in Int, NEW q \in Int, NEW r \in 0 .. D - 1,
         x = D * q + r
  PROVE  x % D = r /\ x \div D = q
<1> DEFINE p == x \div D
           s == x % D
<1>1. p \in Int /\ s \in 0 .. D - 1 /\ x = D * p + s
  OBVIOUS
<1> HIDE DEF p, s
<1>2. D * (q - p) = s - r
  BY <1>1
<1>3. q - p >= 1 => D * (q - p) >= D
  BY <1>1
<1>4. q - p <= -1 => D * (q - p) <= -D
  BY <1>1
<1>5. q = p
  BY <1>1, <1>2, <1>3, <1>4
<1> QED
  BY <1>1, <1>5 DEF p, s

\* The difference of two minutes of the day, taken round the clock.
LEMMA ModDifference ==
  ASSUME NEW D \in Nat \ {0}, NEW a \in 0 .. D - 1, NEW b \in 0 .. D - 1
  PROVE  (a - b) % D = IF b <= a THEN a - b ELSE a - b + D
<1>1. CASE b <= a
  <2>1. a - b \in 0 .. D - 1 /\ a - b = D * 0 + (a - b)
    BY <1>1
  <2> QED
    BY <1>1, <2>1, DivModUnique
<1>2. CASE ~(b <= a)
  <2>1. a - b + D \in 0 .. D - 1 /\ a - b = D * (-1) + (a - b + D)
    BY <1>2
  <2> QED
    BY <1>2, <2>1, DivModUnique
<1> QED
  BY <1>1, <1>2

-----------------------------------------------------------------------------
(* Clocks and minutes.                                                     *)

LEMMA DayType == minutesPerDay \in Nat \ {0} /\ Minutes = 0 .. minutesPerDay - 1
BY ClockAssumption DEF minutesPerDay, Minutes

LEMMA minuteOfDayType ==
  ASSUME NEW c \in Clock
  PROVE  minuteOfDay(c) \in Minutes
<1>1. c.Hour \in 0 .. HoursPerDay - 1 /\ c.Minute \in 0 .. MinutesPerHour - 1
  BY DEF Clock
<1>2. c.Hour * MinutesPerHour <= (HoursPerDay - 1) * MinutesPerHour
  BY <1>1, ClockAssumption
<1>3. (HoursPerDay - 1) * MinutesPerHour = minutesPerDay - MinutesPerHour
  BY ClockAssumption DEF minutesPerDay
<1>4. c.Hour * MinutesPerHour \in Nat
  BY <1>1, ClockAssumption
<1> QED
  BY <1>1, <1>2, <1>3, <1>4, ClockAssumption, DayType DEF minuteOfDay

\* clockAt is the inverse of minuteOfDay.
LEMMA clockAtMinute ==
  ASSUME NEW c \in Clock
  PROVE  clockAt(minuteOfDay(c)) = c
<1>1. c.Hour \in 0 .. HoursPerDay - 1 /\ c.Minute \in 0 .. MinutesPerHour - 1
  BY DEF Clock
<1>2. minuteOfDay(c) = MinutesPerHour * c.Hour + c.Minute
  BY <1>1, ClockAssumption DEF minuteOfDay
<1>3. /\ minuteOfDay(c) % MinutesPerHour = c.Minute
      /\ minuteOfDay(c) \div MinutesPerHour = c.Hour
  <2>1. minuteOfDay(c) \in Int /\ c.Hour \in Int
    BY <1>1, <1>2, ClockAssumption
  <2> QED
    BY <1>1, <1>2, <2>1, ClockAssumption, DivModUnique
<1>4. c = [Hour |-> c.Hour, Minute |-> c.Minute]
  BY DEF Clock
<1> QED
  BY <1>3, <1>4 DEF clockAt

LEMMA minuteOfDayClock ==
  ASSUME NEW m \in Nat
  PROVE  minuteOfDay(clockAt(m)) = m
<1> DEFINE q == m \div MinutesPerHour
           r == m % MinutesPerHour
<1>1. q \in Nat /\ r \in 0 .. MinutesPerHour - 1 /\ m = MinutesPerHour * q + r
  BY ClockAssumption
<1>2. minuteOfDay(clockAt(m)) = q * MinutesPerHour + r
  BY DEF minuteOfDay, clockAt
<1> QED
  BY <1>1, <1>2, ClockAssumption

LEMMA minuteOfDayInjective ==
  ASSUME NEW c \in Clock, NEW e \in Clock, minuteOfDay(c) = minuteOfDay(e)
  PROVE  c = e
BY clockAtMinute

LEMMA MidnightMinute ==
  /\ Midnight \in Clock
  /\ minuteOfDay(Midnight) = 0
  /\ \A c \in Clock : isMidnight(c) <=> minuteOfDay(c) = 0
<1>1. Midnight \in Clock
  BY EmptyTypes
<1>2. minuteOfDay(Midnight) = 0
  BY ClockAssumption DEF Midnight, minuteOfDay
<1> QED
  BY <1>1, <1>2, minuteOfDayInjective DEF isMidnight

-----------------------------------------------------------------------------
(* The end of a boost.                                                     *)

\* boostEnd is the last point of the grid within the minutes asked for.
LEMMA boostEndGrid ==
  ASSUME NEW m \in Nat, NEW n \in boostDurations
  PROVE  /\ boostEnd(m, n) \in Nat
         /\ boostEnd(m, n) % boostStep = 0
         /\ m + n - boostStep < boostEnd(m, n)
         /\ boostEnd(m, n) <= m + n
         /\ m < boostEnd(m, n)
<1> DEFINE q == m \div boostStep
           r == m % boostStep
           k == n \div boostStep
<1>1. boostStep \in Nat \ {0} /\ n \in Nat /\ n > 0 /\ n % boostStep = 0
  BY BoostAssumption
<1>2. q \in Nat /\ r \in 0 .. boostStep - 1 /\ m = boostStep * q + r
  BY <1>1
<1>3. k \in Nat /\ n = boostStep * k
  BY <1>1
<1>4. k >= 1
  <2>1. k # 0
    BY <1>1, <1>3
  <2> QED
    BY <1>3, <2>1
<1>5. boostEnd(m, n) = (q + 1) * boostStep + n - boostStep
  BY DEF boostEnd
<1> HIDE DEF q, r, k
<1>6. boostEnd(m, n) = boostStep * q + n
  BY <1>1, <1>2, <1>5
<1>7. boostEnd(m, n) = boostStep * (q + k) + 0
  BY <1>1, <1>2, <1>3, <1>6
<1>8. boostStep * q \in Nat
  BY <1>1, <1>2
<1>9. boostEnd(m, n) \in Nat
  BY <1>1, <1>6, <1>8
<1>10. boostEnd(m, n) % boostStep = 0
  <2>1. q + k \in Int /\ 0 \in 0 .. boostStep - 1
    BY <1>1, <1>2, <1>3
  <2> QED
    BY <1>1, <1>7, <1>9, <2>1, DivModUnique
<1>11. n >= boostStep
  BY DurationsPositive
<1> QED
  BY <1>1, <1>2, <1>6, <1>8, <1>9, <1>10, <1>11

\* There is one such point.
LEMMA GridPointUnique ==
  ASSUME NEW a \in Int, NEW e \in a + 1 .. a + boostStep, NEW f \in a + 1 .. a + boostStep,
         e % boostStep = 0, f % boostStep = 0
  PROVE  e = f
<1> DEFINE p == e \div boostStep
           q == f \div boostStep
<1>1. boostStep \in Nat \ {0}
  BY BoostAssumption
<1>2. p \in Int /\ e = boostStep * p
  BY <1>1
<1>3. q \in Int /\ f = boostStep * q
  BY <1>1
<1> HIDE DEF p, q
<1>4. boostStep * (p - q) = e - f
  BY <1>1, <1>2, <1>3
<1>5. p - q >= 1 => boostStep * (p - q) >= boostStep
  BY <1>1, <1>2, <1>3
<1>6. p - q <= -1 => boostStep * (p - q) <= -boostStep
  BY <1>1, <1>2, <1>3
<1>7. e - f < boostStep /\ f - e < boostStep
  BY <1>1
<1>8. p = q
  BY <1>1, <1>2, <1>3, <1>4, <1>5, <1>6, <1>7
<1> QED
  BY <1>2, <1>3, <1>8

-----------------------------------------------------------------------------
(* The minutes of a window.                                                *)

\* A window as numbers: it starts at s and ends at e, 0 being midnight.
LEMMA TariffMinutesType ==
  ASSUME NEW w, ValidToU(w)
  PROVE  /\ w.Start \in Clock /\ w.End \in Clock
         /\ minuteOfDay(w.Start) \in Minutes
         /\ minuteOfDay(w.End) \in Minutes
         /\ minuteOfDay(w.Start) # minuteOfDay(w.End)
         /\ ~IsZero(w)
<1>1. w.Start \in Clock /\ w.End \in Clock /\ w.Start # w.End
  BY DEF ValidToU, TimedWindow
<1>2. ~IsZero(w)
  BY <1>1 DEF IsZero, NoWindow
<1> QED
  BY <1>1, <1>2, minuteOfDayType, minuteOfDayInjective

\* The minutes a tariff covers, without the division: those from its start to
\* its end, or across midnight those outside.
LEMMA CoversCases ==
  ASSUME NEW w, ValidToU(w), NEW m \in Minutes
  PROVE  LET s == minuteOfDay(w.Start)
             e == minuteOfDay(w.End)
         IN Covers(w, m) <=> IF s < e THEN s <= m /\ m < e ELSE s <= m \/ m < e
<1> DEFINE s == minuteOfDay(w.Start)
           e == minuteOfDay(w.End)
           D == minutesPerDay
<1>1. D \in Nat \ {0} /\ m \in 0 .. D - 1
  BY DayType
<1>2. s \in 0 .. D - 1 /\ e \in 0 .. D - 1 /\ s # e
  BY TariffMinutesType, DayType
<1>3. Covers(w, m) <=> (m - s) % D < (e - s) % D
  BY DEF Covers
<1> HIDE DEF s, e, D
<1>4. /\ (m - s) % D = IF s <= m THEN m - s ELSE m - s + D
      /\ (e - s) % D = IF s <= e THEN e - s ELSE e - s + D
  BY <1>1, <1>2, ModDifference
<1>5. Covers(w, m) <=> IF s < e THEN s <= m /\ m < e ELSE s <= m \/ m < e
  BY <1>1, <1>2, <1>3, <1>4
<1> QED
  BY <1>5 DEF s, e

\* overlaps finds a shared minute when there is one.
LEMMA overlapsIsShared ==
  ASSUME NEW w, ValidToU(w), NEW start \in Minutes, NEW end \in Minutes, start < end
  PROVE  overlaps(w, start, end) <=> \E m \in start .. end - 1 : Covers(w, m)
<1> DEFINE s == minuteOfDay(w.Start)
           e == minuteOfDay(w.End)
           z == endMinuteOfDay(w.End)
           D == minutesPerDay
<1>1. D \in Nat \ {0} /\ start \in 0 .. D - 1 /\ end \in 0 .. D - 1
  BY DayType
<1>2. s \in 0 .. D - 1 /\ e \in 0 .. D - 1 /\ s # e
  BY TariffMinutesType, DayType
<1>3. z = IF e = 0 THEN D ELSE e
  BY TariffMinutesType, MidnightMinute DEF endMinuteOfDay
<1>4. overlaps(w, start, end) <=>
        \/ s < z /\ start < z /\ s < end
        \/ s >= z /\ ((start < D /\ s < end) \/ (start < z /\ 0 < end))
  BY TariffMinutesType DEF overlaps, intersects
<1>5. ASSUME NEW m \in start .. end - 1
      PROVE  Covers(w, m) <=> IF s < e THEN s <= m /\ m < e ELSE s <= m \/ m < e
  <2>1. m \in Minutes
    BY <1>1, DayType
  <2> QED
    BY <2>1, CoversCases
<1> HIDE DEF s, e, z, D
<1>6. ASSUME NEW m \in start .. end - 1, Covers(w, m) PROVE overlaps(w, start, end)
  BY <1>1, <1>2, <1>3, <1>4, <1>5, <1>6
<1>7. ASSUME overlaps(w, start, end) PROVE \E m \in start .. end - 1 : Covers(w, m)
  <2>1. CASE start >= s
    <3>1. start \in start .. end - 1
      BY <1>1
    <3> QED
      BY <1>1, <1>2, <1>3, <1>4, <1>5, <1>7, <2>1, <3>1
  <2>2. CASE start < e /\ e < s
    <3>1. start \in start .. end - 1
      BY <1>1
    <3> QED
      BY <1>1, <1>2, <1>5, <2>2, <3>1
  <2>3. CASE start < s /\ ~(start < e /\ e < s)
    <3>1. s \in start .. end - 1
      BY <1>1, <1>2, <1>3, <1>4, <1>7, <2>3
    <3> QED
      BY <1>2, <1>5, <3>1
  <2> QED
    BY <1>1, <1>2, <2>1, <2>2, <2>3
<1> QED
  BY <1>6, <1>7

-----------------------------------------------------------------------------
(* The plan of a boost.                                                    *)

\* What the runs of MCSchedule range over.
SchedInv == now \in Minutes /\ ValidToU(tou)

LEMMA SchedInvInvariant == Spec => []SchedInv
<1>1. Init => SchedInv
  BY DEF Init, Tariffs, SchedInv
<1>2. SchedInv /\ [Next]_<<now, tou>> => SchedInv'
  <2>1. ASSUME now \in Minutes PROVE (now + 1) % minutesPerDay \in Minutes
    BY <2>1, DayType
  <2> QED
    BY <2>1 DEF SchedInv, Next
<1> QED
  BY <1>1, <1>2, PTL DEF Spec

LEMMA OptionType ==
  ASSUME NEW opt \in Options
  PROVE  /\ opt.mode \in Directions
         /\ opt.minutes \in boostDurations
         /\ opt = [mode |-> opt.mode, minutes |-> opt.minutes]
<1>1. opt \in [mode : Directions, minutes : boostDurations]
  BY DEF Options, BoostOptions
<1> QED
  BY <1>1

\* The window of a boost from minute m to minute end.
Window(m, end) == [Start |-> clockAt(m), End |-> clockAt(end)]

\* PlanBoost refuses, or plans one window.
LEMMA PlanCases ==
  ASSUME NEW opt \in Options
  PROVE  LET end == boostEnd(now, opt.minutes)
         IN /\ end >= minutesPerDay \/ overlaps(tou, now, end) => Plan(opt).err # ""
            /\ ~(end >= minutesPerDay) /\ ~overlaps(tou, now, end) =>
                 /\ Plan(opt).err = ""
                 /\ Plan(opt).slot = [NoSlot EXCEPT ![opt.mode] = Window(now, end)]
BY Zenon DEF Plan, PlanBoost, Refused, Window

\* The window of a planned boost starts now, ends later today, and is not empty.
LEMMA PlannedWindow ==
  ASSUME SchedInv, NEW opt \in Options, boostEnd(now, opt.minutes) < minutesPerDay
  PROVE  LET end == boostEnd(now, opt.minutes)
             w == Window(now, end)
         IN /\ end \in Minutes /\ now < end
            /\ w \in TimedWindow
            /\ minuteOfDay(w.Start) = now /\ minuteOfDay(w.End) = end
            /\ ~isMidnight(w.End)
            /\ ~IsZero(w)
<1> DEFINE end == boostEnd(now, opt.minutes)
           w == Window(now, end)
<1>1. now \in Nat /\ now < minutesPerDay
  BY DayType DEF SchedInv
<1>2. end \in Nat /\ now < end
  BY <1>1, OptionType, boostEndGrid
<1>3. end \in Minutes
  BY <1>2, DayType
<1>4. w.Start \in Clock /\ w.End \in Clock
  BY <1>1, <1>2, clockAtType DEF Window
<1>5. minuteOfDay(w.Start) = now /\ minuteOfDay(w.End) = end
  BY <1>1, <1>2, minuteOfDayClock DEF Window
<1>6. ~isMidnight(w.End)
  BY <1>1, <1>2, <1>4, <1>5, MidnightMinute
<1>7. ~IsZero(w)
  BY <1>6 DEF IsZero, isMidnight, NoWindow
<1>8. w \in TimedWindow
  BY <1>4 DEF TimedWindow, Window
<1> QED
  BY <1>2, <1>3, <1>5, <1>6, <1>7, <1>8

\* A boost that is not refused ends today, and its slot holds its window.
LEMMA PlannedBoost ==
  ASSUME SchedInv, NEW opt \in Options
  PROVE  LET end == boostEnd(now, opt.minutes)
         IN Plan(opt).err = "" =>
              /\ end < minutesPerDay
              /\ Plan(opt).slot = [NoSlot EXCEPT ![opt.mode] = Window(now, end)]
<1> DEFINE end == boostEnd(now, opt.minutes)
<1>1. end \in Nat /\ minutesPerDay \in Nat
  BY OptionType, boostEndGrid, DayType DEF SchedInv
<1>2. ~(end >= minutesPerDay) => end < minutesPerDay
  BY <1>1
<1> QED
  BY <1>2, PlanCases, Zenon

\* PlanBoost plans the boosts that end today and share no minute with the
\* tariff, up to the last grid point within the minutes asked for, and refuses
\* all others.
THEOREM PlanExact == Spec => []PlanIsExact
<1>1. ASSUME SchedInv, NEW opt \in Options
      PROVE  LET end == CHOOSE e \in now + opt.minutes - boostStep + 1 .. now + opt.minutes :
                          e % boostStep = 0
             IN IF end >= minutesPerDay \/ \E m \in now .. end - 1 : Covers(tou, m)
                THEN Plan(opt).err # ""
                ELSE /\ Plan(opt).err = ""
                     /\ Plan(opt).slot = [NoSlot EXCEPT ![opt.mode] =
                                            [Start |-> clockAt(now), End |-> clockAt(end)]]
  <2> DEFINE range == now + opt.minutes - boostStep + 1 .. now + opt.minutes
             end == boostEnd(now, opt.minutes)
  <2>1. now \in Nat /\ minutesPerDay \in Nat
    BY <1>1, DayType DEF SchedInv
  <2>2. opt.minutes \in boostDurations /\ opt.minutes \in Nat /\ boostStep \in Nat \ {0}
    BY OptionType, BoostAssumption
  <2>3. end \in Nat /\ end \in range /\ end % boostStep = 0
    <3>1. /\ end \in Nat /\ end % boostStep = 0
          /\ now + opt.minutes - boostStep < end /\ end <= now + opt.minutes
      BY <2>1, <2>2, boostEndGrid
    <3> HIDE DEF end
    <3> QED
      BY <2>1, <2>2, <3>1
  <2>4. ASSUME NEW e \in range, e % boostStep = 0 PROVE e = end
    <3>1. /\ now + opt.minutes - boostStep \in Int
          /\ range = (now + opt.minutes - boostStep) + 1 .. (now + opt.minutes - boostStep) + boostStep
      BY <2>1, <2>2
    <3> QED
      BY <2>3, <2>4, <3>1, GridPointUnique
  <2>5. (CHOOSE e \in range : e % boostStep = 0) = end
    <3> HIDE DEF range, end
    <3> QED
      BY <2>3, <2>4
  <2>6. ~(end >= minutesPerDay) =>
          (overlaps(tou, now, end) <=> \E m \in now .. end - 1 : Covers(tou, m))
    <3>1. SUFFICES ASSUME ~(end >= minutesPerDay)
                   PROVE  overlaps(tou, now, end) <=> \E m \in now .. end - 1 : Covers(tou, m)
      OBVIOUS
    <3>2. end < minutesPerDay
      BY <2>1, <2>3, <3>1
    <3>3. now \in Minutes /\ end \in Minutes /\ now < end /\ ValidToU(tou)
      BY <1>1, <3>2, PlannedWindow DEF SchedInv
    <3> QED
      BY <3>3, overlapsIsShared
  <2>7. IF end >= minutesPerDay \/ \E m \in now .. end - 1 : Covers(tou, m)
        THEN Plan(opt).err # ""
        ELSE /\ Plan(opt).err = ""
             /\ Plan(opt).slot = [NoSlot EXCEPT ![opt.mode] =
                                    [Start |-> clockAt(now), End |-> clockAt(end)]]
    BY <2>6, PlanCases, Zenon DEF Window
  <2> QED
    BY <2>5, <2>7, Zenon
<1>2. SchedInv => PlanIsExact
  BY <1>1, Zenon DEF PlanIsExact
<1> QED
  BY <1>2, SchedInvInvariant, PTL

-----------------------------------------------------------------------------
(* The select.                                                             *)

\* Rounding up undoes what the grid has cut off.
LEMMA roundUpIsChoice ==
  ASSUME NEW n \in boostDurations, NEW x \in Nat, n - boostStep < x, x <= n
  PROVE  roundUpToStep(x) = n
<1> DEFINE k == n \div boostStep
<1>1. boostStep \in Nat \ {0} /\ n \in Nat /\ n >= boostStep /\ n % boostStep = 0
  BY BoostAssumption, DurationsPositive
<1>2. k \in Int /\ n = boostStep * k
  BY <1>1
<1> HIDE DEF k
<1>3. x > 0
  BY <1>1
<1>4. /\ x + boostStep - 1 \in Int
      /\ x + boostStep - 1 - n \in 0 .. boostStep - 1
      /\ x + boostStep - 1 = boostStep * k + (x + boostStep - 1 - n)
  BY <1>1, <1>2
<1>5. (x + boostStep - 1) \div boostStep = k
  BY <1>1, <1>2, <1>4, DivModUnique
<1>6. roundUpToStep(x) = k * boostStep
  BY <1>3, <1>5 DEF roundUpToStep
<1> QED
  BY <1>1, <1>2, <1>6

\* The state of the select for one window in the boost slot.
LEMMA SelectOfWindow ==
  ASSUME NEW mode \in Directions, NEW w, ~IsZero(w)
  PROVE  LET slots == AsSlots([NoSlot EXCEPT ![mode] = w])
             n == roundUpToStep(endMinuteOfDay(w.End) - minuteOfDay(w.Start))
         IN n \in boostDurations => BoostSelectState(slots) = [mode |-> mode, minutes |-> n]
<1> DEFINE slot == [NoSlot EXCEPT ![mode] = w]
           slots == AsSlots(slot)
           n == roundUpToStep(endMinuteOfDay(w.End) - minuteOfDay(w.Start))
<1>1. slots[boostSlot] = slot
  BY DEF AsSlots, boostSlot, SlotIndex
<1>2. slot[mode] = w /\ \A d \in Directions : d # mode => slot[d] = NoWindow
  BY DEF NoSlot
<1>3. IsZero(NoWindow)
  BY DEF IsZero
<1> HIDE DEF slot, slots
<1>4. BoostOf(slots) = [mode |-> mode, window |-> w]
  <2>1. CASE mode = "Charge"
    BY <1>1, <1>2, <2>1 DEF BoostOf
  <2>2. CASE mode = "Discharge"
    <3>1. IsZero(slots[boostSlot]["Charge"])
      BY <1>1, <1>2, <1>3, <2>2 DEF Directions
    <3> QED
      BY <1>1, <1>2, <2>2, <3>1 DEF BoostOf
  <2> QED
    BY <2>1, <2>2 DEF Directions
<1>5. BoostOf(slots).mode = mode /\ BoostOf(slots).window = w
  BY <1>4
<1>6. mode # "Off"
  BY DEF Directions
<1> HIDE DEF n
<1>7. n \in boostDurations => BoostSelectState(slots) = [mode |-> mode, minutes |-> n]
  BY <1>5, <1>6 DEF BoostSelectState, n
<1> QED
  BY <1>7 DEF slots, slot, n

\* After a boost the select shows the option that was chosen, though the grid
\* has made the window shorter.
THEOREM SelectIsChoice == Spec => []SelectShowsChoice
<1>1. ASSUME SchedInv, NEW opt \in Options, boostEnd(now, opt.minutes) < minutesPerDay
      PROVE  LET w == Window(now, boostEnd(now, opt.minutes))
             IN BoostSelectState(AsSlots([NoSlot EXCEPT ![opt.mode] = w])) = opt
  <2> DEFINE end == boostEnd(now, opt.minutes)
             w == Window(now, end)
  <2>2. now \in Nat /\ minutesPerDay \in Nat
    BY <1>1, DayType DEF SchedInv
  <2>3. opt.mode \in Directions /\ opt.minutes \in boostDurations /\ opt.minutes \in Nat
        /\ boostStep \in Nat
    BY OptionType, BoostAssumption
  <2>4. /\ end \in Nat /\ now < end
        /\ now + opt.minutes - boostStep < end /\ end <= now + opt.minutes
    BY <2>2, <2>3, boostEndGrid
  <2>6. /\ minuteOfDay(w.Start) = now /\ minuteOfDay(w.End) = end
        /\ ~isMidnight(w.End) /\ ~IsZero(w)
    BY <1>1, PlannedWindow
  <2>7. endMinuteOfDay(w.End) - minuteOfDay(w.Start) = end - now
    BY <2>6 DEF endMinuteOfDay
  <2> HIDE DEF end
  <2>8. roundUpToStep(end - now) = opt.minutes
    <3>1. end - now \in Nat /\ opt.minutes - boostStep < end - now /\ end - now <= opt.minutes
      BY <2>2, <2>3, <2>4
    <3> QED
      BY <2>3, <3>1, roundUpIsChoice
  <2> HIDE DEF w
  <2>9. BoostSelectState(AsSlots([NoSlot EXCEPT ![opt.mode] = w])) =
          [mode |-> opt.mode, minutes |-> opt.minutes]
    BY <2>3, <2>6, <2>7, <2>8, SelectOfWindow
  <2> QED
    BY <2>9, OptionType DEF w, end
<1>2. SchedInv => SelectShowsChoice
  BY <1>1, PlannedBoost, Zenon DEF SelectShowsChoice
<1> QED
  BY <1>2, SchedInvInvariant, PTL

-----------------------------------------------------------------------------
(* The tariff.                                                             *)

\* ToUSlots, split or not.
LEMMA ToUSlotsCases ==
  ASSUME NEW w, ValidToU(w)
  PROVE  LET s == minuteOfDay(w.Start)
             e == minuteOfDay(w.End)
         IN /\ s < e => /\ ToUSlots(w)[0]["Charge"] = w
                        /\ ToUSlots(w)[1]["Charge"] = NoWindow
            /\ e = 0 => /\ ToUSlots(w)[0]["Charge"] = w
                        /\ ToUSlots(w)[1]["Charge"] = NoWindow
            /\ 0 < e /\ e < s =>
                 /\ ToUSlots(w)[0]["Charge"] = [Start |-> w.Start, End |-> Midnight]
                 /\ ToUSlots(w)[1]["Charge"] = [Start |-> Midnight, End |-> w.End]
<1> DEFINE s == minuteOfDay(w.Start)
           e == minuteOfDay(w.End)
           split == isMidnight(w.End) \/ s >= e
           first == IF split THEN [w EXCEPT !.End = Midnight] ELSE w
           second == IF split /\ ~isMidnight(w.End)
                     THEN [w EXCEPT !.Start = Midnight] ELSE NoWindow
<1>1. s \in Nat /\ e \in Nat
  BY TariffMinutesType, DayType
<1>2. isMidnight(w.End) <=> e = 0
  BY TariffMinutesType, MidnightMinute
<1>3. w = [Start |-> w.Start, End |-> w.End]
  BY DEF ValidToU, TimedWindow
<1>4. /\ [w EXCEPT !.End = Midnight] = [Start |-> w.Start, End |-> Midnight]
      /\ [w EXCEPT !.Start = Midnight] = [Start |-> Midnight, End |-> w.End]
  BY <1>3
<1>5. ToUSlots(w)[0]["Charge"] = first /\ ToUSlots(w)[1]["Charge"] = second
  <2>1. ToUSlots(w) = [i \in 0 .. 1 |-> ChargeSlot(IF i = 0 THEN first ELSE second)]
    BY DEF ToUSlots
  <2>2. ASSUME NEW x PROVE ChargeSlot(x)["Charge"] = x
    BY DEF ChargeSlot, NoSlot, Directions
  <2> HIDE DEF first, second
  <2> QED
    BY <2>1, <2>2
<1>6. isMidnight(w.End) => w.End = Midnight
  BY DEF isMidnight
<1> HIDE DEF s, e
<1>7. s < e => first = w /\ second = NoWindow
  BY <1>1, <1>2
<1>8. e = 0 => first = w /\ second = NoWindow
  BY <1>2, <1>3, <1>4, <1>6
<1>9. 0 < e /\ e < s => /\ first = [Start |-> w.Start, End |-> Midnight]
                        /\ second = [Start |-> Midnight, End |-> w.End]
  BY <1>1, <1>2, <1>4
<1> HIDE DEF first, second
<1> QED
  BY <1>5, <1>7, <1>8, <1>9 DEF s, e

\* A tariff split at midnight is rejoined to the same tariff.
LEMMA ToUInverse ==
  ASSUME NEW w, ValidToU(w), NEW slots,
         slots[0] = ToUSlots(w)[0], slots[1] = ToUSlots(w)[1]
  PROVE  ToU(slots) = [window |-> w, ok |-> TRUE]
<1> DEFINE s == minuteOfDay(w.Start)
           e == minuteOfDay(w.End)
<1>1. w.Start \in Clock /\ w.End \in Clock /\ s \in Nat /\ e \in Nat /\ s # e /\ ~IsZero(w)
  BY TariffMinutesType, DayType
<1>2. IsZero(NoWindow)
  BY DEF IsZero
<1>3. CASE s < e \/ e = 0
  <2>1. slots[0]["Charge"] = w /\ slots[1]["Charge"] = NoWindow
    BY <1>3, ToUSlotsCases
  <2> QED
    BY <1>1, <1>2, <2>1, Zenon DEF ToU
<1>4. CASE 0 < e /\ e < s
  <2> DEFINE first == [Start |-> w.Start, End |-> Midnight]
             second == [Start |-> Midnight, End |-> w.End]
  <2>1. slots[0]["Charge"] = first /\ slots[1]["Charge"] = second
    BY <1>4, ToUSlotsCases
  <2>2. w.Start # Midnight /\ w.End # Midnight
    BY <1>1, <1>4, MidnightMinute
  <2>3. ~IsZero(first) /\ ~IsZero(second)
    BY <2>2 DEF IsZero, NoWindow
  <2>4. isMidnight(first.End) /\ isMidnight(second.Start)
    BY DEF isMidnight
  <2>5. [Start |-> first.Start, End |-> second.End] = w
    BY DEF ValidToU, TimedWindow
  <2> HIDE DEF first, second
  <2> QED
    BY <2>1, <2>3, <2>4, <2>5, Zenon DEF ToU
<1> QED
  BY <1>1, <1>3, <1>4

\* The two slots of a tariff cover its minutes, each within the day, and read
\* back as the tariff.
THEOREM TariffSplit == Spec => []TariffSplitIsExact
<1>1. ASSUME SchedInv
      PROVE  Covers(tou, now) <=>
               \E i \in 0 .. 1 :
                 LET w == ToUSlots(tou)[i]["Charge"]
                 IN ~IsZero(w) /\ minuteOfDay(w.Start) <= now /\ now < endMinuteOfDay(w.End)
  <2> DEFINE s == minuteOfDay(tou.Start)
             e == minuteOfDay(tou.End)
             in(w) == ~IsZero(w) /\ minuteOfDay(w.Start) <= now /\ now < endMinuteOfDay(w.End)
  <2>1. ValidToU(tou) /\ now \in Minutes /\ now \in 0 .. minutesPerDay - 1
    BY <1>1, DayType DEF SchedInv
  <2>2. /\ tou.Start \in Clock /\ tou.End \in Clock /\ ~IsZero(tou)
        /\ s \in 0 .. minutesPerDay - 1 /\ e \in 0 .. minutesPerDay - 1 /\ s # e
        /\ minutesPerDay \in Nat
    BY <2>1, TariffMinutesType, DayType
  <2>3. endMinuteOfDay(tou.End) = IF e = 0 THEN minutesPerDay ELSE e
    BY <2>2, MidnightMinute DEF endMinuteOfDay
  <2>4. Covers(tou, now) <=> IF s < e THEN s <= now /\ now < e ELSE s <= now \/ now < e
    BY <2>1, CoversCases
  <2>5. ~in(NoWindow)
    BY DEF IsZero
  <2>6. in(tou) <=> s <= now /\ now < endMinuteOfDay(tou.End)
    BY <2>2
  <2>7. SUFFICES Covers(tou, now) <=>
                   in(ToUSlots(tou)[0]["Charge"]) \/ in(ToUSlots(tou)[1]["Charge"])
    <3>1. 0 .. 1 = {0, 1}
      OBVIOUS
    <3> HIDE DEF in
    <3>2. (\E i \in 0 .. 1 : in(ToUSlots(tou)[i]["Charge"])) <=>
             in(ToUSlots(tou)[0]["Charge"]) \/ in(ToUSlots(tou)[1]["Charge"])
      BY <3>1
    <3> QED
      BY <2>7, <3>2 DEF in
  <2>8. CASE s < e \/ e = 0
    <3>1. ToUSlots(tou)[0]["Charge"] = tou /\ ToUSlots(tou)[1]["Charge"] = NoWindow
      BY <2>1, <2>8, ToUSlotsCases
    <3> HIDE DEF in, s, e
    <3>2. Covers(tou, now) <=> s <= now /\ now < endMinuteOfDay(tou.End)
      BY <2>1, <2>2, <2>3, <2>4, <2>8
    <3> QED
      BY <2>5, <2>6, <3>1, <3>2
  <2>9. CASE 0 < e /\ e < s
    <3> DEFINE first == [Start |-> tou.Start, End |-> Midnight]
               second == [Start |-> Midnight, End |-> tou.End]
    <3>1. ToUSlots(tou)[0]["Charge"] = first /\ ToUSlots(tou)[1]["Charge"] = second
      BY <2>1, <2>9, ToUSlotsCases
    <3>2. tou.Start # Midnight /\ tou.End # Midnight
      BY <2>2, <2>9, MidnightMinute
    <3>3. ~IsZero(first) /\ ~IsZero(second)
      BY <3>2 DEF IsZero, NoWindow
    <3>4. endMinuteOfDay(Midnight) = minutesPerDay /\ minuteOfDay(Midnight) = 0
      BY MidnightMinute DEF endMinuteOfDay, isMidnight
    <3>5. in(first) <=> s <= now
      BY <2>1, <2>2, <3>3, <3>4
    <3>6. in(second) <=> now < e
      BY <2>1, <2>2, <2>3, <2>9, <3>3, <3>4
    <3>7. Covers(tou, now) <=> s <= now \/ now < e
      BY <2>2, <2>4, <2>9
    <3> HIDE DEF in, first, second
    <3> QED
      BY <3>1, <3>5, <3>6, <3>7
  <2> QED
    BY <2>2, <2>8, <2>9
<1>2. ASSUME SchedInv PROVE ToU(WithTariff(NoSlot)) = [window |-> tou, ok |-> TRUE]
  <2>1. /\ WithTariff(NoSlot)[0] = ToUSlots(tou)[0]
        /\ WithTariff(NoSlot)[1] = ToUSlots(tou)[1]
    BY DEF WithTariff, SlotIndex, boostSlot
  <2> QED
    BY <1>2, <2>1, ToUInverse, Zenon DEF SchedInv
<1>3. SchedInv => TariffSplitIsExact
  BY <1>1, <1>2, Zenon DEF TariffSplitIsExact
<1> QED
  BY <1>3, SchedInvInvariant, PTL

-----------------------------------------------------------------------------
(* The reconcile of a planned boost.                                       *)

\* With the tariff in place, the desired schedule is the one that is held, but
\* for the boost windows that are over.
LEMMA DesiredOfHeld ==
  ASSUME SchedInv, NEW slot, NEW m
  PROVE  Desired(tou, TRUE, WithTariff(slot), m) = WithTariff(running(slot, m))
<1>1. ~IsZero(tou)
  BY TariffMinutesType DEF SchedInv
<1>2. WithTariff(slot)[boostSlot] = slot
  BY DEF WithTariff, boostSlot, SlotIndex
<1> QED
  BY <1>1, <1>2 DEF Desired, WithTariff

LEMMA NothingToWrite ==
  ASSUME NEW s
  PROVE  scheduleDiff(s, s) = {}
BY DEF scheduleDiff

\* The reconcile keeps a boost for exactly the minutes of its window.
THEOREM BoostKept == Spec => []BoostRunsItsWindow
<1>1. ASSUME SchedInv, NEW opt \in Options, boostEnd(now, opt.minutes) < minutesPerDay,
             NEW m \in Int
      PROVE  LET end == boostEnd(now, opt.minutes)
                 slot == [NoSlot EXCEPT ![opt.mode] = Window(now, end)]
             IN running(slot, m) = IF now <= m /\ m < end THEN slot ELSE NoSlot
  <2> DEFINE end == boostEnd(now, opt.minutes)
             w == Window(now, end)
             slot == [NoSlot EXCEPT ![opt.mode] = w]
  <2>1. opt.mode \in Directions
    BY OptionType
  <2>2. /\ minuteOfDay(w.Start) = now /\ minuteOfDay(w.End) = end
        /\ ~isMidnight(w.End) /\ ~IsZero(w)
    BY <1>1, PlannedWindow
  <2>3. live(w, m) <=> now <= m /\ m < end
    BY <2>2 DEF live
  <2>4. ~live(NoWindow, m)
    BY DEF live, IsZero
  <2> HIDE DEF w, end
  <2>5. slot = [d \in Directions |-> IF d = opt.mode THEN w ELSE NoWindow]
    BY DEF NoSlot
  <2>6. running(slot, m) =
          [d \in Directions |-> IF d = opt.mode /\ live(w, m) THEN w ELSE NoWindow]
    <3> HIDE DEF slot
    <3>1. \A d \in Directions : slot[d] = IF d = opt.mode THEN w ELSE NoWindow
      BY <2>5
    <3> QED
      BY <2>4, <3>1 DEF running
  <2>7. CASE live(w, m)
    BY <2>3, <2>5, <2>6, <2>7 DEF end, w
  <2>8. CASE ~live(w, m)
    <3>1. running(slot, m) = NoSlot
      BY <2>6, <2>8 DEF NoSlot
    <3> QED
      BY <2>3, <2>8, <3>1 DEF end, w
  <2> QED
    BY <2>7, <2>8
<1>2. ASSUME SchedInv, NEW opt \in Options, boostEnd(now, opt.minutes) < minutesPerDay,
             NEW m \in Int
      PROVE  LET end == boostEnd(now, opt.minutes)
                 held == WithTariff([NoSlot EXCEPT ![opt.mode] = Window(now, end)])
                 desired == Desired(tou, TRUE, held, m)
             IN /\ now <= m /\ m < end => scheduleDiff(desired, held) = {}
                /\ ~(now <= m /\ m < end) => desired = WithTariff(NoSlot)
  <2> DEFINE end == boostEnd(now, opt.minutes)
             slot == [NoSlot EXCEPT ![opt.mode] = Window(now, end)]
  <2>1. running(slot, m) = IF now <= m /\ m < end THEN slot ELSE NoSlot
    BY <1>1, <1>2
  <2>2. Desired(tou, TRUE, WithTariff(slot), m) = WithTariff(running(slot, m))
    BY <1>2, DesiredOfHeld
  <2> HIDE DEF end, slot
  <2>3. /\ now <= m /\ m < end =>
             scheduleDiff(Desired(tou, TRUE, WithTariff(slot), m), WithTariff(slot)) = {}
        /\ ~(now <= m /\ m < end) =>
             Desired(tou, TRUE, WithTariff(slot), m) = WithTariff(NoSlot)
    BY <2>1, <2>2, NothingToWrite
  <2> QED
    BY <2>3 DEF end, slot
<1>3. ASSUME SchedInv, NEW opt \in Options
      PROVE  LET end == boostEnd(now, opt.minutes)
             IN {now, end - 1, end, (end + 1) % minutesPerDay, 0, minutesPerDay - 1} \subseteq Int
  <2> DEFINE end == boostEnd(now, opt.minutes)
  <2>1. now \in Nat /\ end \in Nat /\ minutesPerDay \in Nat \ {0}
    BY <1>3, OptionType, boostEndGrid, DayType DEF SchedInv
  <2> HIDE DEF end
  <2>2. (end + 1) % minutesPerDay \in Int
    BY <2>1
  <2>3. {now, end - 1, end, (end + 1) % minutesPerDay, 0, minutesPerDay - 1} \subseteq Int
    BY <2>1, <2>2
  <2> QED
    BY <2>3 DEF end
<1>4. ASSUME SchedInv, NEW opt \in Options, Plan(opt).err = ""
      PROVE  LET end == boostEnd(now, opt.minutes)
                 held == WithTariff(Plan(opt).slot)
             IN \A m \in {now, end - 1, end, (end + 1) % minutesPerDay, 0, minutesPerDay - 1} :
                  LET desired == Desired(tou, TRUE, held, m)
                  IN /\ now <= m /\ m < end => scheduleDiff(desired, held) = {}
                     /\ ~(now <= m /\ m < end) => desired = WithTariff(NoSlot)
  <2>1. /\ boostEnd(now, opt.minutes) < minutesPerDay
        /\ Plan(opt).slot = [NoSlot EXCEPT ![opt.mode] = Window(now, boostEnd(now, opt.minutes))]
    BY <1>4, PlannedBoost, Zenon
  <2> QED
    BY <1>2, <1>3, <1>4, <2>1, Zenon
<1>5. SchedInv => BoostRunsItsWindow
  BY <1>4, Zenon DEF BoostRunsItsWindow
<1> QED
  BY <1>5, SchedInvInvariant, PTL

-----------------------------------------------------------------------------
(* The order of the registers.                                             *)

\* The registers written for slots decode to those slots.
LEMMA ImageDecodes ==
  ASSUME NEW s \in TimedSlots
  PROVE  DecodeTimedSlots(Image(s)) = s
<1>1. ASSUME NEW i \in SlotIndex, NEW d \in Directions
      PROVE  decodeTimedWindow(Image(s), i, d) = s[i][d]
  <2> DEFINE w == s[i][d]
  <2>1. \A f \in Fields : Image(s)[SlotReg(i, d, f)] = fieldOf(w, f)
    BY SlotRegInverse, slotValueAt DEF Image
  <2>2. w \in TimedWindow
    BY DEF TimedSlots, TimedSlot
  <2> HIDE DEF w
  <2>3. /\ Image(s)[SlotReg(i, d, 0)] = w.Start.Hour
        /\ Image(s)[SlotReg(i, d, 1)] = w.Start.Minute
        /\ Image(s)[SlotReg(i, d, 2)] = w.End.Hour
        /\ Image(s)[SlotReg(i, d, 3)] = w.End.Minute
    <3>1. fieldOf(w, 0) = w.Start.Hour
      BY DEF fieldOf
    <3>2. fieldOf(w, 1) = w.Start.Minute
      BY DEF fieldOf
    <3>3. fieldOf(w, 2) = w.End.Hour
      BY DEF fieldOf
    <3>4. fieldOf(w, 3) = w.End.Minute
      BY DEF fieldOf
    <3> QED
      BY <2>1, <3>1, <3>2, <3>3, <3>4 DEF Fields
  <2>4. w = [Start |-> [Hour |-> w.Start.Hour, Minute |-> w.Start.Minute],
             End |-> [Hour |-> w.End.Hour, Minute |-> w.End.Minute]]
    BY <2>2 DEF TimedWindow, Clock
  <2> QED
    BY <2>3, <2>4 DEF decodeTimedWindow, w
<1>2. ASSUME NEW i \in SlotIndex PROVE decodeTimedSlot(Image(s), i) = s[i]
  <2>1. s[i] = [d \in Directions |-> s[i][d]]
    BY DEF TimedSlots, TimedSlot
  <2> QED
    BY <1>1, <2>1 DEF decodeTimedSlot
<1>3. s = [i \in SlotIndex |-> s[i]]
  BY DEF TimedSlots
<1> QED
  BY <1>2, <1>3 DEF DecodeTimedSlots

\* In a swapped slot the two blocks change places.
LEMMA PlaceValue ==
  ASSUME NEW sw \in BOOLEAN, NEW d \in Directions, NEW f \in Fields
  PROVE  writeRank(sw, SlotReg(boostSlot, d, f)) =
           SlotReg(boostSlot, IF sw THEN otherDirection(d) ELSE d, f)
<1>1. boostSlot \in SlotIndex /\ boostSlot \in Int /\ f \in Int
  BY DEF boostSlot, SlotIndex, Fields
<1>2. directionOf(SlotReg(boostSlot, d, f)) = d
  BY <1>1, SlotRegInverse
<1>3. CASE ~sw
  BY <1>3 DEF writeRank
<1>4. CASE sw
  <2>1. CASE d = "Charge"
    BY <1>1, <1>2, <1>4, <2>1, SlotRegValue, otherDirectionType DEF writeRank, otherDirection
  <2>2. CASE d = "Discharge"
    BY <1>1, <1>2, <1>4, <2>2, SlotRegValue, otherDirectionType DEF writeRank, otherDirection
  <2> QED
    BY <2>1, <2>2 DEF Directions
<1> QED
  BY <1>3, <1>4

LEMMA PlaceInjective ==
  ASSUME NEW sw \in BOOLEAN, NEW a \in SlotRegs(boostSlot), NEW b \in SlotRegs(boostSlot),
         writeRank(sw, a) = writeRank(sw, b)
  PROVE  a = b
<1> DEFINE put(d) == IF sw THEN otherDirection(d) ELSE d
<1>1. boostSlot \in SlotIndex
  BY DEF boostSlot, SlotIndex
<1>2. PICK d \in Directions, f \in Fields : a = SlotReg(boostSlot, d, f)
  BY DEF SlotRegs
<1>3. PICK e \in Directions, g \in Fields : b = SlotReg(boostSlot, e, g)
  BY DEF SlotRegs
<1>4. SlotReg(boostSlot, put(d), f) = SlotReg(boostSlot, put(e), g)
  BY <1>2, <1>3, PlaceValue
<1>5. put(d) \in Directions /\ put(e) \in Directions
  BY otherDirectionType
<1> HIDE DEF put
<1>6. f = g /\ put(d) = put(e)
  BY <1>1, <1>4, <1>5, SlotRegInverse
<1>7. d = e
  BY <1>6 DEF put, otherDirection, Directions
<1> QED
  BY <1>2, <1>3, <1>6, <1>7

\* The block of the direction that is cleared comes first.
LEMMA ClearedBlockFirst ==
  ASSUME NEW mode \in Directions, NEW sw \in BOOLEAN, sw <=> mode = "Charge",
         NEW f \in Fields, NEW g \in Fields
  PROVE  writeRank(sw, SlotReg(boostSlot, otherDirection(mode), f))
           < writeRank(sw, SlotReg(boostSlot, mode, g))
<1>1. boostSlot \in SlotIndex /\ f \in 0 .. 3 /\ g \in 0 .. 3 /\ boostSlot \in Int
  BY DEF boostSlot, SlotIndex, Fields
<1>2. /\ writeRank(sw, SlotReg(boostSlot, otherDirection(mode), f)) = SlotReg(boostSlot, "Charge", f)
      /\ writeRank(sw, SlotReg(boostSlot, mode, g)) = SlotReg(boostSlot, "Discharge", g)
  <2>1. CASE mode = "Charge"
    BY <2>1, PlaceValue, otherDirectionType DEF otherDirection
  <2>2. CASE mode = "Discharge"
    BY <2>2, PlaceValue, otherDirectionType DEF otherDirection
  <2> QED
    BY <2>1, <2>2 DEF Directions
<1>3. "Charge" \in Directions /\ "Discharge" \in Directions
  BY DEF Directions
<1> QED
  BY <1>1, <1>2, <1>3, SlotRegValue

\* The registers of one window in the boost slot.
LEMMA OneWindowImage ==
  ASSUME NEW mode \in Directions, NEW w, NEW f \in Fields
  PROVE  Image(AsSlots([NoSlot EXCEPT ![mode] = w]))[SlotReg(boostSlot, otherDirection(mode), f)] = 0
<1> DEFINE slot == [NoSlot EXCEPT ![mode] = w]
           a == SlotReg(boostSlot, otherDirection(mode), f)
<1>1. boostSlot \in SlotIndex /\ otherDirection(mode) \in Directions /\ otherDirection(mode) # mode
  BY otherDirectionType DEF boostSlot, SlotIndex
<1>2. slot[otherDirection(mode)] = NoWindow
  BY <1>1 DEF NoSlot
<1> HIDE DEF slot
<1>3. AsSlots(slot)[boostSlot] = slot
  BY <1>1 DEF AsSlots
<1>4. a \in AllSlotRegs /\ slotValue(AsSlots(slot), a) = fieldOf(NoWindow, f)
  BY <1>1, <1>2, <1>3, SlotRegInverse, slotValueAt
<1>5. Image(AsSlots(slot))[a] = 0
  BY <1>4, NoWindowField DEF Image
<1> QED
  BY <1>5 DEF slot

\* TimedSlotWriteRegisters over another slot: the registers decode to the new
\* slot, they are all different, and after none of them are both windows set.
CleanSwap(slot, before) ==
  LET image == Image(AsSlots(slot))
      old == Image(AsSlots(before))
      place(a) == writeRank(dischargeFirst(slot), a)
      after(n) == [a \in AllSlotRegs |-> IF place(a) <= n THEN image[a] ELSE old[a]]
  IN /\ DecodeTimedSlots(image) = AsSlots(slot)
     /\ \A a, b \in SlotRegs(boostSlot) : place(a) = place(b) => a = b
     /\ \A a \in SlotRegs(boostSlot) :
          \E d \in Directions : IsZero(decodeTimedWindow(after(place(a)), boostSlot, d))

LEMMA SwapIsClean ==
  ASSUME NEW mode \in Directions, NEW w \in TimedWindow, ~IsZero(w)
  PROVE  CleanSwap([NoSlot EXCEPT ![mode] = w], [NoSlot EXCEPT ![otherDirection(mode)] = w])
<1> DEFINE other == otherDirection(mode)
           slot == [NoSlot EXCEPT ![mode] = w]
           image == Image(AsSlots(slot))
           old == Image(AsSlots([NoSlot EXCEPT ![other] = w]))
           sw == dischargeFirst(slot)
           place(a) == writeRank(sw, a)
           after(n) == [a \in AllSlotRegs |-> IF place(a) <= n THEN image[a] ELSE old[a]]
<1>1. boostSlot \in SlotIndex /\ other \in Directions /\ other # mode /\ otherDirection(other) = mode
  BY otherDirectionType DEF boostSlot, SlotIndex, otherDirection, Directions
<1>2. DecodeTimedSlots(image) = AsSlots(slot)
  <2>1. slot \in TimedSlot
    BY EmptyTypes DEF TimedSlot
  <2> HIDE DEF slot
  <2>2. AsSlots(slot) \in TimedSlots
    BY <1>1, <2>1, EmptyTypes DEF AsSlots, TimedSlots
  <2> QED
    BY <2>2, ImageDecodes
<1>3. sw \in BOOLEAN /\ (sw <=> mode = "Charge")
  <2>1. slot[mode] = w /\ slot[other] = NoWindow
    BY <1>1 DEF NoSlot
  <2>2. IsZero(NoWindow)
    BY DEF IsZero
  <2> HIDE DEF slot
  <2>3. CASE mode = "Charge"
    <3>1. other = "Discharge"
      BY <2>3 DEF otherDirection
    <3> QED
      BY <2>1, <2>2, <2>3, <3>1 DEF dischargeFirst
  <2>4. CASE mode = "Discharge"
    <3>1. other = "Charge"
      BY <2>4 DEF otherDirection
    <3> QED
      BY <2>1, <2>2, <2>4, <3>1 DEF dischargeFirst
  <2> QED
    BY <2>3, <2>4 DEF Directions
<1>4. \A f \in Fields : image[SlotReg(boostSlot, other, f)] = 0
  BY OneWindowImage
<1>5. \A f \in Fields : old[SlotReg(boostSlot, mode, f)] = 0
  BY <1>1, OneWindowImage
<1> HIDE DEF slot, image, old, sw
<1>6. \A a, b \in SlotRegs(boostSlot) : place(a) = place(b) => a = b
  BY <1>3, PlaceInjective
<1>7. \A f, g \in Fields : place(SlotReg(boostSlot, other, f)) < place(SlotReg(boostSlot, mode, g))
  BY <1>3, ClearedBlockFirst
<1>8. \A d \in Directions, f \in Fields :
        /\ SlotReg(boostSlot, d, f) \in AllSlotRegs
        /\ place(SlotReg(boostSlot, d, f)) \in Int
  <2>1. ASSUME NEW d \in Directions, NEW f \in Fields
        PROVE  /\ SlotReg(boostSlot, d, f) \in AllSlotRegs
               /\ place(SlotReg(boostSlot, d, f)) \in Int
    <3>1. PICK e \in Directions : place(SlotReg(boostSlot, d, f)) = SlotReg(boostSlot, e, f)
      BY <1>3, PlaceValue, otherDirectionType
    <3> QED
      BY <1>1, <3>1, SlotRegInverse, SlotRegValue DEF Fields, SlotIndex
  <2> QED
    BY <2>1
<1> HIDE DEF place
<1>9. ASSUME NEW a \in SlotRegs(boostSlot)
      PROVE  \E d \in Directions : IsZero(decodeTimedWindow(after(place(a)), boostSlot, d))
  <2>1. PICK e \in Directions, g \in Fields : a = SlotReg(boostSlot, e, g)
    BY DEF SlotRegs
  <2>2. CASE e = mode
    <3>1. ASSUME NEW f \in Fields PROVE after(place(a))[SlotReg(boostSlot, other, f)] = 0
      BY <1>1, <1>4, <1>7, <1>8, <2>1, <2>2
    <3> HIDE DEF after, other
    <3> QED
      BY <1>1, <3>1, DecodedIsZero
  <2>3. CASE e = other
    <3>1. ASSUME NEW f \in Fields PROVE after(place(a))[SlotReg(boostSlot, mode, f)] = 0
      BY <1>1, <1>5, <1>7, <1>8, <2>1, <2>3
    <3> HIDE DEF after, other
    <3> QED
      BY <1>1, <3>1, DecodedIsZero
  <2> QED
    BY <2>2, <2>3 DEF other, otherDirection, Directions
<1> QED
  BY <1>2, <1>6, <1>9 DEF place, slot, image, old, sw, other, CleanSwap

\* A boost over one of the other direction is written clear first, and its
\* registers decode to the slot that was planned.
THEOREM WriteOrder == Spec => []WriteOrderClearsFirst
<1>1. ASSUME NEW mode \in Directions
      PROVE  (CHOOSE d \in Directions : d # mode) = otherDirection(mode)
  BY <1>1, otherDirectionType DEF Directions, otherDirection
<1>2. ASSUME NEW mode \in Directions, NEW w
      PROVE  [NoSlot EXCEPT ![mode] = w][mode] = w
  BY DEF NoSlot
<1>3. ASSUME SchedInv, NEW opt \in Options, boostEnd(now, opt.minutes) < minutesPerDay
      PROVE  LET w == Window(now, boostEnd(now, opt.minutes))
             IN w \in TimedWindow /\ ~IsZero(w)
  BY <1>3, PlannedWindow
<1>4. ASSUME SchedInv, NEW opt \in Options, Plan(opt).err = ""
      PROVE  LET other == CHOOSE d \in Directions : d # opt.mode
             IN CleanSwap(Plan(opt).slot, [NoSlot EXCEPT ![other] = Plan(opt).slot[opt.mode]])
  <2> DEFINE w == Window(now, boostEnd(now, opt.minutes))
  <2>1. boostEnd(now, opt.minutes) < minutesPerDay /\ Plan(opt).slot = [NoSlot EXCEPT ![opt.mode] = w]
    BY <1>4, PlannedBoost, Zenon
  <2>2. w \in TimedWindow /\ ~IsZero(w) /\ opt.mode \in Directions
    BY <1>3, <1>4, <2>1, OptionType, Zenon
  <2>3. (CHOOSE d \in Directions : d # opt.mode) = otherDirection(opt.mode)
    BY <1>1, <2>2, Zenon
  <2>4. Plan(opt).slot[opt.mode] = w
    BY <1>2, <2>1, <2>2, Zenon
  <2> HIDE DEF w
  <2> QED
    BY <2>1, <2>2, <2>3, <2>4, SwapIsClean, Zenon
<1>5. SchedInv => WriteOrderClearsFirst
  BY <1>4, Zenon DEF WriteOrderClearsFirst, CleanSwap
<1> QED
  BY <1>5, SchedInvInvariant, PTL
=============================================================================
