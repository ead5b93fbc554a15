----------------------------- MODULE MCSchedule -----------------------------
(***************************************************************************)
(* The schedule arithmetic over a real day: 24 hours of 60 minutes, boosts *)
(* of 15 to 60 minutes on the quarter-hour grid.  The clock walks through  *)
(* every minute of the day against each tariff, and every boost option is  *)
(* planned at every minute.  The references the code is compared with      *)
(* count the minutes a window covers, one by one.                          *)
(***************************************************************************)
EXTENDS Schedule

CONSTANT TariffMinutes   \* the minutes a tariff may start or end at

ASSUME TariffAssumption == TariffMinutes \subseteq Minutes

VARIABLES now, tou

Tariffs == {w \in [Start : {clockAt(m) : m \in TariffMinutes},
                   End : {clockAt(m) : m \in TariffMinutes}] : ValidToU(w)}

Init == now \in Minutes /\ tou \in Tariffs

Next == now' = (now + 1) % minutesPerDay /\ UNCHANGED tou

Spec == Init /\ [][Next]_<<now, tou>>

-----------------------------------------------------------------------------
(* References.                                                             *)

\* Minute m is inside the cyclic window from Start up to End.
Covers(w, m) ==
  (m - minuteOfDay(w.Start)) % minutesPerDay
    < (minuteOfDay(w.End) - minuteOfDay(w.Start)) % minutesPerDay

Options == BoostOptions \ {OffOption}

Plan(opt) == PlanBoost(opt.mode, opt.minutes, now, tou, TRUE)

AsSlots(slot) == [[i \in SlotIndex |-> NoSlot] EXCEPT ![boostSlot] = slot]

WithTariff(slot) ==
  [i \in SlotIndex |-> IF i = boostSlot THEN slot ELSE ToUSlots(tou)[i]]

Image(slots) == [a \in AllSlotRegs |-> slotValue(slots, a)]

-----------------------------------------------------------------------------
\* PlanBoost ends a boost on the quarter-hour grid, after more than
\* minutes - 15 and at most minutes, and refuses exactly the boosts that reach
\* midnight or share a minute with the asserted tariff, wherever it crosses
\* midnight.
PlanIsExact ==
  \A opt \in Options :
    LET end == CHOOSE e \in now + opt.minutes - boostStep + 1 .. now + opt.minutes :
                 e % boostStep = 0
        plan == Plan(opt)
    IN IF end >= minutesPerDay \/ \E m \in now .. end - 1 : Covers(tou, m)
       THEN plan.err # ""
       ELSE /\ plan.err = ""
            /\ plan.slot = [NoSlot EXCEPT ![opt.mode] =
                              [Start |-> clockAt(now), End |-> clockAt(end)]]

\* The select shows the option that was chosen, for as long as its window is in
\* the registers (BoostSelectState of what PlanBoost wrote).
SelectShowsChoice ==
  \A opt \in Options :
    Plan(opt).err = "" => BoostSelectState(AsSlots(Plan(opt).slot)) = opt

\* The two slots a tariff is split into never cross midnight, cover exactly the
\* minutes of the tariff, and are rejoined to it (ToUSlots and ToU).
TariffSplitIsExact ==
  LET split == ToUSlots(tou)
  IN /\ Covers(tou, now) <=>
          \E i \in 0 .. 1 :
            LET w == split[i]["Charge"]
            IN ~IsZero(w) /\ minuteOfDay(w.Start) <= now /\ now < endMinuteOfDay(w.End)
     /\ ToU(WithTariff(NoSlot)) = [window |-> tou, ok |-> TRUE]

\* The reconcile leaves a planned boost alone until the minute it ends, and
\* clears it from then on: a whole boost is never cut short nor extended.
BoostRunsItsWindow ==
  \A opt \in Options :
    LET plan == Plan(opt)
        end == boostEnd(now, opt.minutes)
    IN plan.err = "" =>
         \A m \in {now, end - 1, end, (end + 1) % minutesPerDay, 0, minutesPerDay - 1} :
           LET held == WithTariff(plan.slot)
               desired == Desired(tou, TRUE, held, m)
           IN /\ now <= m /\ m < end => scheduleDiff(desired, held) = {}
              /\ ~(now <= m /\ m < end) => desired = WithTariff(NoSlot)

\* The registers written for a slot decode to that slot, and a boost that swaps
\* the direction of another is written clear first: at no point of the order of
\* TimedSlotWriteRegisters are both windows set.
WriteOrderClearsFirst ==
  \A opt \in Options :
    LET plan == Plan(opt)
        image == Image(AsSlots(plan.slot))
        other == CHOOSE d \in Directions : d # opt.mode
        old == Image(AsSlots([NoSlot EXCEPT ![other] = plan.slot[opt.mode]]))
        place(a) == writeRank(dischargeFirst(plan.slot), a)
        after(n) == [a \in AllSlotRegs |-> IF place(a) <= n THEN image[a] ELSE old[a]]
    IN plan.err = "" =>
         /\ DecodeTimedSlots(image) = AsSlots(plan.slot)
         /\ \A a, b \in SlotRegs(boostSlot) : place(a) = place(b) => a = b
         /\ \A a \in SlotRegs(boostSlot) :
              \E d \in Directions : IsZero(decodeTimedWindow(after(place(a)), boostSlot, d))
=============================================================================
