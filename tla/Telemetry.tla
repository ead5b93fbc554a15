----------------------------- MODULE Telemetry -----------------------------
(***************************************************************************)
(* Telemetry: the input registers as they are decoded into a reading       *)
(* (inverter/block.go, telemetry.go, bmsfault.go, status.go, workmode.go)  *)
(* and the reading as the keys of the state document (homeassistant/       *)
(* state.go).                                                              *)
(*                                                                         *)
(* A block is what one frame returned: the registers from base on, as many *)
(* as len, of the register image words.  A physical value n / per is the   *)
(* pair <<n, per>>.  Labels are the codes they stand for.  A local time is *)
(* its six fields, or the seconds since 2000 of a clock that is never put  *)
(* forward or back; the offset the document adds to it is left out.        *)
(***************************************************************************)
EXTENDS Integers, Sequences

\* The host's zone: the local times it skips, each with the length of its gap.
CONSTANT Gap

ASSUME ZoneAssumption == DOMAIN Gap \subseteq Int /\ \A w \in DOMAIN Gap : Gap[w] \in Nat

Word == 65536

-----------------------------------------------------------------------------
(* Blocks and snapshots.                                                   *)

contains(b, addr) == addr >= b.base /\ addr < b.base + b.len

\* The first block of the snapshot that contains the register.
holders(s, addr) == {i \in 1 .. Len(s) : contains(s[i], addr)}
block(s, addr) == s[CHOOSE i \in holders(s, addr) : \A j \in holders(s, addr) : i <= j]

\* count registers from addr on, all of them in the block of the first.
readable(s, addr, count) ==
  /\ holders(s, addr) # {}
  /\ contains(block(s, addr), addr + count - 1)

u16(s, addr) == block(s, addr).words[addr]

signed(w) == IF w >= Word \div 2 THEN w - Word ELSE w
s16(s, addr) == signed(u16(s, addr))

\* Mutant: only the low word.
u32LowWord(s, addr) == block(s, addr).words[addr + 1]

\* Two registers, the more significant word first.
u32(s, addr) ==
  block(s, addr).words[addr] * Word + block(s, addr).words[addr + 1]

s32(s, addr) ==
  signed(block(s, addr).words[addr]) * Word + block(s, addr).words[addr + 1]

-----------------------------------------------------------------------------
(* The readings: register, width and scale of each key.                    *)

Reading(reg, width, per) == [reg |-> reg, width |-> width, per |-> per]

BatteryReadings ==
  [battery_voltage |-> Reading(33133, "u16", 10),
   battery_current |-> Reading(33134, "s16_by_direction", 10),
   battery_power |-> Reading(33149, "s32_by_direction", 1),
   battery_soc |-> Reading(33139, "u16", 1),
   battery_soh |-> Reading(33140, "u16", 1),
   bms_voltage |-> Reading(33141, "u16", 100),
   bms_current |-> Reading(33142, "s16", 10),
   bms_charge_current_limit |-> Reading(33143, "u16", 10),
   bms_discharge_current_limit |-> Reading(33144, "u16", 10),
   overdischarge_soc |-> Reading(33213, "u16", 1),
   force_charge_soc |-> Reading(33214, "u16", 1)]

PowerReadings ==
  [pv1_voltage |-> Reading(33049, "u16", 10),
   pv1_current |-> Reading(33050, "u16", 10),
   pv2_voltage |-> Reading(33051, "u16", 10),
   pv2_current |-> Reading(33052, "u16", 10),
   pv_total_power |-> Reading(33057, "u32", 1),
   grid_power |-> Reading(33130, "s32", 1),
   ac_active_power |-> Reading(33079, "s32", 1),
   inverter_temperature |-> Reading(33093, "s16", 10),
   grid_frequency |-> Reading(33094, "u16", 100),
   house_load |-> Reading(33147, "u16", 1)]

EnergyReadings ==
  [grid_total_import |-> Reading(33169, "u32", 1),
   grid_import_today |-> Reading(33171, "u16", 10),
   grid_total_export |-> Reading(33173, "u32", 1),
   grid_export_today |-> Reading(33175, "u16", 10),
   generation_today |-> Reading(33035, "u16", 10),
   generation_yesterday |-> Reading(33036, "u16", 10),
   battery_total_charge |-> Reading(33161, "u32", 1),
   battery_charge_today |-> Reading(33163, "u16", 10),
   battery_total_discharge |-> Reading(33165, "u32", 1),
   battery_discharge_today |-> Reading(33167, "u16", 10)]

\* The registers that are published as they are, or decoded bit by bit.
SystemReadings ==
  [status |-> Reading(33095, "u16", 1),
   operating_status |-> Reading(33121, "u16", 1),
   work_mode |-> Reading(33132, "u16", 1),
   bms_fault_1 |-> Reading(33145, "u16", 1),
   bms_fault_2 |-> Reading(33146, "u16", 1)]

Merge(f, g) ==
  [k \in DOMAIN f \cup DOMAIN g |-> IF k \in DOMAIN f THEN f[k] ELSE g[k]]

Readings ==
  Merge(Merge(BatteryReadings, PowerReadings), Merge(EnergyReadings, SystemReadings))

RegBatteryDirection == 33135
RegRTCRead == 33022
rtcRegisterCount == 6
rtcEpochYear == 2000

wordsOf(r) == IF r.width \in {"u32", "s32", "s32_by_direction"} THEN 2 ELSE 1

-----------------------------------------------------------------------------
(* time.Date in time.Local, over the six fields of a local time.           *)

leap(year) == year % 4 = 0 /\ (year % 100 # 0 \/ year % 400 = 0)

\* The days before a year that is counted from 2000, and the days of it before
\* a month that is counted from 0; month 12 is the year after.
yearDays(y) == 365 * y + ((y + 3) \div 4) - ((y + 99) \div 100) + ((y + 399) \div 400)
monthDays(y, m) ==
  <<0, 31, 59, 90, 120, 151, 181, 212, 243, 273, 304, 334, 365>>[m + 1]
    + IF m >= 2 /\ leap(y) THEN 1 ELSE 0

\* Fields out of their range are carried into the next one.
secondsOf(f) ==
  LET months == 12 * (f[1] - rtcEpochYear) + f[2] - 1
      year == months \div 12
      day == yearDays(year) + monthDays(year, months % 12) + f[3] - 1
  IN 60 * (60 * (24 * day + f[4]) + f[5]) + f[6]

\* The year of a day, and in it the month of a day of the year.
yearOf(d) == CHOOSE y \in -2 .. (d \div 365) + 1 : yearDays(y) <= d /\ d < yearDays(y + 1)
monthOf(y, d) == CHOOSE m \in 0 .. 11 : monthDays(y, m) <= d /\ d < monthDays(y, m + 1)

\* The fields of so many seconds, none of which is out of its range.
fieldsOf(n) ==
  LET second == n % 86400
      year == yearOf(n \div 86400)
      day == (n \div 86400) - yearDays(year)
      month == monthOf(year, day)
  IN <<year + rtcEpochYear, month + 1, day - monthDays(year, month) + 1,
       second \div 3600, (second \div 60) % 60, second % 60>>

\* The local times time.Date may return: one that is skipped is taken with the
\* offset before or after the gap, it does not say which.
Date(f) ==
  LET n == secondsOf(f)
  IN IF n \in DOMAIN Gap THEN {fieldsOf(n - Gap[n]), fieldsOf(n + Gap[n])} ELSE {fieldsOf(n)}

-----------------------------------------------------------------------------
(* DecodeTelemetry.                                                        *)

\* Mutant: the sign of the register decides.
signedByRegister(v, charging) == v

\* The registers hold a magnitude, the direction flag its sign.
signedByDirection(v, charging) ==
  LET magnitude == IF v < 0 THEN -v ELSE v
  IN IF charging THEN magnitude ELSE -magnitude

charging(s) == u16(s, RegBatteryDirection) = 0

value(s, r) ==
  CASE r.width = "u16" -> u16(s, r.reg)
    [] r.width = "s16" -> s16(s, r.reg)
    [] r.width = "u32" -> u32(s, r.reg)
    [] r.width = "s32" -> s32(s, r.reg)
    [] r.width = "s16_by_direction" -> signedByDirection(s16(s, r.reg), charging(s))
    [] r.width = "s32_by_direction" -> signedByDirection(s32(s, r.reg), charging(s))

DecodeRTC(s) ==
  Date([i \in 1 .. rtcRegisterCount |->
          u16(s, RegRTCRead + i - 1) + IF i = 1 THEN rtcEpochYear ELSE 0])

\* One register that is missing fails the whole decode.
decodable(s) ==
  /\ readable(s, RegRTCRead, rtcRegisterCount)
  /\ readable(s, RegBatteryDirection, 1)
  /\ \A k \in DOMAIN Readings : readable(s, Readings[k].reg, wordsOf(Readings[k]))

\* The readings of a decodable snapshot, one for each time the clock may mean.
DecodeTelemetry(s) ==
  {[value |-> [k \in DOMAIN Readings |-> <<value(s, Readings[k]), Readings[k].per>>],
    charging |-> charging(s),
    rtc |-> rtc] : rtc \in DecodeRTC(s)}

-----------------------------------------------------------------------------
(* BuildState.                                                             *)

bit(w, i) == (w \div 2^i) % 2 = 1

\* The fault bits: the word, and the bit of it.
FaultBits ==
  [bms_over_voltage |-> <<"bms_fault_1", 1>>,
   bms_under_voltage |-> <<"bms_fault_1", 2>>,
   bms_over_temp |-> <<"bms_fault_1", 3>>,
   bms_under_temp |-> <<"bms_fault_1", 4>>,
   bms_charge_over_temp |-> <<"bms_fault_1", 5>>,
   bms_charge_under_temp |-> <<"bms_fault_1", 6>>,
   bms_discharge_over_current |-> <<"bms_fault_1", 7>>,
   bms_charge_over_current |-> <<"bms_fault_2", 0>>,
   bms_internal_protection |-> <<"bms_fault_2", 3>>,
   bms_module_unbalanced |-> <<"bms_fault_2", 4>>]

\* The codes with a text; any other is shown in hexadecimal.
statusLabels ==
  (0 .. 6) \cup {15, 4100} \cup 4112 .. 4121 \cup 4128 .. 4137 \cup 4144 .. 4154
    \cup 4160 .. 4168 \cup 4176 .. 4184 \cup (8208 .. 8217 \ {8211})
    \cup {8224, 8225, 61456, 61457}

StatusLabel(code) == IF code \in statusLabels THEN <<"label", code>> ELSE <<"hex", code>>

\* Self use covers the other two flags; without any flag the word itself.
workModeLabel(w) ==
  IF bit(w, 0) THEN <<"Self Use">>
  ELSE LET flags == (IF bit(w, 1) THEN <<"timed">> ELSE <<>>)
                      \o (IF bit(w, 5) THEN <<"allow_grid_charge">> ELSE <<>>)
       IN IF flags = <<>> THEN <<"raw", w>> ELSE flags

positive(n) == IF n > 0 THEN n ELSE 0

\* The two unsigned halves of the signed power.
splitBatteryPower(p) == [charge |-> positive(p), discharge |-> positive(-p)]

\* What Schedule and Scheduler say of the setpoints; here they are keys.
SetpointKeys ==
  {"tou_window", "boost", "boost_ends_at", "boost_select", "set_charge_current",
   "set_discharge_current", "inverter_max_charge_current",
   "inverter_max_discharge_current", "optimal_income"}

BuildState(t) ==
  LET n(k) == t.value[k][1]
      half == splitBatteryPower(n("battery_power"))
  IN Merge([battery_charge_power |-> <<half.charge, 1>>,
            battery_discharge_power |-> <<half.discharge, 1>>,
            battery_charging |-> t.charging,
            status_text |-> StatusLabel(n("status")),
            work_mode |-> workModeLabel(n("work_mode")),
            rtc |-> t.rtc,
            rtc_drift |-> "drift"],
     Merge([k \in DOMAIN FaultBits |-> bit(n(FaultBits[k][1]), FaultBits[k][2])],
     Merge([k \in SetpointKeys |-> "setpoint"], t.value)))
=============================================================================
