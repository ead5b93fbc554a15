-------------------------- MODULE DocumentsProofs --------------------------
(***************************************************************************)
(* Theorems about Documents, for every set of environments, measurements,  *)
(* clock readings and codes that the registers can hold.                   *)
(***************************************************************************)
EXTENDS Documents, TLAPS

-----------------------------------------------------------------------------
(* Words: what input splits, u32, s32 and signedByDirection put together.  *)

LEMMA WordFacts ==
  /\ Word \in Nat /\ Word > 0
  /\ Word \div 2 \in Nat /\ Word = 2 * (Word \div 2)
BY SMT DEF Word

LEMMA WordSplit ==
  ASSUME NEW v \in Int
  PROVE  /\ v = (v \div Word) * Word + low(v)
         /\ low(v) \in 0 .. Word - 1
         /\ v \div Word \in Int
BY SMT DEF Word, low

LEMMA UnsignedWord ==
  ASSUME NEW d \in Int, 0 <= d, d < Word
  PROVE  d % Word = d
<1> DEFINE q == d \div Word
           r == d % Word
<1>1. d = q * Word + r /\ 0 <= r /\ r < Word /\ q \in Int /\ r \in Int
  BY WordSplit, WordFacts DEF low
<1> HIDE DEF q, r
<1>2. r = d
  BY <1>1, SMT DEF Word
<1> QED
  BY <1>2 DEF r

LEMMA SignedWord ==
  ASSUME NEW d \in Int, -(Word \div 2) <= d, d < Word \div 2
  PROVE  signed(d % Word) = d
<1> DEFINE q == d \div Word
           r == d % Word
<1>1. d = q * Word + r /\ 0 <= r /\ r < Word /\ q \in Int /\ r \in Int
  BY WordSplit, WordFacts DEF low
<1> HIDE DEF q, r
<1>2. signed(r) = d
  BY <1>1, SMT DEF signed, Word
<1> QED
  BY <1>2 DEF r

LEMMA UnsignedJoins ==
  ASSUME NEW v \in Nat, v \div Word < Word
  PROVE  high(v) * Word + low(v) = v
<1>1. 0 <= v \div Word /\ v \div Word \in Int
  BY SMT DEF Word
<1>2. high(v) = v \div Word
  BY <1>1, UnsignedWord DEF high
<1> QED
  BY <1>1, <1>2, WordSplit

LEMMA SignedJoins ==
  ASSUME NEW v \in Int, v \div Word \in -(Word \div 2) .. (Word \div 2) - 1
  PROVE  signed(high(v)) * Word + low(v) = v
<1>1. v \div Word \in Int
  BY WordSplit
<1>2. -(Word \div 2) <= v \div Word /\ v \div Word < Word \div 2
  BY <1>1, WordFacts
<1>3. signed(high(v)) = v \div Word
  BY <1>1, <1>2, SignedWord DEF high
<1> QED
  BY <1>3, WordSplit

LEMMA MagnitudeFits ==
  ASSUME NEW b \in Int, current(b) < Word \div 2
  PROVE  /\ magnitude(b) \in Nat
         /\ magnitude(b) \div Word \in 0 .. 2
         /\ current(b) \in 0 .. (Word \div 2) - 1
<1>1. magnitude(b) \in Nat
  BY DEF magnitude
<1>2. ASSUME NEW m \in Nat, m \div 5 < Word \div 2
      PROVE  m \div 5 \in 0 .. (Word \div 2) - 1 /\ m < 5 * (Word \div 2)
  BY <1>2, WordFacts, SMT
<1>3. ASSUME NEW m \in Nat, m < 5 * (Word \div 2)
      PROVE  m \div Word \in 0 .. 2
  BY <1>3, SMT DEF Word
<1> QED
  <2> DEFINE m == magnitude(b)
  <2>1. m \in Nat /\ m \div 5 < Word \div 2
    BY <1>1 DEF current
  <2>2. current(b) = m \div 5
    BY DEF current
  <2> HIDE DEF m
  <2>3. m \div 5 \in 0 .. (Word \div 2) - 1 /\ m < 5 * (Word \div 2)
    BY <2>1, <1>2
  <2>4. m \div Word \in 0 .. 2
    BY <2>1, <2>3, <1>3
  <2> QED
    BY <2>1, <2>2, <2>3, <2>4 DEF m

LEMMA ByDirection ==
  ASSUME NEW v \in Nat, NEW flag
  PROVE  signedByDirection(v, flag) = IF flag THEN v ELSE -v
<1>1. ~(v < 0)
  OBVIOUS
<1> QED
  BY <1>1, Zenon DEF signedByDirection

\* The magnitude and the direction flag give the measurement back.
LEMMA DirectionRestores ==
  ASSUME NEW b \in Int, current(b) < Word \div 2, NEW flag, flag = (b >= 0)
  PROVE  /\ signedByDirection(signed(high(magnitude(b))) * Word + low(magnitude(b)), flag) = b
         /\ signedByDirection(signed(current(b)), flag)
              = IF b < 0 THEN -current(b) ELSE current(b)
<1>1. /\ magnitude(b) \in Nat
      /\ magnitude(b) \div Word \in 0 .. 2
      /\ current(b) \in 0 .. (Word \div 2) - 1
  BY MagnitudeFits
<1>2. magnitude(b) \div Word \in -(Word \div 2) .. (Word \div 2) - 1
  <2>1. Word \div 2 > 2
    BY SMT DEF Word
  <2> QED
    BY <1>1, <2>1, WordFacts
<1>3. signed(high(magnitude(b))) * Word + low(magnitude(b)) = magnitude(b)
  BY <1>1, <1>2, SignedJoins
<1>4. signedByDirection(magnitude(b), flag) = b
  <2>1. signedByDirection(magnitude(b), flag) = IF b >= 0 THEN magnitude(b) ELSE -magnitude(b)
    BY <1>1, ByDirection, Zenon
  <2> QED
    BY <2>1 DEF magnitude
<1>5. signed(current(b)) = current(b)
  BY <1>1, WordFacts DEF signed
<1>6. signedByDirection(current(b), flag) = IF b < 0 THEN -current(b) ELSE current(b)
  <2>1. current(b) \in Nat
    BY <1>1
  <2>2. signedByDirection(current(b), flag) = IF b >= 0 THEN current(b) ELSE -current(b)
    BY <2>1, ByDirection, Zenon
  <2> QED
    BY <2>1, <2>2
<1> QED
  BY <1>3, <1>4, <1>5, <1>6

-----------------------------------------------------------------------------
(* The input registers.                                                    *)

LEMMA InBank ==
  ASSUME NEW a \in Int, 33022 <= a, a <= 33214
  PROVE  a \in InputBank
BY SMT DEF InputBank

LEMMA InputWords ==
  ASSUME NEW p \in Plants
  PROVE  /\ input(p)[33022] = Clocks[p.clock][1] - rtcEpochYear
         /\ \A a \in 33023 .. 33027 : input(p)[a] = Clocks[p.clock][a - 33021]
         /\ input(p)[33130] = high(p.grid)
         /\ input(p)[33131] = low(p.grid)
         /\ input(p)[33134] = current(p.battery)
         /\ input(p)[33135] = IF p.battery < 0 THEN 1 ELSE 0
         /\ input(p)[33149] = high(magnitude(p.battery))
         /\ input(p)[33150] = low(magnitude(p.battery))
         /\ input(p)[33169] = high(p.import)
         /\ input(p)[33170] = low(p.import)
         /\ \A a \in {33095, 33132, 33145, 33146} : input(p)[a] = p.code
BY InBank, SMT DEF input

LEMMA PlantTypes ==
  ASSUME NEW p \in Plants
  PROVE  /\ p.battery \in Int /\ current(p.battery) < Word \div 2
         /\ p.grid \in Int /\ p.grid \div Word \in -(Word \div 2) .. (Word \div 2) - 1
         /\ p.import \in Nat /\ p.import \div Word < Word
         /\ p.code \in Int
         /\ Clocks[p.clock] \in [1 .. rtcRegisterCount -> Nat]
         /\ Clocks[p.clock][1] >= rtcEpochYear
<1>1. /\ p.battery \in Batteries /\ p.grid \in Grids /\ p.import \in Imports
      /\ p.code \in Codes /\ p.clock \in 1 .. Len(Clocks)
  BY DEF Plants
<1>2. Clocks[p.clock] \in [1 .. rtcRegisterCount -> Nat]
  <2> DEFINE C == [1 .. rtcRegisterCount -> Nat]
  <2>1. Clocks \in Seq(C)
    BY PlantAssumption DEF PlantAssumption
  <2> HIDE DEF C
  <2>2. Clocks[p.clock] \in C
    BY <1>1, <2>1
  <2> QED
    BY <2>2 DEF C
<1>3. p.battery \in Int /\ current(p.battery) < Word \div 2
  BY <1>1, PlantAssumption, Zenon DEF PlantAssumption
<1>4. p.grid \in Int /\ p.grid \div Word \in -(Word \div 2) .. (Word \div 2) - 1
  BY <1>1, PlantAssumption, Zenon DEF PlantAssumption
<1>5. p.import \in Nat /\ p.import \div Word < Word
  BY <1>1, PlantAssumption, Zenon DEF PlantAssumption
<1>6. p.code \in Int
  <2>1. p.code \in 0 .. Word - 1
    BY <1>1, PlantAssumption, Zenon DEF PlantAssumption
  <2> QED
    BY <2>1, WordFacts
<1>7. Clocks[p.clock][1] >= rtcEpochYear
  <2>1. DOMAIN Clocks = 1 .. Len(Clocks)
    BY PlantAssumption DEF PlantAssumption
  <2> QED
    BY <1>1, <2>1, PlantAssumption, Zenon DEF PlantAssumption
<1> QED
  BY <1>2, <1>3, <1>4, <1>5, <1>6, <1>7

LEMMA InputType ==
  ASSUME NEW p \in Plants
  PROVE  input(p) \in [InputBank -> Int]
<1> DEFINE c == Clocks[p.clock]
<1>1. c \in [1 .. 6 -> Nat]
  BY PlantTypes DEF rtcRegisterCount
<1>2. \A v \in Int : high(v) \in Int /\ low(v) \in Int
  BY SMT DEF high, low, Word
<1>3. magnitude(p.battery) \in Int /\ current(p.battery) \in Int
  BY PlantTypes, MagnitudeFits
<1>4. rtcEpochYear \in Int
  BY DEF rtcEpochYear
<1>5. /\ p.battery \in Int /\ p.grid \in Int /\ p.import \in Int /\ p.code \in Int
  BY PlantTypes
<1> HIDE DEF c
<1> SUFFICES ASSUME NEW a \in InputBank
             PROVE  input(p)[a] \in Int
  BY DEF input
<1>6. a \in Int
  BY DEF InputBank
<1>7. c[1] - rtcEpochYear \in Int
  BY <1>1, <1>4
<1>8. a \in 33023 .. 33027 => c[a - 33021] \in Int
  BY <1>1, <1>6
<1> QED
  BY <1>2, <1>3, <1>5, <1>6, <1>7, <1>8 DEF input, c

-----------------------------------------------------------------------------
(* The readings.                                                           *)

LEMMA MergeLooksUp ==
  ASSUME NEW f, NEW g
  PROVE  /\ DOMAIN Merge(f, g) = DOMAIN f \cup DOMAIN g
         /\ \A k \in DOMAIN f : Merge(f, g)[k] = f[k]
         /\ \A k \in DOMAIN g \ DOMAIN f : Merge(f, g)[k] = g[k]
BY DEF Merge

BatteryKeys ==
  {"battery_voltage", "battery_current", "battery_power", "battery_soc", "battery_soh",
   "bms_voltage", "bms_current", "bms_charge_current_limit",
   "bms_discharge_current_limit", "overdischarge_soc", "force_charge_soc"}
PowerKeys ==
  {"pv1_voltage", "pv1_current", "pv2_voltage", "pv2_current", "pv_total_power",
   "grid_power", "ac_active_power", "inverter_temperature", "grid_frequency",
   "house_load"}
EnergyKeys ==
  {"grid_total_import", "grid_import_today", "grid_total_export",
   "grid_export_today", "generation_today", "generation_yesterday",
   "battery_total_charge", "battery_charge_today", "battery_total_discharge",
   "battery_discharge_today"}
SystemKeys ==
  {"status", "operating_status", "work_mode", "bms_fault_1", "bms_fault_2"}

ReadingKeys == BatteryKeys \cup PowerKeys \cup EnergyKeys \cup SystemKeys

LEMMA ReadingDomains ==
  /\ DOMAIN BatteryReadings = BatteryKeys
  /\ DOMAIN PowerReadings = PowerKeys
  /\ DOMAIN EnergyReadings = EnergyKeys
  /\ DOMAIN SystemReadings = SystemKeys
  /\ DOMAIN Readings = ReadingKeys
<1>1. DOMAIN BatteryReadings = BatteryKeys
  BY DEF BatteryReadings, BatteryKeys
<1>2. DOMAIN PowerReadings = PowerKeys
  BY DEF PowerReadings, PowerKeys
<1>3. DOMAIN EnergyReadings = EnergyKeys
  BY DEF EnergyReadings, EnergyKeys
<1>4. DOMAIN SystemReadings = SystemKeys
  BY DEF SystemReadings, SystemKeys
<1>5. DOMAIN Readings = ReadingKeys
  <2>1. DOMAIN Readings = DOMAIN Merge(BatteryReadings, PowerReadings)
                            \cup DOMAIN Merge(EnergyReadings, SystemReadings)
    BY MergeLooksUp DEF Readings
  <2>2. DOMAIN Merge(BatteryReadings, PowerReadings) = BatteryKeys \cup PowerKeys
    BY <1>1, <1>2, MergeLooksUp
  <2>3. DOMAIN Merge(EnergyReadings, SystemReadings) = EnergyKeys \cup SystemKeys
    BY <1>3, <1>4, MergeLooksUp
  <2> QED
    BY <2>1, <2>2, <2>3 DEF ReadingKeys
<1> QED
  BY <1>1, <1>2, <1>3, <1>4, <1>5

LEMMA ReadingOf ==
  /\ Readings["battery_current"] = Reading(33134, "s16_by_direction", 10)
  /\ Readings["battery_power"] = Reading(33149, "s32_by_direction", 1)
  /\ Readings["force_charge_soc"] = Reading(33214, "u16", 1)
  /\ Readings["grid_power"] = Reading(33130, "s32", 1)
  /\ Readings["grid_total_import"] = Reading(33169, "u32", 1)
  /\ Readings["status"] = Reading(33095, "u16", 1)
  /\ Readings["operating_status"] = Reading(33121, "u16", 1)
  /\ Readings["work_mode"] = Reading(33132, "u16", 1)
  /\ Readings["bms_fault_1"] = Reading(33145, "u16", 1)
  /\ Readings["bms_fault_2"] = Reading(33146, "u16", 1)
<1> DEFINE F == Merge(BatteryReadings, PowerReadings)
           G == Merge(EnergyReadings, SystemReadings)
<1>a. DOMAIN F = BatteryKeys \cup PowerKeys /\ DOMAIN G = EnergyKeys \cup SystemKeys
  BY ReadingDomains, MergeLooksUp
<1>b. /\ \A k \in DOMAIN F : Readings[k] = F[k]
      /\ \A k \in DOMAIN G \ DOMAIN F : Readings[k] = G[k]
  <2>1. Readings = Merge(F, G)
    BY DEF Readings
  <2> HIDE DEF F, G
  <2> QED
    BY <2>1 DEF Merge
<1>c. /\ BatteryKeys \cap PowerKeys = {}
      /\ EnergyKeys \cap (BatteryKeys \cup PowerKeys) = {}
      /\ SystemKeys \cap (BatteryKeys \cup PowerKeys) = {}
      /\ SystemKeys \cap EnergyKeys = {}
  BY DEF BatteryKeys, PowerKeys, EnergyKeys, SystemKeys
<1>1. \A k \in BatteryKeys : Readings[k] = BatteryReadings[k]
  <2>1. \A k \in BatteryKeys : F[k] = BatteryReadings[k]
    BY ReadingDomains, MergeLooksUp
  <2> HIDE DEF F, G
  <2> QED
    BY <2>1, <1>a, <1>b
<1>2. \A k \in PowerKeys : Readings[k] = PowerReadings[k]
  <2>1. \A k \in PowerKeys : F[k] = PowerReadings[k]
    BY <1>c, ReadingDomains DEF Merge
  <2> HIDE DEF F, G
  <2> QED
    BY <2>1, <1>a, <1>b
<1>3. \A k \in EnergyKeys : Readings[k] = EnergyReadings[k]
  <2>1. \A k \in EnergyKeys : G[k] = EnergyReadings[k]
    BY ReadingDomains, MergeLooksUp
  <2> HIDE DEF F, G
  <2> QED
    BY <2>1, <1>a, <1>b, <1>c
<1>4. \A k \in SystemKeys : Readings[k] = SystemReadings[k]
  <2>1. \A k \in SystemKeys : G[k] = SystemReadings[k]
    BY <1>c, ReadingDomains DEF Merge
  <2> HIDE DEF F, G
  <2> QED
    BY <2>1, <1>a, <1>b, <1>c
<1> HIDE DEF F, G
<1>5. /\ Readings["battery_current"] = Reading(33134, "s16_by_direction", 10)
      /\ Readings["battery_power"] = Reading(33149, "s32_by_direction", 1)
      /\ Readings["force_charge_soc"] = Reading(33214, "u16", 1)
  BY <1>1 DEF BatteryReadings, BatteryKeys
<1>6. Readings["grid_power"] = Reading(33130, "s32", 1)
  BY <1>2 DEF PowerReadings, PowerKeys
<1>7. Readings["grid_total_import"] = Reading(33169, "u32", 1)
  BY <1>3 DEF EnergyReadings, EnergyKeys
<1>8. /\ Readings["status"] = Reading(33095, "u16", 1)
      /\ Readings["operating_status"] = Reading(33121, "u16", 1)
      /\ Readings["work_mode"] = Reading(33132, "u16", 1)
      /\ Readings["bms_fault_1"] = Reading(33145, "u16", 1)
      /\ Readings["bms_fault_2"] = Reading(33146, "u16", 1)
  BY <1>4 DEF SystemReadings, SystemKeys
<1> QED
  BY <1>5, <1>6, <1>7, <1>8

-----------------------------------------------------------------------------
(* The snapshot.                                                           *)

\* Two frames of the two blocks, each at most as long as what was asked for.
TwoFrames(s) ==
  /\ Len(s) = 2
  /\ s[1].base = 33022 /\ s[1].len \in Nat /\ s[1].len <= 100
  /\ s[2].base = 33122 /\ s[2].len \in Nat /\ s[2].len <= 93

\* Of two frames a register can only be in the one of its block.
LEMMA HoldersOf ==
  ASSUME NEW s, TwoFrames(s), NEW a \in Int
  PROVE  /\ a < 33122 => holders(s, a) \subseteq {1}
         /\ a >= 33122 => holders(s, a) \subseteq {2}
         /\ 1 \in holders(s, a) <=> 33022 <= a /\ a < 33022 + s[1].len
         /\ 2 \in holders(s, a) <=> 33122 <= a /\ a < 33122 + s[2].len
<1>1. holders(s, a) = {i \in {1, 2} : a >= s[i].base /\ a < s[i].base + s[i].len}
  BY DEF holders, contains, TwoFrames
<1> QED
  BY <1>1 DEF TwoFrames

\* No register of a short frame can be missed: the last register of each block
\* is one of the readings.
LEMMA FramesFull ==
  ASSUME NEW s, TwoFrames(s), decodable(s)
  PROVE  s[1].len = 100 /\ s[2].len = 93
<1>1. readable(s, 33121, 1) /\ readable(s, 33214, 1)
  <2>1. {"operating_status", "force_charge_soc"} \subseteq DOMAIN Readings
    BY ReadingDomains DEF ReadingKeys, BatteryKeys, SystemKeys
  <2>2. /\ Readings["operating_status"].reg = 33121
        /\ wordsOf(Readings["operating_status"]) = 1
        /\ Readings["force_charge_soc"].reg = 33214
        /\ wordsOf(Readings["force_charge_soc"]) = 1
    BY ReadingOf, SMT DEF Reading, wordsOf
  <2> QED
    BY <2>1, <2>2 DEF decodable
<1>2. holders(s, 33121) # {} /\ holders(s, 33214) # {}
  BY <1>1 DEF readable
<1>3. 1 \in holders(s, 33121) /\ 2 \in holders(s, 33214)
  BY <1>2, HoldersOf
<1>4. 33121 < 33022 + s[1].len /\ 33214 < 33122 + s[2].len
  BY <1>3, HoldersOf
<1> QED
  BY <1>4 DEF TwoFrames

LEMMA BlockOf ==
  ASSUME NEW s, TwoFrames(s), decodable(s), NEW a \in Int
  PROVE  /\ 33022 <= a /\ a < 33122 => block(s, a) = s[1]
         /\ 33122 <= a /\ a <= 33214 => block(s, a) = s[2]
<1>1. 33022 <= a /\ a < 33122 => holders(s, a) = {1}
  BY HoldersOf, FramesFull
<1>2. 33122 <= a /\ a <= 33214 => holders(s, a) = {2}
  BY HoldersOf, FramesFull
<1> QED
  BY <1>1, <1>2 DEF block

-----------------------------------------------------------------------------
(* What is decoded is what was measured.                                   *)

LEMMA DecodedWords ==
  ASSUME NEW s, TwoFrames(s), decodable(s), NEW p, NEW q,
         s[1].words = input(p), s[2].words = input(q), NEW a \in Int
  PROVE  /\ 33022 <= a /\ a < 33122 => u16(s, a) = input(p)[a]
         /\ 33122 <= a /\ a <= 33214 =>
              /\ u16(s, a) = input(q)[a]
              /\ u32(s, a) = input(q)[a] * Word + input(q)[a + 1]
              /\ s32(s, a) = signed(input(q)[a]) * Word + input(q)[a + 1]
BY BlockOf DEF u16, u32, s32

LEMMA ChargingIsSign ==
  ASSUME NEW s, TwoFrames(s), decodable(s), NEW p \in Plants, NEW q \in Plants,
         s[1].words = input(p), s[2].words = input(q)
  PROVE  charging(s) = (q.battery >= 0)
<1>1. u16(s, 33135) = IF q.battery < 0 THEN 1 ELSE 0
  BY DecodedWords, InputWords
<1>2. q.battery \in Int
  BY PlantTypes
<1>3. (u16(s, 33135) = 0) <=> (q.battery >= 0)
  BY <1>1, <1>2
<1> QED
  BY <1>3 DEF charging, RegBatteryDirection

LEMMA DecodedClock ==
  ASSUME NEW s, TwoFrames(s), decodable(s), NEW p \in Plants, NEW q \in Plants,
         s[1].words = input(p), s[2].words = input(q)
  PROVE  DecodeRTC(s) = Date(Clocks[p.clock])
<1> DEFINE c == Clocks[p.clock]
<1>1. c \in [1 .. 6 -> Nat]
  BY PlantTypes DEF rtcRegisterCount
<1>2. \A i \in 1 .. 6 : u16(s, 33022 + i - 1) = input(p)[33022 + i - 1]
  BY DecodedWords
<1>3. /\ input(p)[33022] = c[1] - 2000
      /\ \A a \in 33023 .. 33027 : input(p)[a] = c[a - 33021]
  BY InputWords DEF rtcEpochYear
<1> HIDE DEF c
<1>4. \A i \in 1 .. 6 : u16(s, 33022 + i - 1) + (IF i = 1 THEN 2000 ELSE 0) = c[i]
  <2> SUFFICES ASSUME NEW i \in 1 .. 6
               PROVE  u16(s, 33022 + i - 1) + (IF i = 1 THEN 2000 ELSE 0) = c[i]
    OBVIOUS
  <2>1. CASE i = 1
    BY <1>1, <1>2, <1>3, <2>1
  <2>2. CASE i # 1
    <3>1. 33022 + i - 1 \in 33023 .. 33027 /\ 33022 + i - 1 - 33021 = i
      BY <2>2
    <3> QED
      BY <1>1, <1>2, <1>3, <2>2, <3>1
  <2> QED
    BY <2>1, <2>2
<1>5. [i \in 1 .. rtcRegisterCount |->
         u16(s, RegRTCRead + i - 1) + IF i = 1 THEN rtcEpochYear ELSE 0] = c
  BY <1>1, <1>4 DEF RegRTCRead, rtcRegisterCount, rtcEpochYear
<1> QED
  BY <1>5, Zenon DEF DecodeRTC, c


-----------------------------------------------------------------------------
(* The calendar.                                                           *)

LEMMA YearLength ==
  ASSUME NEW y \in Int
  PROVE  /\ yearDays(y) \in Int
         /\ yearDays(y + 1) = yearDays(y) + (IF leap(y) THEN 366 ELSE 365)
BY SMT DEF yearDays, leap

LEMMA YearOrder ==
  ASSUME NEW y \in Int, NEW z \in Int, y < z
  PROVE  yearDays(y + 1) <= yearDays(z)
BY SMT DEF yearDays

LEMMA YearAfter ==
  ASSUME NEW y \in Nat
  PROVE  365 * y <= yearDays(y)
BY SMT DEF yearDays

LEMMA MonthTable ==
  ASSUME NEW y
  PROVE  /\ monthDays(y, 0) = 0
         /\ monthDays(y, 1) = 31
         /\ leap(y) => /\ monthDays(y, 2) = 60 /\ monthDays(y, 3) = 91
                       /\ monthDays(y, 4) = 121 /\ monthDays(y, 5) = 152
                       /\ monthDays(y, 6) = 182 /\ monthDays(y, 7) = 213
                       /\ monthDays(y, 8) = 244 /\ monthDays(y, 9) = 274
                       /\ monthDays(y, 10) = 305 /\ monthDays(y, 11) = 335
                       /\ monthDays(y, 12) = 366
         /\ ~leap(y) => /\ monthDays(y, 2) = 59 /\ monthDays(y, 3) = 90
                        /\ monthDays(y, 4) = 120 /\ monthDays(y, 5) = 151
                        /\ monthDays(y, 6) = 181 /\ monthDays(y, 7) = 212
                        /\ monthDays(y, 8) = 243 /\ monthDays(y, 9) = 273
                        /\ monthDays(y, 10) = 304 /\ monthDays(y, 11) = 334
                        /\ monthDays(y, 12) = 365
BY DEF monthDays

LEMMA MonthOrder ==
  ASSUME NEW y \in Int, NEW m \in 0 .. 11
  PROVE  /\ monthDays(y, m) \in Int /\ monthDays(y, m + 1) \in Int
         /\ 0 <= monthDays(y, m) /\ monthDays(y, m) < monthDays(y, m + 1)
         /\ monthDays(y, m + 1) <= IF leap(y) THEN 366 ELSE 365
         /\ \A k \in 0 .. 11 : m < k => monthDays(y, m + 1) <= monthDays(y, k)
<1>1. m \in {0, 1, 2, 3, 4, 5, 6, 7, 8, 9, 10, 11}
  BY SMT
<1>2. \A k \in 0 .. 11 : k \in {0, 1, 2, 3, 4, 5, 6, 7, 8, 9, 10, 11}
  BY SMT
<1>3. CASE leap(y)
  BY <1>1, <1>2, <1>3, MonthTable
<1>4. CASE ~leap(y)
  BY <1>1, <1>2, <1>4, MonthTable
<1> QED
  BY <1>3, <1>4

\* A day lies in one year, and in one month of it.
LEMMA OneYear ==
  ASSUME NEW d \in Int, NEW y \in Nat, yearDays(y) <= d, d < yearDays(y + 1)
  PROVE  yearOf(d) = y
<1>1. y \in -2 .. (d \div 365) + 1
  BY YearAfter, YearLength
<1>2. ASSUME NEW z \in -2 .. (d \div 365) + 1, yearDays(z) <= d, d < yearDays(z + 1)
      PROVE  z = y
  <2>1. z \in Int /\ z + 1 \in Int /\ y \in Int /\ y + 1 \in Int
    OBVIOUS
  <2>2. /\ yearDays(z) \in Int /\ yearDays(z + 1) \in Int
        /\ yearDays(y) \in Int /\ yearDays(y + 1) \in Int
    BY <2>1, YearLength
  <2>3. z < y => yearDays(z + 1) <= yearDays(y)
    BY <2>1, YearOrder
  <2>4. y < z => yearDays(y + 1) <= yearDays(z)
    BY <2>1, YearOrder
  <2> QED
    BY <1>2, <2>1, <2>2, <2>3, <2>4
<1> QED
  BY <1>1, <1>2, Zenon DEF yearOf

LEMMA OneMonth ==
  ASSUME NEW y \in Int, NEW d \in Int, NEW m \in 0 .. 11,
         monthDays(y, m) <= d, d < monthDays(y, m + 1)
  PROVE  monthOf(y, d) = m
<1>1. ASSUME NEW k \in 0 .. 11, monthDays(y, k) <= d, d < monthDays(y, k + 1)
      PROVE  k = m
  <2>1. /\ monthDays(y, k) \in Int /\ monthDays(y, k + 1) \in Int
        /\ monthDays(y, m) \in Int /\ monthDays(y, m + 1) \in Int
    BY MonthOrder
  <2>2. k < m => monthDays(y, k + 1) <= monthDays(y, m)
    BY MonthOrder
  <2>3. m < k => monthDays(y, m + 1) <= monthDays(y, k)
    BY MonthOrder
  <2> QED
    BY <1>1, <2>1, <2>2, <2>3
<1> QED
  BY <1>1, Zenon DEF monthOf

LEMMA DayOfSeconds ==
  ASSUME NEW d \in Int, NEW h \in 0 .. 23, NEW mi \in 0 .. 59, NEW sec \in 0 .. 59,
         NEW n \in Int, n = 60 * (60 * (24 * d + h) + mi) + sec
  PROVE  /\ n \div 86400 = d
         /\ (n % 86400) \div 3600 = h
         /\ ((n % 86400) \div 60) % 60 = mi
         /\ (n % 86400) % 60 = sec
BY SMT

\* Fields that are in their ranges come back as they are.
LEMMA FieldsComeBack ==
  ASSUME NEW f \in [1 .. 6 -> Nat], f[1] >= rtcEpochYear, isTime(f)
  PROVE  fieldsOf(secondsOf(f)) = f
<1> DEFINE y == f[1] - rtcEpochYear
           m == f[2] - 1
           months == 12 * (f[1] - rtcEpochYear) + f[2] - 1
           day == yearDays(y) + monthDays(y, m) + f[3] - 1
           n == 60 * (60 * (24 * day + f[4]) + f[5]) + f[6]
<1>1. /\ y \in Nat /\ y \in Int /\ m \in 0 .. 11
      /\ y + rtcEpochYear = f[1] /\ m + 1 = f[2]
      /\ f[3] \in Nat /\ f[4] \in 0 .. 23 /\ f[5] \in 0 .. 59 /\ f[6] \in 0 .. 59
  BY DEF rtcEpochYear, isTime
<1>2. months \div 12 = y /\ months % 12 = m
  BY <1>1 DEF rtcEpochYear
<1> HIDE DEF y, m
<1>3. /\ monthDays(y, m) \in Int /\ monthDays(y, m + 1) \in Int
      /\ 0 <= monthDays(y, m)
      /\ monthDays(y, m + 1) <= IF leap(y) THEN 366 ELSE 365
  BY <1>1, MonthOrder
<1>4. 1 <= f[3] /\ f[3] <= monthDays(y, m + 1) - monthDays(y, m)
  <2>1. f[3] \in 1 .. monthDays(f[1] - rtcEpochYear, f[2]) - monthDays(f[1] - rtcEpochYear, f[2] - 1)
    BY Zenon DEF isTime
  <2>2. f[3] \in 1 .. monthDays(y, m + 1) - monthDays(y, m)
    BY <1>1, <2>1, Zenon DEF y, m
  <2> QED
    BY <1>3, <2>2
<1>5. /\ yearDays(y) \in Int /\ yearDays(y + 1) \in Int
      /\ yearDays(y + 1) = yearDays(y) + (IF leap(y) THEN 366 ELSE 365)
  BY <1>1, YearLength
<1>6. /\ day \in Int /\ yearDays(y) <= day /\ day < yearDays(y + 1)
      /\ day - yearDays(y) \in Int
      /\ monthDays(y, m) <= day - yearDays(y) /\ day - yearDays(y) < monthDays(y, m + 1)
      /\ day - yearDays(y) - monthDays(y, m) + 1 = f[3]
  BY <1>1, <1>3, <1>4, <1>5
<1>7. secondsOf(f) = n
  BY <1>2 DEF secondsOf
<1> HIDE DEF day
<1>8. n \in Int /\ n = 60 * (60 * (24 * day + f[4]) + f[5]) + f[6]
  BY <1>1, <1>6
<1> HIDE DEF n
<1>9. /\ n \div 86400 = day
      /\ (n % 86400) \div 3600 = f[4]
      /\ ((n % 86400) \div 60) % 60 = f[5]
      /\ (n % 86400) % 60 = f[6]
  <2> DEFINE h == f[4]
             mi == f[5]
             sec == f[6]
  <2>1. /\ day \in Int /\ n \in Int /\ h \in 0 .. 23 /\ mi \in 0 .. 59 /\ sec \in 0 .. 59
        /\ n = 60 * (60 * (24 * day + h) + mi) + sec
    BY <1>1, <1>6, <1>8
  <2> HIDE DEF h, mi, sec
  <2>2. /\ n \div 86400 = day
        /\ (n % 86400) \div 3600 = h
        /\ ((n % 86400) \div 60) % 60 = mi
        /\ (n % 86400) % 60 = sec
    BY ONLY <2>1, SMT
  <2> QED
    BY <2>2 DEF h, mi, sec
<1>10. yearOf(day) = y
  BY <1>1, <1>6, OneYear
<1>11. monthOf(y, day - yearDays(y)) = m
  BY <1>1, <1>6, OneMonth
<1>12. fieldsOf(n) = <<y + rtcEpochYear, m + 1, day - yearDays(y) - monthDays(y, m) + 1,
                       f[4], f[5], f[6]>>
  BY <1>9, <1>10, <1>11 DEF fieldsOf
<1>13. f = <<f[1], f[2], f[3], f[4], f[5], f[6]>>
  OBVIOUS
<1> QED
  BY <1>1, <1>6, <1>7, <1>12, <1>13

\* time.Date leaves a local time of the host alone.
LEMMA ClockShown ==
  ASSUME NEW f \in [1 .. 6 -> Nat], f[1] >= rtcEpochYear, NEW rtc \in Date(f)
  PROVE  ShowsClock(rtc, f)
<1>1. CASE isTime(f) /\ secondsOf(f) \notin DOMAIN Gap
  <2>1. Date(f) = {fieldsOf(secondsOf(f))}
    BY <1>1, Zenon DEF Date
  <2> QED
    BY <1>1, <2>1, FieldsComeBack, Zenon DEF ShowsClock
<1>2. CASE ~(isTime(f) /\ secondsOf(f) \notin DOMAIN Gap)
  BY <1>2, Zenon DEF ShowsClock
<1> QED
  BY <1>1, <1>2, Zenon

LEMMA DecodedValues ==
  ASSUME NEW s, TwoFrames(s), decodable(s), NEW p \in Plants, NEW q \in Plants,
         s[1].words = input(p), s[2].words = input(q)
  PROVE  /\ value(s, Readings["status"]) = p.code
         /\ value(s, Readings["bms_fault_1"]) = q.code
         /\ value(s, Readings["bms_fault_2"]) = q.code
         /\ value(s, Readings["grid_power"]) = q.grid
         /\ value(s, Readings["grid_total_import"]) = q.import
         /\ value(s, Readings["battery_power"]) = q.battery
         /\ value(s, Readings["battery_current"])
              = IF q.battery < 0 THEN -current(q.battery) ELSE current(q.battery)
<1>1. /\ value(s, Readings["status"]) = u16(s, 33095)
      /\ value(s, Readings["bms_fault_1"]) = u16(s, 33145)
      /\ value(s, Readings["bms_fault_2"]) = u16(s, 33146)
  BY ReadingOf, SMT DEF value, Reading
<1>2. value(s, Readings["grid_power"]) = s32(s, 33130)
  BY ReadingOf, SMT DEF value, Reading
<1>3. value(s, Readings["grid_total_import"]) = u32(s, 33169)
  BY ReadingOf, SMT DEF value, Reading
<1>4. value(s, Readings["battery_power"])
        = signedByDirection(s32(s, 33149), charging(s))
  BY ReadingOf, SMT DEF value, Reading
<1>5. value(s, Readings["battery_current"])
        = signedByDirection(signed(u16(s, 33134)), charging(s))
  BY ReadingOf, SMT DEF value, Reading, s16
<1>6. /\ u16(s, 33095) = p.code
      /\ u16(s, 33145) = q.code
      /\ u16(s, 33146) = q.code
  BY DecodedWords, InputWords, SMT
<1>7. s32(s, 33130) = q.grid
  <2>1. s32(s, 33130) = signed(high(q.grid)) * Word + low(q.grid)
    BY DecodedWords, InputWords, SMT
  <2> QED
    BY <2>1, PlantTypes, SignedJoins
<1>8. u32(s, 33169) = q.import
  <2>1. u32(s, 33169) = high(q.import) * Word + low(q.import)
    BY DecodedWords, InputWords, SMT
  <2> QED
    BY <2>1, PlantTypes, UnsignedJoins
<1>9. /\ s32(s, 33149) = signed(high(magnitude(q.battery))) * Word + low(magnitude(q.battery))
      /\ u16(s, 33134) = current(q.battery)
  BY DecodedWords, InputWords, SMT
<1>10. charging(s) = (q.battery >= 0)
  BY ChargingIsSign
<1>11. q.battery \in Int /\ current(q.battery) < Word \div 2
  BY PlantTypes
<1>12. /\ signedByDirection(s32(s, 33149), charging(s)) = q.battery
       /\ signedByDirection(signed(u16(s, 33134)), charging(s))
            = IF q.battery < 0 THEN -current(q.battery) ELSE current(q.battery)
  BY <1>9, <1>10, <1>11, DirectionRestores
<1> QED
  BY <1>1, <1>2, <1>3, <1>4, <1>5, <1>6, <1>7, <1>8, <1>12

-----------------------------------------------------------------------------
(* The document.                                                           *)

DerivedKeys ==
  {"battery_charge_power", "battery_discharge_power", "battery_charging",
   "status_text", "work_mode", "rtc", "rtc_drift"}
FaultKeys ==
  {"bms_over_voltage", "bms_under_voltage", "bms_over_temp", "bms_under_temp",
   "bms_charge_over_temp", "bms_charge_under_temp", "bms_discharge_over_current",
   "bms_charge_over_current", "bms_internal_protection", "bms_module_unbalanced"}

StateKeys == DerivedKeys \cup FaultKeys \cup SetpointKeys \cup ReadingKeys

LEMMA KeysDisjoint ==
  /\ FaultKeys \cap DerivedKeys = {}
  /\ SetpointKeys \cap (DerivedKeys \cup FaultKeys) = {}
  /\ ReadingKeys \cap (FaultKeys \cup SetpointKeys) = {}
  /\ ReadingKeys \cap DerivedKeys = {"work_mode"}
<1>1. FaultKeys \cap DerivedKeys = {}
  BY DEF FaultKeys, DerivedKeys
<1>2. SetpointKeys \cap (DerivedKeys \cup FaultKeys) = {}
  BY DEF FaultKeys, DerivedKeys, SetpointKeys
<1>3. /\ BatteryKeys \cap (FaultKeys \cup SetpointKeys \cup DerivedKeys) = {}
      /\ PowerKeys \cap (FaultKeys \cup SetpointKeys \cup DerivedKeys) = {}
  BY DEF FaultKeys, DerivedKeys, SetpointKeys, BatteryKeys, PowerKeys
<1>4. EnergyKeys \cap (FaultKeys \cup SetpointKeys \cup DerivedKeys) = {}
  BY DEF FaultKeys, DerivedKeys, SetpointKeys, EnergyKeys
<1>5. /\ SystemKeys \cap (FaultKeys \cup SetpointKeys) = {}
      /\ SystemKeys \cap DerivedKeys = {"work_mode"}
  BY DEF FaultKeys, DerivedKeys, SetpointKeys, SystemKeys
<1> QED
  BY <1>1, <1>2, <1>3, <1>4, <1>5 DEF ReadingKeys

LEMMA FaultDomain == DOMAIN FaultBits = FaultKeys
BY DEF FaultBits, FaultKeys

LEMMA FaultWord ==
  \A k \in FaultKeys : FaultBits[k][1] \in {"bms_fault_1", "bms_fault_2"}
BY DEF FaultBits, FaultKeys

LEMMA MergeOfFour ==
  ASSUME NEW D, NEW F, NEW S, NEW V,
         DOMAIN D = DerivedKeys, DOMAIN F = FaultKeys,
         DOMAIN S = SetpointKeys, DOMAIN V = ReadingKeys
  PROVE  LET M == Merge(D, Merge(F, Merge(S, V)))
         IN /\ DOMAIN M = StateKeys
            /\ \A k \in DerivedKeys : M[k] = D[k]
            /\ \A k \in FaultKeys : M[k] = F[k]
            /\ \A k \in ReadingKeys \ {"work_mode"} : M[k] = V[k]
<1> DEFINE B == Merge(S, V)
           C == Merge(F, B)
           M == Merge(D, C)
<1>1. /\ DOMAIN B = SetpointKeys \cup ReadingKeys
      /\ \A k \in ReadingKeys : B[k] = V[k]
  BY KeysDisjoint DEF Merge
<1> HIDE DEF B
<1>2. /\ DOMAIN C = FaultKeys \cup SetpointKeys \cup ReadingKeys
      /\ \A k \in FaultKeys : C[k] = F[k]
      /\ \A k \in ReadingKeys : C[k] = V[k]
  BY <1>1, KeysDisjoint DEF Merge
<1> HIDE DEF C
<1>3. /\ DOMAIN M = StateKeys
      /\ \A k \in DerivedKeys : M[k] = D[k]
      /\ \A k \in FaultKeys : M[k] = F[k]
      /\ \A k \in ReadingKeys \ {"work_mode"} : M[k] = V[k]
  BY <1>2, KeysDisjoint DEF Merge, StateKeys
<1> QED
  BY <1>3 DEF B, C

LEMMA BuiltFields ==
  ASSUME NEW t, DOMAIN t.value = ReadingKeys
  PROVE  LET doc == BuildState(t)
             n(k) == t.value[k][1]
         IN /\ DOMAIN doc = StateKeys
            /\ doc.battery_charge_power = <<positive(n("battery_power")), 1>>
            /\ doc.battery_discharge_power = <<positive(-n("battery_power")), 1>>
            /\ doc.battery_charging = t.charging
            /\ doc.status_text = StatusLabel(n("status"))
            /\ doc.rtc = t.rtc
            /\ \A k \in FaultKeys : doc[k] = bit(n(FaultBits[k][1]), FaultBits[k][2])
            /\ \A k \in ReadingKeys \ {"work_mode"} : doc[k] = t.value[k]
<1> DEFINE n(k) == t.value[k][1]
           half == splitBatteryPower(n("battery_power"))
           D == [battery_charge_power |-> <<half.charge, 1>>,
                 battery_discharge_power |-> <<half.discharge, 1>>,
                 battery_charging |-> t.charging,
                 status_text |-> StatusLabel(n("status")),
                 work_mode |-> workModeLabel(n("work_mode")),
                 rtc |-> t.rtc,
                 rtc_drift |-> "drift"]
           F == [k \in DOMAIN FaultBits |-> bit(n(FaultBits[k][1]), FaultBits[k][2])]
           S == [k \in SetpointKeys |-> "setpoint"]
<1>1. BuildState(t) = Merge(D, Merge(F, Merge(S, t.value)))
  BY Zenon DEF BuildState
<1>2. DOMAIN D = DerivedKeys
  BY DEF DerivedKeys
<1>3. DOMAIN F = FaultKeys /\ DOMAIN S = SetpointKeys
  BY FaultDomain
<1>4. /\ D.battery_charge_power = <<half.charge, 1>>
      /\ D.battery_discharge_power = <<half.discharge, 1>>
      /\ D.status_text = StatusLabel(n("status"))
      /\ D.rtc = t.rtc
  OBVIOUS
<1>5. D.battery_charging = t.charging
  BY Zenon
<1>6. /\ half.charge = positive(n("battery_power"))
      /\ half.discharge = positive(-n("battery_power"))
  BY DEF splitBatteryPower
<1>7. \A k \in FaultKeys : F[k] = bit(n(FaultBits[k][1]), FaultBits[k][2])
  BY FaultDomain, Zenon
<1>8. {"battery_charge_power", "battery_discharge_power", "battery_charging",
       "status_text", "rtc"} \subseteq DerivedKeys
  BY DEF DerivedKeys
<1> HIDE DEF D, F, S, half
<1>9. /\ DOMAIN BuildState(t) = StateKeys
      /\ \A k \in DerivedKeys : BuildState(t)[k] = D[k]
      /\ \A k \in FaultKeys : BuildState(t)[k] = F[k]
      /\ \A k \in ReadingKeys \ {"work_mode"} : BuildState(t)[k] = t.value[k]
  BY <1>1, <1>2, <1>3, MergeOfFour
<1>10. /\ BuildState(t).battery_charge_power = <<positive(n("battery_power")), 1>>
       /\ BuildState(t).battery_discharge_power = <<positive(-n("battery_power")), 1>>
       /\ BuildState(t).status_text = StatusLabel(n("status"))
       /\ BuildState(t).rtc = t.rtc
  BY <1>4, <1>6, <1>8, <1>9
<1>11. BuildState(t).battery_charging = t.charging
  BY <1>5, <1>8, <1>9, Zenon
<1>12. \A k \in FaultKeys : BuildState(t)[k] = bit(n(FaultBits[k][1]), FaultBits[k][2])
  BY <1>7, <1>9, Zenon
<1> QED
  BY <1>9, <1>10, <1>11, <1>12, Zenon

\* What DocumentIsReal says of a document and the instants of its two frames.
Shows(doc, p, q) ==
  /\ ShowsClock(doc.rtc, Clocks[p.clock])
  /\ doc.status = <<p.code, 1>>
  /\ doc.status_text = StatusLabel(p.code)
  /\ ShowsBattery(doc, q)
  /\ doc.grid_power = <<q.grid, 1>>
  /\ doc.grid_total_import = <<q.import, 1>>
  /\ doc.bms_fault_1 = <<q.code, 1>>
  /\ \A k \in DOMAIN FaultBits : doc[k] = bit(q.code, FaultBits[k][2])

LEMMA DocumentShows ==
  ASSUME NEW s, TwoFrames(s), decodable(s), NEW p \in Plants, NEW q \in Plants,
         s[1].words = input(p), s[2].words = input(q), NEW t \in DecodeTelemetry(s)
  PROVE  /\ Shows(BuildState(t), p, q)
         /\ DOMAIN BuildState(t) = StateKeys
<1> DEFINE doc == BuildState(t)
           used == {"status", "bms_fault_1", "bms_fault_2", "grid_power",
                    "grid_total_import", "battery_power", "battery_current"}
<1>0. PICK rtc \in DecodeRTC(s) :
        t = [value |-> [k \in DOMAIN Readings |-> <<value(s, Readings[k]), Readings[k].per>>],
             charging |-> charging(s),
             rtc |-> rtc]
  BY DEF DecodeTelemetry
<1>1. /\ t.value = [k \in ReadingKeys |-> <<value(s, Readings[k]), Readings[k].per>>]
      /\ t.rtc \in DecodeRTC(s)
  BY <1>0, ReadingDomains
<1>2. t.charging = charging(s)
  BY <1>0, Zenon
<1>3. DOMAIN t.value = ReadingKeys
  BY <1>1
<1>4. used \subseteq ReadingKeys \ {"work_mode"}
  BY DEF ReadingKeys, BatteryKeys, PowerKeys, EnergyKeys, SystemKeys
<1>5. \A k \in used : t.value[k] = <<value(s, Readings[k]), Readings[k].per>>
  BY <1>1, <1>4
<1>6. /\ \A k \in used \ {"battery_current"} : Readings[k].per = 1
      /\ Readings["battery_current"].per = 10
  BY ReadingOf, SMT DEF Reading
<1>7. /\ t.value["status"] = <<p.code, 1>>
      /\ t.value["bms_fault_1"] = <<q.code, 1>>
      /\ t.value["bms_fault_2"] = <<q.code, 1>>
      /\ t.value["grid_power"] = <<q.grid, 1>>
      /\ t.value["grid_total_import"] = <<q.import, 1>>
      /\ t.value["battery_power"] = <<q.battery, 1>>
      /\ t.value["battery_current"]
           = <<IF q.battery < 0 THEN -current(q.battery) ELSE current(q.battery), 10>>
  BY <1>5, <1>6, DecodedValues
<1>8. /\ DOMAIN doc = StateKeys
      /\ \A k \in used : doc[k] = t.value[k]
  BY <1>3, <1>4, BuiltFields, Zenon
<1>9. ShowsClock(doc.rtc, Clocks[p.clock])
  <2>1. doc.rtc = t.rtc
    BY <1>3, BuiltFields, Zenon
  <2>2. doc.rtc \in Date(Clocks[p.clock])
    BY <2>1, <1>1, DecodedClock, Zenon
  <2>3. Clocks[p.clock] \in [1 .. 6 -> Nat] /\ Clocks[p.clock][1] >= rtcEpochYear
    BY PlantTypes DEF rtcRegisterCount
  <2> QED
    BY <2>2, <2>3, ClockShown
<1>10. doc.status_text = StatusLabel(p.code)
  <2>1. doc.status_text = StatusLabel(t.value["status"][1])
    BY <1>3, BuiltFields, Zenon
  <2>2. t.value["status"][1] = p.code
    BY <1>7
  <2> QED
    BY <2>1, <2>2, Zenon
<1>11. ShowsBattery(doc, q)
  <2>1. /\ doc.battery_charge_power = <<positive(t.value["battery_power"][1]), 1>>
        /\ doc.battery_discharge_power = <<positive(-t.value["battery_power"][1]), 1>>
        /\ doc.battery_charging = t.charging
    BY <1>3, BuiltFields, Zenon
  <2>2. t.value["battery_power"][1] = q.battery
    BY <1>7
  <2>3. doc.battery_charging = (q.battery >= 0)
    BY <2>1, <1>2, ChargingIsSign, Zenon
  <2>4. /\ doc.battery_charge_power = <<positive(q.battery), 1>>
        /\ doc.battery_discharge_power = <<positive(-q.battery), 1>>
    BY <2>1, <2>2, Zenon
  <2>5. /\ doc.battery_power = <<q.battery, 1>>
        /\ doc.battery_current
             = <<IF q.battery < 0 THEN -current(q.battery) ELSE current(q.battery), 10>>
    BY <1>7, <1>8, Zenon
  <2> QED
    BY <2>3, <2>4, <2>5, Zenon DEF ShowsBattery
<1>12. \A k \in DOMAIN FaultBits : doc[k] = bit(q.code, FaultBits[k][2])
  <2> SUFFICES ASSUME NEW k \in FaultKeys
               PROVE  doc[k] = bit(q.code, FaultBits[k][2])
    BY FaultDomain, Zenon
  <2>1. doc[k] = bit(t.value[FaultBits[k][1]][1], FaultBits[k][2])
    BY <1>3, BuiltFields, Zenon
  <2>2. t.value[FaultBits[k][1]][1] = q.code
    BY <1>7, FaultWord
  <2> QED
    BY <2>1, <2>2, Zenon
<1>13. /\ doc.status = <<p.code, 1>>
       /\ doc.grid_power = <<q.grid, 1>>
       /\ doc.grid_total_import = <<q.import, 1>>
       /\ doc.bms_fault_1 = <<q.code, 1>>
  BY <1>7, <1>8, Zenon
<1> QED
  BY <1>8, <1>9, <1>10, <1>11, <1>12, <1>13, Zenon DEF Shows

-----------------------------------------------------------------------------
(* The configuration.                                                      *)

LEMMA TheOnly ==
  ASSUME NEW x
  PROVE  the({x}) = x
BY Zenon DEF the

LEMMA TextOf ==
  ASSUME NEW t, ~void(t)
  PROVE  text(t) = t.word
BY Zenon DEF text

\* The two parsers of the port, and those of the timeout, agree on an unpadded
\* text that the manager accepts.
LEMMA BlankIsVoid ==
  ASSUME NEW t, ~t.padded
  PROVE  blank(t) <=> void(t)
BY Zenon DEF blank

LEMMA AtoiExact ==
  ASSUME NEW t
  PROVE  Atoi(t) # {} => t.kind = "int" /\ Atoi(t) = {t.n}
BY DEF Atoi

LEMMA SameInteger ==
  ASSUME NEW t, NEW def, ~t.padded, parseInt(t, def) # {}
  PROVE  parseInt(t, def) = IF void(t) THEN {def} ELSE IF t.kind = "int" THEN {t.n} ELSE {}
BY BlankIsVoid, AtoiExact, Zenon DEF parseInt

LEMMA SamePort ==
  ASSUME NEW t, ~t.padded, parseInt(t, 8899) # {}
  PROVE  parseInt(t, 8899) = parse_port(t)
BY SameInteger DEF parse_port

LEMMA AllOrNone ==
  ASSUME NEW t, NEW def, NEW R
  PROVE  LET S == {p \in parseInt(t, def) : p \in R}
         IN S # {} => S = parseInt(t, def)
<1>1. \E x : parseInt(t, def) \subseteq {x}
  <2>1. parseInt(t, def) \subseteq {def} \/ parseInt(t, def) \subseteq {t.n}
    BY Zenon DEF parseInt, Atoi
  <2> QED
    BY <2>1, Zenon
<1> QED
  BY <1>1, Zenon

LEMMA SameTimeout ==
  ASSUME NEW t, NEW def, ~t.padded, t.n \in Int, Spelled(t),
         parseDurationOrSeconds(t, def) # {}
  PROVE  parseDurationOrSeconds(t, def) = parse_duration_or_seconds(t, def)
<1>1. blank(t) <=> void(t)
  BY Zenon DEF blank
<1>2. CASE void(t)
  BY <1>1, <1>2, Zenon DEF parseDurationOrSeconds, parse_duration_or_seconds
<1>3. CASE ~void(t) /\ t.kind = "int"
  <2>1. Atoi(t) = {t.n}
    <3>1. fits(0)
      BY WidthAssumption DEF fits
    <3>2. ~fits(t.n) => Atoi(t) = {} /\ ParseDuration(t) = {}
      BY <1>3, <3>1, Zenon DEF Atoi, ParseDuration
    <3>3. fits(t.n)
      BY <1>1, <1>3, <3>2, Zenon DEF parseDurationOrSeconds
    <3> QED
      BY <1>3, <3>3, Zenon DEF Atoi
  <2>2. wrapped(Second * t.n) = Second * t.n
    BY <1>3, Zenon DEF Spelled, wrapped
  <2>3. parseDurationOrSeconds(t, def) = {Second * t.n}
    <3>1. Atoi(t) # {}
      BY <2>1
    <3>2. {wrapped(Second * n) : n \in Atoi(t)} = {wrapped(Second * t.n)}
      BY <2>1
    <3>3. parseDurationOrSeconds(t, def) = {wrapped(Second * n) : n \in Atoi(t)}
      BY <1>1, <1>3, <3>1, Zenon DEF parseDurationOrSeconds
    <3> QED
      BY <2>2, <3>2, <3>3, Zenon
  <2> QED
    BY <1>3, <2>3, Zenon DEF parse_duration_or_seconds
<1>4. CASE ~void(t) /\ t.kind # "int"
  <2>1. Atoi(t) = {}
    BY <1>4, Zenon DEF Atoi
  <2>2. parseDurationOrSeconds(t, def) = ParseDuration(t)
    BY <1>1, <1>4, <2>1, Zenon DEF parseDurationOrSeconds
  <2>3. t.kind = "duration" /\ ParseDuration(t) = {t.n}
    BY <1>4, <2>2, Zenon DEF ParseDuration, Spelled
  <2> QED
    BY <1>4, <2>2, <2>3, Zenon DEF parse_duration_or_seconds
<1> QED
  BY <1>2, <1>3, <1>4, Zenon

\* ... and on no other: the sidecar refuses a spelling that is Go's alone, and
\* what wraps in the manager does not in the sidecar.
LEMMA WrapFits ==
  ASSUME NEW n \in Int
  PROVE  fits(wrapped(n))
<1>1. CASE fits(n)
  BY <1>1, Zenon DEF wrapped
<1>2. CASE ~fits(n)
  <2> DEFINE w == 2 * Limit
             m == (n + Limit) % w
  <2>1. Limit \in Nat /\ w \in Nat /\ w > 0 /\ n + Limit \in Int
    BY WidthAssumption
  <2>2. wrapped(n) = m - Limit
    BY <1>2, Zenon DEF wrapped
  <2>3. m \in Int /\ 0 <= m /\ m < w
    <3> HIDE DEF w
    <3> QED
      BY <2>1
  <2> HIDE DEF m
  <2> QED
    BY <2>1, <2>2, <2>3 DEF fits
<1> QED
  BY <1>1, <1>2, Zenon

LEMMA OnlySpelled ==
  ASSUME NEW t, NEW def, ~t.padded, t.n \in Int,
         NEW d \in parseDurationOrSeconds(t, def), d \in parse_duration_or_seconds(t, def)
  PROVE  Spelled(t)
<1>1. t.kind \in {"int", "goDuration"} => ~void(t) /\ ~blank(t)
  BY Zenon DEF void, blank
<1>2. t.kind # "goDuration"
  <2> SUFFICES ASSUME t.kind = "goDuration" PROVE FALSE
    OBVIOUS
  <2>1. t.kind # "int" /\ t.kind \notin {"fraction", "duration"}
    OBVIOUS
  <2> QED
    BY <1>1, <2>1, Zenon DEF parse_duration_or_seconds
<1>3. ASSUME t.kind = "int" PROVE fits(Second * t.n)
  <2>1. ~void(t) /\ ~blank(t)
    BY <1>1, <1>3, Zenon
  <2>2. d = Second * t.n
    BY <1>3, <2>1, Zenon DEF parse_duration_or_seconds
  <2>3. CASE Atoi(t) # {}
    <3>1. d \in {wrapped(Second * n) : n \in Atoi(t)}
      BY <2>1, <2>3, Zenon DEF parseDurationOrSeconds
    <3>2. Atoi(t) \subseteq {t.n}
      BY Zenon DEF Atoi
    <3>3. d = wrapped(Second * t.n)
      BY <3>1, <3>2, Zenon
    <3>4. Second * t.n \in Int
      BY WidthAssumption
    <3> QED
      BY <2>2, <3>3, <3>4, WrapFits, Zenon
  <2>4. CASE Atoi(t) = {}
    <3>1. d \in ParseDuration(t)
      BY <2>1, <2>4, Zenon DEF parseDurationOrSeconds
    <3>2. t.kind # "duration" /\ t.kind # "goDuration"
      BY <1>3
    <3>3. t.n = 0
      BY <3>1, <3>2, Zenon DEF ParseDuration
    <3>4. fits(0) /\ Second * 0 = 0
      BY WidthAssumption DEF fits
    <3> QED
      BY <3>3, <3>4, Zenon
  <2> QED
    BY <2>3, <2>4, Zenon
<1> QED
  BY <1>2, <1>3, Zenon DEF Spelled

LEMMA SameReading ==
  ASSUME NEW e \in Environments, Plain(e), Spelled(e["INVERTER_SOCKET_TIMEOUT"]),
         NEW go \in Load(e)
  PROVE  \E py \in load(e) :
           /\ py.mode = go.mode
           /\ <<py.serial, FALSE>> = go.serial
           /\ <<py.ip, FALSE>> = go.ip
           /\ py.port = go.port
           /\ py.timeout = go.timeout
<1> DEFINE R == 1 .. 65535
           dPort == 8899
           goPort == {p \in parseInt(e["INVERTER_PORT"], dPort) : p \in R}
           timeout == e["INVERTER_SOCKET_TIMEOUT"]
           def == 10 * Second
           goTimeout == {d \in parseDurationOrSeconds(timeout, def) : d > 0}
           pyTimeout == {d \in parse_duration_or_seconds(timeout, def) : d > 0}
           py == [mode |-> text(e["MODE"]),
                  serial |-> text(e["INVERTER_SERIAL"]),
                  ip |-> text(e["INVERTER_IP"]),
                  port |-> the(parse_port(e["INVERTER_PORT"])),
                  timeout |-> the(pyTimeout)]
<1>1. valid(e)
  BY Zenon DEF Load
<1>2. go = [mode |-> Mode(e),
            serial |-> raw(e["INVERTER_SERIAL"]),
            ip |-> raw(e["INVERTER_IP"]),
            port |-> the(parsed(e).port),
            timeout |-> the(parsed(e).timeout),
            controls |-> the(parsed(e).controls),
            broker |-> ~blank(e["MQTT_BROKER_URL"])]
  BY <1>1, Zenon DEF Load
<1>3. \A v \in Variables : ~e[v].padded
  BY Zenon DEF Plain
<1>4. \A v \in {"MODE", "INVERTER_SERIAL", "INVERTER_IP", "INVERTER_PORT",
                "INVERTER_SOCKET_TIMEOUT"} : v \in Variables
  BY DEF Variables
<1>5. Mode(e) = text(e["MODE"])
  <2>1. ~void(e["MODE"]) /\ ~e["MODE"].padded
    BY <1>3, <1>4, Zenon DEF Plain
  <2>2. text(e["MODE"]) = e["MODE"].word
    BY <2>1, TextOf, Zenon
  <2> QED
    BY <2>1, <2>2, Zenon DEF Mode, blank
<1>6. /\ parsed(e).port = goPort
      /\ parsed(e).timeout = goTimeout
      /\ {"port", "timeout"} \subseteq DOMAIN parsed(e)
  BY DEF parsed
<1> HIDE DEF R, dPort, def, goPort, goTimeout, pyTimeout, py
<1>7. goPort # {} /\ goTimeout # {}
  BY <1>1, <1>6, Zenon DEF valid
<1>8. goPort = parse_port(e["INVERTER_PORT"])
  <2>1. goPort = parseInt(e["INVERTER_PORT"], dPort)
    BY <1>7, AllOrNone, Zenon DEF goPort
  <2>2. parseInt(e["INVERTER_PORT"], dPort) = parse_port(e["INVERTER_PORT"])
    <3>1. parseInt(e["INVERTER_PORT"], dPort) # {}
      BY <1>7, <2>1, Zenon
    <3>2. ~e["INVERTER_PORT"].padded
      BY <1>3, <1>4, Zenon
    <3> QED
      BY <3>1, <3>2, SamePort DEF dPort
  <2> QED
    BY <2>1, <2>2, Zenon
<1>9. goTimeout = pyTimeout
  <2>1. ~timeout.padded /\ timeout.n \in Int
    BY <1>3, <1>4, Zenon DEF Environments
  <2>2. parseDurationOrSeconds(timeout, def) # {}
    BY <1>7, Zenon DEF goTimeout
  <2>3. parseDurationOrSeconds(timeout, def) = parse_duration_or_seconds(timeout, def)
    BY <2>1, <2>2, SameTimeout, Zenon
  <2> QED
    BY <2>3, Zenon DEF goTimeout, pyTimeout
<1>10. /\ text(e["MODE"]) \in {"live", "mock"}
       /\ text(e["MODE"]) = "live" =>
            ~void(e["INVERTER_IP"]) /\ ~void(e["INVERTER_SERIAL"])
  BY <1>1, <1>3, <1>4, <1>5, Zenon DEF valid, blank
<1>11. \A v \in {"SIDECAR_LISTEN_ADDR", "MOCK_FIXTURE"} :
         e[v].kind \in {"unset", "empty", "word"}
  BY Zenon DEF Plain, void
<1>12. load(e) = {py}
  <2> DEFINE mode == text(e["MODE"])
             accepted ==
               /\ mode \in {"live", "mock"}
               /\ mode = "live" => ~void(e["INVERTER_IP"]) /\ ~void(e["INVERTER_SERIAL"])
               /\ parse_port(e["INVERTER_PORT"]) # {}
               /\ pyTimeout # {}
               /\ e["SIDECAR_LISTEN_ADDR"].kind \in {"unset", "empty", "word"}
               /\ mode = "mock" => e["MOCK_FIXTURE"].kind \in {"unset", "empty", "word"}
  <2>1. load(e) = IF accepted THEN {py} ELSE {}
    BY Zenon DEF load, py, pyTimeout, def
  <2>2. accepted
    BY <1>7, <1>8, <1>9, <1>10, <1>11, Zenon
  <2> QED
    BY <2>1, <2>2, Zenon
<1>13. /\ py.mode = go.mode
       /\ py.port = go.port
       /\ py.timeout = go.timeout
  BY <1>2, <1>5, <1>6, <1>8, <1>9, Zenon DEF py
<1>14. <<py.serial, FALSE>> = go.serial /\ <<py.ip, FALSE>> = go.ip
  <2>1. ~e["INVERTER_SERIAL"].padded /\ ~e["INVERTER_IP"].padded
    BY <1>3, <1>4, Zenon
  <2>2. e["INVERTER_SERIAL"].padded \in BOOLEAN /\ e["INVERTER_IP"].padded \in BOOLEAN
    BY <1>4, Zenon DEF Environments
  <2>3. e["INVERTER_SERIAL"].padded = FALSE /\ e["INVERTER_IP"].padded = FALSE
    BY <2>1, <2>2, Zenon
  <2>4. /\ go.serial = raw(e["INVERTER_SERIAL"]) /\ go.ip = raw(e["INVERTER_IP"])
        /\ py.serial = text(e["INVERTER_SERIAL"]) /\ py.ip = text(e["INVERTER_IP"])
    BY <1>2, Zenon DEF py
  <2> QED
    BY <2>3, <2>4, Zenon DEF raw
<1> QED
  BY <1>12, <1>13, <1>14, Zenon

LEMMA ReadsSpelled ==
  ASSUME NEW e \in Environments, Plain(e), NEW go \in Load(e), NEW py \in load(e),
         py.timeout = go.timeout
  PROVE  Spelled(e["INVERTER_SOCKET_TIMEOUT"])
<1> DEFINE t == e["INVERTER_SOCKET_TIMEOUT"]
           def == 10 * Second
           goTimeout == {d \in parseDurationOrSeconds(t, def) : d > 0}
           pyTimeout == {d \in parse_duration_or_seconds(t, def) : d > 0}
<1>1. ~t.padded /\ t.n \in Int
  <2>1. "INVERTER_SOCKET_TIMEOUT" \in Variables
    BY DEF Variables
  <2> QED
    BY <2>1, Zenon DEF Plain, Environments
<1>2. parsed(e).timeout = goTimeout /\ "timeout" \in DOMAIN parsed(e)
  BY DEF parsed
<1>3. valid(e) /\ go.timeout = the(parsed(e).timeout)
  <2>1. valid(e)
    BY Zenon DEF Load
  <2>2. go = [mode |-> Mode(e),
              serial |-> raw(e["INVERTER_SERIAL"]),
              ip |-> raw(e["INVERTER_IP"]),
              port |-> the(parsed(e).port),
              timeout |-> the(parsed(e).timeout),
              controls |-> the(parsed(e).controls),
              broker |-> ~blank(e["MQTT_BROKER_URL"])]
    BY <2>1, Zenon DEF Load
  <2> QED
    BY <2>1, <2>2, Zenon
<1> HIDE DEF goTimeout, pyTimeout
<1>4. pyTimeout # {} /\ py.timeout = the(pyTimeout)
  <2> DEFINE mode == text(e["MODE"])
             accepted ==
               /\ mode \in {"live", "mock"}
               /\ mode = "live" => ~void(e["INVERTER_IP"]) /\ ~void(e["INVERTER_SERIAL"])
               /\ parse_port(e["INVERTER_PORT"]) # {}
               /\ pyTimeout # {}
               /\ e["SIDECAR_LISTEN_ADDR"].kind \in {"unset", "empty", "word"}
               /\ mode = "mock" => e["MOCK_FIXTURE"].kind \in {"unset", "empty", "word"}
             result == [mode |-> mode,
                        serial |-> text(e["INVERTER_SERIAL"]),
                        ip |-> text(e["INVERTER_IP"]),
                        port |-> the(parse_port(e["INVERTER_PORT"])),
                        timeout |-> the(pyTimeout)]
  <2>1. load(e) = IF accepted THEN {result} ELSE {}
    BY Zenon DEF load, pyTimeout, def
  <2>2. accepted /\ py = result
    BY <2>1, Zenon
  <2> QED
    BY <2>2, Zenon
<1> USE DEF goTimeout, pyTimeout
<1> HIDE DEF def
<1>5. goTimeout # {}
  BY <1>2, <1>3, Zenon DEF valid
<1>6. py.timeout \in pyTimeout
  BY <1>4, Zenon DEF the
<1>7. go.timeout \in goTimeout
  <2>1. go.timeout = the(goTimeout)
    BY <1>2, <1>3, Zenon
  <2> QED
    BY <1>5, <2>1, Zenon DEF the
<1> QED
  BY <1>1, <1>6, <1>7, OnlySpelled, Zenon

LEMMA ControlsParsed ==
  ASSUME NEW e \in Environments, Load(e) # {}
  PROVE  /\ the(Load(e)).controls \in BOOLEAN
         /\ the(Load(e)).broker \in BOOLEAN
<1> DEFINE go == [mode |-> Mode(e),
                  serial |-> raw(e["INVERTER_SERIAL"]),
                  ip |-> raw(e["INVERTER_IP"]),
                  port |-> the(parsed(e).port),
                  timeout |-> the(parsed(e).timeout),
                  controls |-> the(parsed(e).controls),
                  broker |-> ~blank(e["MQTT_BROKER_URL"])]
<1>1. valid(e)
  BY Zenon DEF Load
<1>2. Load(e) = {go}
  BY <1>1, Zenon DEF Load
<1>3. go.broker = ~blank(e["MQTT_BROKER_URL"]) /\ go.controls = the(parsed(e).controls)
  BY Zenon
<1> HIDE DEF go
<1>4. the(Load(e)) = go
  BY <1>2, TheOnly, Zenon
<1>5. "controls" \in DOMAIN parsed(e)
  BY DEF parsed
<1>6. parsed(e).controls = parseBool(e["CONTROLS_ENABLED"], TRUE)
  BY DEF parsed
<1>7. parsed(e).controls # {}
  BY <1>1, <1>5, Zenon DEF valid
<1>8. parseBool(e["CONTROLS_ENABLED"], TRUE) \subseteq BOOLEAN
  BY Zenon DEF parseBool
<1>9. the(parsed(e).controls) \in parsed(e).controls
  BY <1>7, Zenon DEF the
<1>10. the(Load(e)).controls \in BOOLEAN
  BY <1>3, <1>4, <1>6, <1>8, <1>9, Zenon
<1> QED
  BY <1>3, <1>4, <1>10, Zenon

-----------------------------------------------------------------------------
(* The catalogue.                                                          *)

CatalogueKeys == {Catalogue[i] : i \in 1 .. Len(Catalogue)}

LEMMA CatalogueLength == Len(Catalogue) = 62
BY DEF Catalogue

\* Every entity but the button has a field in the document.
LEMMA CatalogueShown ==
  \A i \in 1 .. 62 : Catalogue[i] \in StateKeys \cup Buttons
<1>1. \A i \in 1 .. 15 : Catalogue[i] \in StateKeys
  BY DEF Catalogue, StateKeys, DerivedKeys, FaultKeys, SetpointKeys, ReadingKeys,
         BatteryKeys, PowerKeys, EnergyKeys, SystemKeys
<1>2. \A i \in 16 .. 30 : Catalogue[i] \in StateKeys
  BY DEF Catalogue, StateKeys, DerivedKeys, FaultKeys, SetpointKeys, ReadingKeys,
         BatteryKeys, PowerKeys, EnergyKeys, SystemKeys
<1>3. \A i \in 31 .. 45 : Catalogue[i] \in StateKeys
  BY DEF Catalogue, StateKeys, DerivedKeys, FaultKeys, SetpointKeys, ReadingKeys,
         BatteryKeys, PowerKeys, EnergyKeys, SystemKeys
<1>4. \A i \in 46 .. 61 : Catalogue[i] \in StateKeys
  BY DEF Catalogue, StateKeys, DerivedKeys, FaultKeys, SetpointKeys, ReadingKeys,
         BatteryKeys, PowerKeys, EnergyKeys, SystemKeys
<1>5. Catalogue[62] \in Buttons
  BY DEF Catalogue, Buttons
<1> QED
  BY <1>1, <1>2, <1>3, <1>4, <1>5

\* What is announced, is read and is routed: a topic of the discovery is the
\* component and the key of an entity.
LEMMA TopicOf ==
  ASSUME NEW topic \in Topics, topic \notin BuildDiscoveryRemovals
  PROVE  /\ readsState(topic) => topic[2] \in StateKeys
         /\ takesCommands(topic) => topic[2] \in route
<1>1. PICK k \in CatalogueKeys : topic = <<component(k), k>>
  BY Zenon DEF Topics, BuildDiscovery, DiscoveryTopic, CatalogueKeys
<1>2. topic[1] = component(k) /\ topic[2] = k
  BY <1>1
<1>3. k \in StateKeys \cup Buttons
  BY CatalogueShown, CatalogueLength DEF CatalogueKeys
<1>4. k \in Buttons => component(k) = "button"
  BY DEF component, BinarySensors, Numbers, Selects, Buttons
<1>5. component(k) \in {"number", "select", "button"} => k \in route
  BY DEF component, Numbers, Selects, Buttons, route
<1> QED
  BY <1>2, <1>3, <1>4, <1>5 DEF readsState, takesCommands

LEMMA PublishedTopics ==
  ASSUME NEW n \in 0 .. Len(Catalogue), NEW controls
  PROVE  /\ BuildDiscovery(n, controls) \subseteq Topics
         /\ BuildDiscovery(n, controls) \cap BuildDiscoveryRemovals = {}
<1>1. \A i \in 1 .. n : i \in 1 .. Len(Catalogue)
  BY CatalogueLength
<1>2. BuildDiscovery(n, controls) \subseteq BuildDiscovery(Len(Catalogue), TRUE)
  BY <1>1, Zenon DEF BuildDiscovery
<1>3. \A k : component(k) # "switch"
  BY DEF component
<1>4. \A k : <<component(k), k>> # <<"switch", "optimal_income">>
  BY <1>3
<1> QED
  BY <1>2, <1>4, Zenon DEF Topics, BuildDiscovery, BuildDiscoveryRemovals, DiscoveryTopic

-----------------------------------------------------------------------------
(* Types.                                                                  *)

Frames == [base : Nat, len : Nat, words : [InputBank -> Int]]

Counted == budget.boots <= Len(Envs)

LEMMA NoEnvType == NoEnv \in Environments
<1>1. Unset \in [kind : Kinds, word : Words, n : Int, padded : BOOLEAN]
  <2>1. \A w \in Words, b \in BOOLEAN :
          Token("unset", w, 0, b) \in [kind : Kinds, word : Words, n : Int, padded : BOOLEAN]
    BY DEF Token, Kinds
  <2>2. NoWord \in Words
    BY EnvsAssumption DEF EnvsAssumption
  <2>3. FALSE \in BOOLEAN
    OBVIOUS
  <2> QED
    BY <2>1, <2>2, <2>3, Zenon DEF Unset
<1> QED
  BY <1>1, Zenon DEF NoEnv, Environments

LEMMA EnvType ==
  ASSUME NEW i \in 1 .. Len(Envs), NEW e \in Envs[i]
  PROVE  e \in Environments
<1>1. Envs \in Seq(SUBSET Environments)
  BY EnvsAssumption DEF EnvsAssumption
<1>2. Envs[i] \in SUBSET Environments
  BY <1>1
<1> QED
  BY <1>2

LEMMA MishapType ==
  ASSUME budget \in [changes : Nat, boots : Nat, mishaps : Nat], Mishap
  PROVE  budget' \in [changes : Nat, boots : Nat, mishaps : Nat] /\ budget'.boots = budget.boots
BY DEF Mishap

LEMMA BlockValues ==
  /\ Len(Blocks) = 2
  /\ Blocks[1].base = 33022 /\ Blocks[1].count = 100
  /\ Blocks[2].base = 33122 /\ Blocks[2].count = 93
BY DEF Blocks

LEMMA InitType == Init => TypeOK /\ Counted
<1> SUFFICES ASSUME Init
             PROVE  TypeOK /\ Counted
  OBVIOUS
<1> USE DEF Init
<1>1. plant \in Plants /\ proc \in {"off", "boot", "up"}
  OBVIOUS
<1>2. env \in Environments
  BY NoEnvType
<1>3. cfg \in [controls : BOOLEAN, broker : BOOLEAN] /\ sidecar \in BOOLEAN
       /\ announced \in BOOLEAN /\ subscribed \in BOOLEAN
  BY Zenon DEF NoConfig
<1>4. retained \subseteq Topics
  BY Zenon DEF Topics
<1>5. /\ snapshot \in Seq(Frames)
      /\ Len(snapshot) <= Len(Blocks)
      /\ DOMAIN snapshot = {}
      /\ seen \subseteq Plants
  BY BlockValues
<1>6. Len(Envs) \in Nat /\ MaxChanges \in Nat /\ MaxMishaps \in Nat
  BY EnvsAssumption, DocumentBoundAssumption DEF EnvsAssumption, DocumentBoundAssumption
<1>7. budget \in [changes : Nat, boots : Nat, mishaps : Nat] /\ Counted
  BY <1>6 DEF Counted
<1> QED
  BY <1>1, <1>2, <1>3, <1>4, <1>5, <1>7, Zenon DEF TypeOK, Frames

\* The parts of TypeOK that the actions disturb together.
ProcessType ==
  /\ proc \in {"off", "boot", "up"}
  /\ env \in Environments
  /\ cfg \in [controls : BOOLEAN, broker : BOOLEAN]
  /\ sidecar \in BOOLEAN
BrokerType ==
  /\ retained \subseteq Topics
  /\ announced \in BOOLEAN
  /\ subscribed \in BOOLEAN
PollType ==
  /\ snapshot \in Seq(Frames)
  /\ Len(snapshot) <= Len(Blocks)
  /\ \A i \in DOMAIN snapshot : /\ snapshot[i].base = Blocks[i].base
                                /\ snapshot[i].len \in 0 .. Blocks[i].count
  /\ seen \subseteq Plants
BudgetType ==
  /\ budget \in [changes : Nat, boots : Nat, mishaps : Nat]
  /\ Counted

LEMMA TypeParts ==
  TypeOK /\ Counted <=> plant \in Plants /\ ProcessType /\ BrokerType /\ PollType /\ BudgetType
BY Zenon DEF TypeOK, ProcessType, BrokerType, PollType, BudgetType, Frames

LEMMA EmptyPoll ==
  ASSUME snapshot' = <<>>, seen' = {}
  PROVE  PollType'
<1>1. /\ snapshot' \in Seq(Frames) /\ Len(snapshot') = 0 /\ DOMAIN snapshot' = {}
      /\ Len(snapshot') <= Len(Blocks)
  BY BlockValues
<1> QED
  BY <1>1, Zenon DEF PollType

LEMMA MishapBudget ==
  ASSUME BudgetType, Mishap
  PROVE  BudgetType'
BY MishapType DEF BudgetType, Counted

LEMMA ChangeType ==
  ASSUME plant \in Plants, PollType, BudgetType, Change
  PROVE  plant' \in Plants /\ PollType' /\ BudgetType'
<1>1. plant' \in Plants
  <2>1. /\ plant.battery \in Batteries /\ plant.grid \in Grids /\ plant.import \in Imports
        /\ plant.code \in Codes /\ plant.clock \in 1 .. Len(Clocks)
        /\ plant = [battery |-> plant.battery, grid |-> plant.grid, import |-> plant.import,
                    clock |-> plant.clock, code |-> plant.code]
    BY DEF Plants
  <2>2. DOMAIN Clocks = 1 .. Len(Clocks)
    BY PlantAssumption DEF PlantAssumption
  <2> QED
    BY <2>1, <2>2 DEF Change, Plants
<1>2. seen' \subseteq Plants /\ snapshot' = snapshot
  BY <1>1, Zenon DEF Change, PollType
<1>3. BudgetType'
  BY DEF Change, BudgetType, Counted
<1> QED
  BY <1>1, <1>2, <1>3, Zenon DEF PollType

LEMMA BootType ==
  ASSUME ProcessType, BudgetType, Boot
  PROVE  ProcessType' /\ BudgetType'
<1>1. Len(Envs) \in Nat
  BY EnvsAssumption DEF EnvsAssumption
<1>2. Len(Envs) - budget.boots + 1 \in 1 .. Len(Envs)
  BY <1>1 DEF Boot, BudgetType, Counted
<1>3. env' \in Environments
  BY <1>2, EnvType DEF Boot
<1>4. BudgetType'
  BY <1>1 DEF Boot, BudgetType, Counted
<1>5. proc' = "boot" /\ cfg' = cfg /\ sidecar' = sidecar
  BY DEF Boot
<1> QED
  BY <1>3, <1>4, <1>5, Zenon DEF ProcessType

LEMMA NoConfigType == NoConfig \in [controls : BOOLEAN, broker : BOOLEAN]
BY Zenon DEF NoConfig

LEMMA LoadType ==
  ASSUME ProcessType, LoadConfig
  PROVE  ProcessType'
<1>1. env' \in Environments
  BY NoEnvType, Zenon DEF LoadConfig
<1>2. CASE Load(env) = {}
  BY <1>1, <1>2, NoConfigType, Zenon DEF LoadConfig, ProcessType
<1>3. CASE Load(env) # {}
  <2>1. /\ proc' = "up"
        /\ cfg' = [k \in DOMAIN NoConfig |-> the(Load(env))[k]]
        /\ sidecar' = (load(env) # {})
    BY <1>3, Zenon DEF LoadConfig
  <2>2. DOMAIN NoConfig = {"controls", "broker"}
    BY DEF NoConfig
  <2>3. /\ the(Load(env)).controls \in BOOLEAN
        /\ the(Load(env)).broker \in BOOLEAN
    BY <1>3, ControlsParsed DEF ProcessType
  <2>4. cfg' \in [controls : BOOLEAN, broker : BOOLEAN]
    BY <2>1, <2>2, <2>3
  <2> QED
    BY <1>1, <2>1, <2>4, Zenon DEF ProcessType
<1> QED
  BY <1>2, <1>3

LEMMA PublishType ==
  ASSUME BrokerType, ProcessType, NEW n \in 0 .. Len(Catalogue), NEW removals,
         NEW subscription \in BOOLEAN, Publish(n, removals, subscription)
  PROVE  retained' \subseteq Topics /\ subscribed' \in BOOLEAN
<1>1. published(n) \subseteq Topics
  BY PublishedTopics DEF published
<1>2. retained' \subseteq Topics
  BY <1>1, Zenon DEF Publish, BrokerType
<1>3. subscribed' \in BOOLEAN
  BY Zenon DEF Publish
<1> QED
  BY <1>2, <1>3

LEMMA ReadInputType ==
  ASSUME plant \in Plants, PollType, BudgetType, ReadInput
  PROVE  PollType' /\ BudgetType'
<1> DEFINE i == Len(snapshot) + 1
<1>1. Len(snapshot) \in Nat /\ i \in {1, 2} /\ reading = Blocks[i]
  BY BlockValues DEF ReadInput, PollType, reading
<1>2. Blocks[i].base \in Nat /\ Blocks[i].count \in Nat /\ Blocks[i].count >= 1
  BY <1>1, BlockValues
<1>3. PICK n : /\ n \in 0 .. Blocks[i].count
               /\ snapshot' = Append(snapshot, [base |-> Blocks[i].base, len |-> n,
                                                words |-> input(plant)])
  <2>1. Blocks[i].count \in 0 .. Blocks[i].count
    BY <1>2
  <2>2. {0, 1, Blocks[i].count \div 2, Blocks[i].count - 1} \subseteq 0 .. Blocks[i].count
    <3> DEFINE c == Blocks[i].count
    <3> HIDE DEF c
    <3>1. c \in Nat /\ c >= 1
      BY <1>2 DEF c
    <3>2. {0, 1, c \div 2, c - 1} \subseteq 0 .. c
      BY <3>1
    <3> QED
      BY <3>2 DEF c
  <2> HIDE DEF i
  <2> QED
    BY <1>1, <2>1, <2>2, Zenon DEF ReadInput
<1> DEFINE f == [base |-> Blocks[i].base, len |-> n, words |-> input(plant)]
<1>4. f \in Frames /\ f.base = Blocks[i].base /\ f.len = n
  BY <1>2, <1>3, InputType DEF Frames
<1>5. snapshot' = Append(snapshot, f)
  BY <1>3
<1>6. seen' \subseteq Plants
  BY Zenon DEF ReadInput, PollType
<1>7. BudgetType'
  <2>1. CASE UNCHANGED budget
    BY <2>1 DEF BudgetType, Counted
  <2>2. CASE Mishap
    BY <2>2, MishapBudget
  <2> QED
    BY <2>1, <2>2, Zenon DEF ReadInput
<1> HIDE DEF f
<1>8. /\ snapshot' \in Seq(Frames) /\ Len(snapshot') = i
      /\ snapshot'[i] = f
      /\ \A j \in 1 .. Len(snapshot) : snapshot'[j] = snapshot[j]
  BY <1>1, <1>4, <1>5 DEF PollType
<1>9. Len(snapshot') <= Len(Blocks)
  BY <1>1, <1>8, BlockValues
<1>10. ASSUME NEW j \in DOMAIN snapshot'
       PROVE  /\ snapshot'[j].base = Blocks[j].base
              /\ snapshot'[j].len \in 0 .. Blocks[j].count
  <2>1. j \in 1 .. Len(snapshot) \/ j = i
    BY <1>1, <1>8
  <2>2. CASE j = i
    BY <2>2, <1>3, <1>4, <1>8
  <2>3. CASE j \in 1 .. Len(snapshot)
    <3>1. j \in DOMAIN snapshot
      BY <2>3 DEF PollType
    <3> QED
      BY <2>3, <3>1, <1>8 DEF PollType
  <2> QED
    BY <2>1, <2>2, <2>3
<1> QED
  BY <1>6, <1>7, <1>8, <1>9, <1>10, Zenon DEF PollType

LEMMA TypeStep == TypeOK /\ Counted /\ [Next]_vars => TypeOK' /\ Counted'
<1> DEFINE TypeAll == plant \in Plants /\ ProcessType /\ BrokerType /\ PollType /\ BudgetType
<1> SUFFICES ASSUME TypeAll, [Next]_vars
             PROVE  TypeAll'
  BY TypeParts, PTL
<1>1. CASE Change
  <2>1. ProcessType' /\ BrokerType'
    BY <1>1 DEF Change, process, broker, ProcessType, BrokerType
  <2> QED
    BY <1>1, <2>1, ChangeType
<1>2. CASE Boot
  <2>1. plant' \in Plants /\ BrokerType' /\ PollType'
    BY <1>2 DEF Boot, broker, poll, BrokerType, PollType
  <2> QED
    BY <1>2, <2>1, BootType
<1>3. CASE LoadConfig
  <2>1. plant' \in Plants /\ BrokerType' /\ PollType' /\ BudgetType'
    BY <1>3 DEF LoadConfig, broker, poll, BrokerType, PollType, BudgetType, Counted
  <2> QED
    BY <1>3, <2>1, LoadType
<1>4. CASE Stop
  <2>1. ProcessType'
    BY <1>4, NoConfigType, Zenon DEF Stop, ProcessType
  <2>2. BrokerType'
    BY <1>4, Zenon DEF Stop, BrokerType
  <2>3. PollType'
    BY <1>4, EmptyPoll DEF Stop
  <2>4. plant' \in Plants /\ BudgetType'
    BY <1>4 DEF Stop, BudgetType, Counted
  <2> QED
    BY <2>1, <2>2, <2>3, <2>4
<1>5. CASE Republish
  <2>1. Len(Catalogue) \in 0 .. Len(Catalogue)
    BY CatalogueLength
  <2>2. retained' \subseteq Topics /\ subscribed' \in BOOLEAN
    BY <1>5, <2>1, PublishType, Zenon DEF Republish
  <2>3. announced' \in BOOLEAN
    BY <1>5, Zenon DEF Republish
  <2>4. plant' \in Plants /\ ProcessType' /\ PollType' /\ BudgetType'
    BY <1>5 DEF Republish, Publish, process, poll, ProcessType, PollType, BudgetType, Counted
  <2> QED
    BY <2>2, <2>3, <2>4 DEF BrokerType
<1>6. CASE RepublishFails
  <2>1. PICK n \in 0 .. Len(Catalogue), removals \in BOOLEAN, subscription \in BOOLEAN :
          Publish(n, removals, subscription)
    BY <1>6, Zenon DEF RepublishFails
  <2>2. retained' \subseteq Topics /\ subscribed' \in BOOLEAN
    BY <2>1, PublishType, Zenon
  <2>3. announced' \in BOOLEAN
    BY <1>6, Zenon DEF RepublishFails
  <2>4. plant' \in Plants /\ ProcessType' /\ PollType'
    BY <2>1 DEF Publish, process, poll, ProcessType, PollType
  <2>5. BudgetType'
    BY <1>6, MishapBudget DEF RepublishFails
  <2> QED
    BY <2>2, <2>3, <2>4, <2>5 DEF BrokerType
<1>7. CASE Reconnect
  <2>1. BrokerType'
    BY <1>7, Zenon DEF Reconnect, BrokerType
  <2>2. plant' \in Plants /\ ProcessType' /\ PollType'
    BY <1>7 DEF Reconnect, process, poll, ProcessType, PollType
  <2>3. BudgetType'
    BY <1>7, MishapBudget DEF Reconnect
  <2> QED
    BY <2>1, <2>2, <2>3
<1>8. CASE ReadInput
  <2>1. plant' \in Plants /\ ProcessType' /\ BrokerType'
    BY <1>8 DEF ReadInput, process, broker, ProcessType, BrokerType
  <2> QED
    BY <1>8, <2>1, ReadInputType
<1>9. CASE ReadInputFails
  <2>1. plant' \in Plants /\ ProcessType' /\ BrokerType'
    BY <1>9 DEF ReadInputFails, process, broker, ProcessType, BrokerType
  <2>2. PollType'
    BY <1>9, EmptyPoll DEF ReadInputFails
  <2>3. BudgetType'
    <3>1. CASE sidecar
      BY <1>9, <3>1, MishapBudget DEF ReadInputFails
    <3>2. CASE ~sidecar
      BY <1>9, <3>2 DEF ReadInputFails, BudgetType, Counted
    <3> QED
      BY <3>1, <3>2
  <2> QED
    BY <2>1, <2>2, <2>3
<1>10. CASE PublishState
  <2>1. plant' \in Plants /\ ProcessType' /\ BrokerType' /\ BudgetType'
    BY <1>10 DEF PublishState, process, broker, ProcessType, BrokerType, BudgetType, Counted
  <2>2. PollType'
    BY <1>10, EmptyPoll DEF PublishState
  <2> QED
    BY <2>1, <2>2
<1>11. CASE UNCHANGED vars
  BY <1>11 DEF vars, ProcessType, BrokerType, PollType, BudgetType, Counted
<1> QED
  BY <1>1, <1>2, <1>3, <1>4, <1>5, <1>6, <1>7, <1>8, <1>9, <1>10, <1>11 DEF Next

\* The configurations, the discovery topics, the frames and the measurements
\* keep their types; in particular a frame in hand is one of the two blocks, in
\* their order, and never longer than what was asked for.
THEOREM TypeCorrect == Spec => []TypeOK
<1>1. Init => TypeOK /\ Counted
  BY InitType
<1>2. TypeOK /\ Counted /\ [Next]_vars => TypeOK' /\ Counted'
  BY TypeStep
<1> QED
  BY <1>1, <1>2, PTL DEF Spec

\* Whatever the environment, as long as its texts are plain: what Load accepts
\* load accepts, with the same mode, serial, address, port and timeout, exactly
\* if the timeout is spelled as both know it.
THEOREM SameConfiguration == Spec => []SameEnvironment
<1>1. TypeOK => SameEnvironment
  <2> SUFFICES ASSUME env \in Environments, Plain(env), Load(env) # {}
               PROVE  ReadAlike(env) <=> Spelled(env["INVERTER_SOCKET_TIMEOUT"])
    BY Zenon DEF TypeOK, SameEnvironment
  <2>1. ASSUME Spelled(env["INVERTER_SOCKET_TIMEOUT"]) PROVE ReadAlike(env)
    BY <2>1, SameReading, Zenon DEF ReadAlike
  <2>2. ASSUME ReadAlike(env) PROVE Spelled(env["INVERTER_SOCKET_TIMEOUT"])
    <3>1. PICK go \in Load(env) : TRUE
      OBVIOUS
    <3>2. PICK py \in load(env) : py.timeout = go.timeout
      BY <2>2, <3>1, Zenon DEF ReadAlike
    <3> QED
      BY <3>1, <3>2, ReadsSpelled, Zenon
  <2> QED
    BY <2>1, <2>2, Zenon
<1> QED
  BY <1>1, TypeCorrect, PTL

-----------------------------------------------------------------------------
(* Announcements.                                                          *)

\* What is true of the broker from a republish that went through until the
\* session or the process ends.
Announced ==
  announced =>
    /\ proc = "up"
    /\ published(Len(Catalogue)) \subseteq retained
    /\ retained \cap BuildDiscoveryRemovals = {}
    /\ cfg.controls => subscribed

LEMMA AnnouncedStep == TypeOK /\ Announced /\ [Next]_vars => Announced'
<1> SUFFICES ASSUME Announced, announced', [Next]_vars
             PROVE  /\ proc' = "up"
                    /\ published(Len(Catalogue))' \subseteq retained'
                    /\ retained' \cap BuildDiscoveryRemovals = {}
                    /\ cfg'.controls => subscribed'
  BY Zenon DEF Announced
<1>1. CASE Republish
  <2>1. published(Len(Catalogue)) \cap BuildDiscoveryRemovals = {}
    BY PublishedTopics, CatalogueLength DEF published
  <2>2. /\ proc' = "up" /\ cfg' = cfg
        /\ retained' = (retained \cup published(Len(Catalogue))) \ BuildDiscoveryRemovals
        /\ subscribed' = (cfg.controls /\ TRUE)
    BY <1>1, Zenon DEF Republish, Publish, process
  <2>3. published(Len(Catalogue))' = published(Len(Catalogue))
    BY <2>2 DEF published
  <2>4. cfg'.controls => subscribed'
    BY <2>2, Zenon
  <2> QED
    BY <2>1, <2>2, <2>3, <2>4, Zenon
<1>2. CASE UNCHANGED <<broker, proc, cfg>>
  <2>1. published(Len(Catalogue))' = published(Len(Catalogue))
    BY <1>2 DEF published
  <2> QED
    BY <1>2, <2>1, Zenon DEF broker, Announced
<1>3. Stop \/ RepublishFails \/ Reconnect => ~announced'
  BY Zenon DEF Stop, RepublishFails, Reconnect
<1>4. Boot \/ LoadConfig => ~announced
  BY DEF Boot, LoadConfig, Announced
<1>5. Boot \/ LoadConfig => announced' = announced
  BY Zenon DEF Boot, LoadConfig, broker
<1>6. Change \/ ReadInput \/ ReadInputFails \/ PublishState \/ UNCHANGED vars
        => UNCHANGED <<broker, proc, cfg>>
  BY Zenon DEF Change, ReadInput, ReadInputFails, PublishState, vars, process, broker
<1> QED
  BY <1>1, <1>2, <1>3, <1>4, <1>5, <1>6, Zenon DEF Next

-----------------------------------------------------------------------------
(* Polls.                                                                  *)

\* The counter of the last document.
total == built.doc.grid_total_import[1]

\* Each frame in hand is of an instant since the poll began; the counter had,
\* in all of them, at least the value of the last document, and has not since
\* fallen below any.
FramesSeen ==
  /\ \A i \in DOMAIN snapshot : \E p \in seen : snapshot[i].words = input(p)
  /\ \A p \in seen : p.import <= plant.import
CounterGrows ==
  HaveDocument =>
    /\ total \in Nat
    /\ total <= plant.import
    /\ \A p \in seen : total <= p.import
Complete == HaveDocument => DOMAIN built.doc = StateKeys

PollInv == FramesSeen /\ CounterGrows /\ Complete /\ DocumentIsReal

\* A document is built of the two frames in hand.
LEMMA BuiltFromFrames ==
  ASSUME TypeOK, FramesSeen, PublishState, decodable(snapshot)
  PROVE  /\ DOMAIN built'.doc = StateKeys
         /\ built'.seen = seen
         /\ \E p, q \in seen : Shows(built'.doc, p, q)
<1>1. Len(snapshot) = 2 /\ DOMAIN snapshot = {1, 2}
  BY BlockValues DEF PublishState, TypeOK
<1>2. TwoFrames(snapshot)
  BY <1>1, BlockValues DEF TypeOK, TwoFrames
<1>3. PICK p \in seen : snapshot[1].words = input(p)
  BY <1>1 DEF FramesSeen
<1>4. PICK q \in seen : snapshot[2].words = input(q)
  BY <1>1 DEF FramesSeen
<1>5. p \in Plants /\ q \in Plants
  BY DEF TypeOK
<1>6. PICK t \in DecodeTelemetry(snapshot) : built' = [doc |-> BuildState(t), seen |-> seen]
  BY DEF PublishState
<1>7. Shows(BuildState(t), p, q) /\ DOMAIN BuildState(t) = StateKeys
  BY <1>2, <1>3, <1>4, <1>5, DocumentShows
<1>8. built'.doc = BuildState(t) /\ built'.seen = seen
  BY <1>6
<1> QED
  BY <1>7, <1>8, Zenon

LEMMA RealMeansShows ==
  DocumentIsReal <=> (HaveDocument => \E p, q \in built.seen : Shows(built.doc, p, q))
BY Zenon DEF DocumentIsReal, Shows

LEMMA SameDocument ==
  ASSUME built' = built
  PROVE  /\ HaveDocument' <=> HaveDocument
         /\ total' = total
         /\ Complete => Complete'
         /\ DocumentIsReal => DocumentIsReal'
<1>1. (HaveDocument' <=> HaveDocument) /\ total' = total
  BY Zenon DEF HaveDocument, total
<1>2. Complete => Complete'
  BY Zenon DEF HaveDocument, Complete
<1>3. DocumentIsReal => DocumentIsReal'
  BY Zenon DEF HaveDocument, DocumentIsReal
<1> QED
  BY <1>1, <1>2, <1>3

LEMMA PollChange == TypeOK /\ PollInv /\ Change => PollInv'
<1> SUFFICES ASSUME TypeOK, PollInv, Change
             PROVE  PollInv'
  OBVIOUS
<1>1. built' = built /\ snapshot' = snapshot
  BY DEF Change
<1>2. plant.import \in Nat /\ plant'.import \in Nat /\ plant.import <= plant'.import
  <2>1. plant.import \in Nat
    BY PlantTypes DEF TypeOK
  <2>2. \/ plant'.import = plant.import
        \/ plant'.import \in Imports /\ plant'.import > plant.import
    BY DEF Change, TypeOK, Plants
  <2>3. Imports \subseteq Nat
    BY PlantAssumption, Zenon DEF PlantAssumption
  <2>4. plant'.import \in Nat
    BY <2>1, <2>2, <2>3, Zenon
  <2>5. plant.import <= plant'.import
    BY <2>1, <2>2, <2>4
  <2> QED
    BY <2>1, <2>4, <2>5
<1>3. \A p \in seen : p.import \in Nat
  BY PlantTypes DEF TypeOK
<1>4. (seen' = {} /\ seen = {}) \/ seen' = seen \cup {plant'}
  BY Zenon DEF Change
<1>5. FramesSeen'
  <2>1. \A i \in DOMAIN snapshot' : \E p \in seen' : snapshot'[i].words = input(p)
    BY <1>1, <1>4, Zenon DEF PollInv, FramesSeen
  <2>2. \A p \in seen' : p.import <= plant'.import
    BY <1>2, <1>3, <1>4 DEF PollInv, FramesSeen
  <2> QED
    BY <2>1, <2>2 DEF FramesSeen
<1>6. CounterGrows'
  <2>1. HaveDocument => total \in Nat /\ total <= plant.import /\ \A p \in seen : total <= p.import
    BY DEF PollInv, CounterGrows
  <2>2. HaveDocument => total <= plant'.import /\ \A p \in seen' : total <= p.import
    BY <1>2, <1>3, <1>4, <2>1
  <2> QED
    BY <1>1, <2>1, <2>2, SameDocument, Zenon DEF CounterGrows
<1> QED
  BY <1>1, <1>5, <1>6, SameDocument, Zenon DEF PollInv

LEMMA PollRead == TypeOK /\ PollInv /\ ReadInput => PollInv'
<1> SUFFICES ASSUME TypeOK, PollInv, ReadInput
             PROVE  PollInv'
  OBVIOUS
<1>1. built' = built /\ plant' = plant /\ seen' = seen \cup {plant}
  BY DEF ReadInput
<1>2. plant.import \in Nat
  BY PlantTypes DEF TypeOK
<1>3. \E f : f.words = input(plant) /\ snapshot' = Append(snapshot, f)
  <2> DEFINE f(n) == [base |-> reading.base, len |-> n, words |-> input(plant)]
  <2>1. \A n : f(n).words = input(plant)
    OBVIOUS
  <2>2. \E n : snapshot' = Append(snapshot, f(n))
    BY Zenon DEF ReadInput
  <2> QED
    BY <2>1, <2>2, Zenon
<1>4. PICK f : f.words = input(plant) /\ snapshot' = Append(snapshot, f)
  BY <1>3
<1>5. snapshot \in Seq(Frames)
  BY Zenon DEF TypeOK, Frames
<1>6. /\ DOMAIN snapshot' = 1 .. Len(snapshot) + 1
      /\ snapshot'[Len(snapshot) + 1] = f
      /\ \A i \in 1 .. Len(snapshot) : i \in DOMAIN snapshot /\ snapshot'[i] = snapshot[i]
  BY <1>4, <1>5
<1>7. FramesSeen'
  <2>1. ASSUME NEW i \in DOMAIN snapshot'
        PROVE  \E p \in seen' : snapshot'[i].words = input(p)
    <3>1. Len(snapshot) \in Nat
      BY <1>5
    <3>2. i = Len(snapshot) + 1 \/ i \in 1 .. Len(snapshot)
      BY <1>6, <3>1
    <3>3. CASE i = Len(snapshot) + 1
      BY <1>1, <1>4, <1>6, <3>3, Zenon
    <3>4. CASE i \in 1 .. Len(snapshot)
      BY <1>1, <1>6, <3>4, Zenon DEF PollInv, FramesSeen
    <3> QED
      BY <3>2, <3>3, <3>4
  <2>2. \A p \in seen' : p.import <= plant'.import
    BY <1>1, <1>2 DEF PollInv, FramesSeen
  <2> QED
    BY <2>1, <2>2 DEF FramesSeen
<1>8. CounterGrows'
  BY <1>1, SameDocument, Zenon DEF PollInv, CounterGrows
<1> QED
  BY <1>1, <1>7, <1>8, SameDocument, Zenon DEF PollInv

LEMMA PollPublish ==
  TypeOK /\ PollInv /\ PublishState =>
    /\ PollInv'
    /\ HaveDocument => total' >= total
<1> SUFFICES ASSUME TypeOK, PollInv, PublishState
             PROVE  PollInv' /\ (HaveDocument => total' >= total)
  OBVIOUS
<1>1. snapshot' = <<>> /\ seen' = {} /\ plant' = plant
  BY DEF PublishState
<1>2. FramesSeen'
  BY <1>1 DEF FramesSeen
<1>3. CASE ~decodable(snapshot)
  <2>1. built' = built
    BY <1>3 DEF PublishState
  <2>2. HaveDocument => total \in Nat /\ total' = total
    BY <2>1, SameDocument DEF PollInv, CounterGrows
  <2>3. CounterGrows'
    BY <1>1, <2>1, SameDocument, Zenon DEF PollInv, CounterGrows
  <2>4. HaveDocument => total' >= total
    BY <2>2
  <2> QED
    BY <1>2, <2>1, <2>3, <2>4, SameDocument, Zenon DEF PollInv
<1>4. CASE decodable(snapshot)
  <2>1. /\ DOMAIN built'.doc = StateKeys
        /\ built'.seen = seen
        /\ \E p, q \in seen : Shows(built'.doc, p, q)
    BY <1>4, BuiltFromFrames DEF PollInv
  <2>2. PICK p \in seen, q \in seen : Shows(built'.doc, p, q)
    BY <2>1
  <2>3. total' = q.import /\ q.import \in Nat /\ q.import <= plant.import
    <3>1. built'.doc.grid_total_import = <<q.import, 1>>
      BY <2>2, Zenon DEF Shows
    <3>2. q.import \in Nat
      BY PlantTypes DEF TypeOK
    <3>3. q.import <= plant.import
      BY DEF PollInv, FramesSeen
    <3> QED
      BY <3>1, <3>2, <3>3 DEF total
  <2>4. CounterGrows'
    BY <1>1, <2>3 DEF CounterGrows
  <2>5. Complete'
    BY <2>1, Zenon DEF Complete
  <2>6. DocumentIsReal'
    BY <2>1, Zenon DEF DocumentIsReal, Shows
  <2>7. HaveDocument => total' >= total
    BY <2>3 DEF PollInv, CounterGrows
  <2> QED
    BY <1>2, <2>4, <2>5, <2>6, <2>7, Zenon DEF PollInv
<1> QED
  BY <1>3, <1>4

LEMMA PollStep ==
  TypeOK /\ PollInv /\ [Next]_vars =>
    /\ PollInv'
    /\ HaveDocument => total' >= total
<1> SUFFICES ASSUME TypeOK, PollInv, [Next]_vars
             PROVE  PollInv' /\ (HaveDocument => total' >= total)
  OBVIOUS
<1>1. built' = built => (HaveDocument => total' >= total)
  BY SameDocument DEF PollInv, CounterGrows
<1>2. CASE Change
  BY <1>1, <1>2, PollChange DEF Change
<1>3. CASE ReadInput
  BY <1>1, <1>3, PollRead DEF ReadInput
<1>4. CASE PublishState
  BY <1>4, PollPublish
<1>5. CASE Stop \/ ReadInputFails
  <2>1. snapshot' = <<>> /\ seen' = {} /\ plant' = plant /\ built' = built
    BY <1>5 DEF Stop, ReadInputFails
  <2>2. FramesSeen'
    BY <2>1 DEF FramesSeen
  <2>3. CounterGrows'
    BY <2>1, SameDocument, Zenon DEF PollInv, CounterGrows
  <2> QED
    BY <1>1, <2>1, <2>2, <2>3, SameDocument, Zenon DEF PollInv
<1>6. CASE UNCHANGED <<plant, poll>>
  <2>1. snapshot' = snapshot /\ seen' = seen /\ plant' = plant /\ built' = built
    BY <1>6 DEF poll
  <2>2. FramesSeen'
    BY <2>1, Zenon DEF PollInv, FramesSeen
  <2>3. CounterGrows'
    BY <2>1, SameDocument, Zenon DEF PollInv, CounterGrows
  <2> QED
    BY <1>1, <2>1, <2>2, <2>3, SameDocument, Zenon DEF PollInv
<1>7. Boot \/ LoadConfig \/ Republish \/ RepublishFails \/ Reconnect \/ UNCHANGED vars
        => UNCHANGED <<plant, poll>>
  BY Zenon DEF Boot, LoadConfig, Republish, RepublishFails, Reconnect, Publish, vars, poll
<1> QED
  BY <1>2, <1>3, <1>4, <1>5, <1>6, <1>7, Zenon DEF Next

-----------------------------------------------------------------------------
(* The theorems.                                                           *)

IInv == TypeOK /\ Counted /\ Announced /\ PollInv

LEMMA Inductive == Spec => []IInv
<1>1. Init => IInv
  <2> SUFFICES ASSUME Init
               PROVE  IInv
    OBVIOUS
  <2>1. TypeOK /\ Counted
    BY InitType
  <2>2. Announced
    BY Zenon DEF Init, Announced
  <2>3. ~HaveDocument
    BY DEF Init, HaveDocument, NoDocument
  <2>4. FramesSeen
    BY DEF Init, FramesSeen
  <2>5. CounterGrows /\ Complete /\ DocumentIsReal
    BY <2>3, Zenon DEF CounterGrows, Complete, DocumentIsReal
  <2> QED
    BY <2>1, <2>2, <2>4, <2>5 DEF IInv, PollInv
<1>2. IInv /\ [Next]_vars => IInv'
  BY TypeStep, AnnouncedStep, PollStep DEF IInv
<1> QED
  BY <1>1, <1>2, PTL DEF Spec

\* Collect reads the two blocks at two instants and DecodeTelemetry fails on a
\* register that is missing: for every plant, every pair of instants and every
\* short frame, each document shows what was measured during its own poll, the
\* signed and the wide values put together from their words included.
THEOREM DocumentsAreReal == Spec => []DocumentIsReal
<1>1. IInv => DocumentIsReal
  BY DEF IInv, PollInv
<1> QED
  BY <1>1, Inductive, PTL

\* However polls fail, restart or are overtaken by the inverter, the import
\* counter of the documents that BuildState makes never goes back.
THEOREM TotalsGrow == Spec => TotalsNeverFall
<1>1. IInv /\ [Next]_vars
        => [HaveDocument => built'.doc.grid_total_import[1] >= built.doc.grid_total_import[1]]_vars
  BY PollStep, Zenon DEF IInv, total
<1> QED
  BY <1>1, Inductive, PTL DEF Spec, TotalsNeverFall

\* After a republish that went through, whatever an earlier version or a
\* republish that broke off left in the broker: every entity is announced, has
\* its field in the document and, when it takes commands, its subscription.
THEOREM AnnouncedEntitiesWork == Spec => []EntitiesWork
<1>1. IInv => EntitiesWork
  <2> SUFFICES ASSUME IInv, announced, NEW topic \in retained
               PROVE  /\ HaveDocument /\ readsState(topic) => topic[2] \in DOMAIN built.doc
                      /\ cfg.controls /\ takesCommands(topic) => subscribed /\ topic[2] \in route
    BY Zenon DEF EntitiesWork, IInv, Announced
  <2>1. topic \in Topics /\ topic \notin BuildDiscoveryRemovals
    BY Zenon DEF IInv, TypeOK, Announced
  <2>2. /\ readsState(topic) => topic[2] \in StateKeys
        /\ takesCommands(topic) => topic[2] \in route
    BY <2>1, TopicOf
  <2> QED
    BY <2>2, Zenon DEF IInv, Announced, PollInv, Complete
<1> QED
  BY <1>1, Inductive, PTL
=============================================================================
