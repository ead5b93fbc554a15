----------------------------- MODULE Discovery -----------------------------
(***************************************************************************)
(* What the manager tells Home Assistant of itself: the catalogue of       *)
(* entities (homeassistant/entities.go), the retained discovery configs    *)
(* that announce them (discovery.go), and the command keys it answers to   *)
(* (controls/handler.go route).                                            *)
(*                                                                         *)
(* A topic is the pair of a component and a key; the serial and the        *)
(* prefixes are those of one inverter.  Of a config only what ties it to   *)
(* the other topics is kept: whether it reads the state document and       *)
(* whether it has a command topic.                                         *)
(***************************************************************************)
EXTENDS Integers, Sequences

Catalogue ==
  <<"battery_voltage", "battery_current", "battery_power",
    "battery_charge_power", "battery_discharge_power", "battery_charging",
    "battery_soc", "battery_soh", "bms_voltage", "bms_current",
    "bms_charge_current_limit", "bms_discharge_current_limit", "bms_fault_1",
    "bms_fault_2", "bms_over_voltage", "bms_under_voltage", "bms_over_temp",
    "bms_under_temp", "bms_charge_over_temp", "bms_charge_under_temp",
    "bms_discharge_over_current", "bms_charge_over_current",
    "bms_internal_protection", "bms_module_unbalanced", "overdischarge_soc",
    "force_charge_soc", "pv1_voltage", "pv1_current", "pv2_voltage",
    "pv2_current", "pv_total_power", "grid_power", "grid_total_import",
    "grid_import_today", "grid_total_export", "grid_export_today",
    "ac_active_power", "inverter_temperature", "grid_frequency",
    "house_load", "generation_today", "generation_yesterday",
    "battery_total_charge", "battery_charge_today",
    "battery_total_discharge", "battery_discharge_today", "status",
    "status_text", "operating_status", "work_mode", "rtc", "rtc_drift",
    "tou_window", "boost", "boost_ends_at", "inverter_max_charge_current",
    "inverter_max_discharge_current", "set_charge_current",
    "set_discharge_current", "optimal_income", "boost_select", "rtc_sync">>

BinarySensors ==
  {"battery_charging", "bms_over_voltage", "bms_under_voltage",
   "bms_over_temp", "bms_under_temp", "bms_charge_over_temp",
   "bms_charge_under_temp", "bms_discharge_over_current",
   "bms_charge_over_current", "bms_internal_protection",
   "bms_module_unbalanced"}

Numbers == {"set_charge_current", "set_discharge_current"}
Selects == {"optimal_income", "boost_select"}
Buttons == {"rtc_sync"}

Commands == Numbers \cup Selects \cup Buttons

component(k) == CASE k \in BinarySensors -> "binary_sensor"
                  [] k \in Numbers -> "number"
                  [] k \in Selects -> "select"
                  [] k \in Buttons -> "button"
                  [] OTHER -> "sensor"

DiscoveryTopic(c, k) == <<c, k>>

\* The configs of the first n entities of the catalogue, in the order of which
\* they are published, the command entities only with the controls enabled.
BuildDiscovery(n, controls) ==
  {DiscoveryTopic(component(k), k) :
     k \in {Catalogue[i] : i \in 1 .. n} \ (IF controls THEN {} ELSE Commands)}

\* The switch that the select of the same key replaced.
BuildDiscoveryRemovals == {DiscoveryTopic("switch", "optimal_income")}

Topics == BuildDiscovery(Len(Catalogue), TRUE) \cup BuildDiscoveryRemovals

\* A button has no state; the others read the field of their key.
readsState(topic) == topic[1] # "button"

\* The keys with a command topic, "~/<key>/set".
takesCommands(topic) == topic[1] \in {"number", "select", "button"}

\* Mutant: the clock command is not routed.
routeNoClock == {"set_charge_current", "set_discharge_current",
                 "optimal_income", "boost_select"}

\* The keys a command is carried out for.
route == {"set_charge_current", "set_discharge_current",
          "optimal_income", "boost_select", "rtc_sync"}
=============================================================================
