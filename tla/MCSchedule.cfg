SPECIFICATION Spec
CONSTANTS
  HoursPerDay = 24
  MinutesPerHour = 60
  boostStep = 15
  boostDurations = {15, 30, 45, 60}
  TariffMinutes = {0, 329, 1411}
INVARIANTS PlanIsExact SelectShowsChoice TariffSplitIsExact BoostRunsItsWindow WriteOrderClearsFirst
