SPECIFICATION Spec
CONSTANTS
  HoursPerDay = 2
  MinutesPerHour = 4
  boostStep = 2
  boostDurations = {2, 4}
  Configs <- MCConfigs
  Requests <- MCRequests
  AppWindows <- MCAppWindows
  WorkModes = {33, 35}
  MaxCommands = 1
  MaxMishaps = 1
  MaxEdits = 1
INVARIANTS TypeOK ScheduleStaysReadable NoNeedlessWrite
PROPERTIES NeverBothDirections SuccessMeansHeld WritesAreOwned
