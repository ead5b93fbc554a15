SPECIFICATION DaySpec
CONSTANTS
  HoursPerDay = 3
  MinutesPerHour = 4
  boostStep = 2
  boostDurations = {2, 4}
  Configs <- MCNoTariff
  Requests = {}
  AppWindows = {}
  WorkModes = {35}
  MaxCommands = 2
  MaxMishaps = 1
  MaxEdits = 0
  PollPeriod = 1
PROPERTY KeptIsMeant
