SPECIFICATION FairDaySpec
CONSTANTS
  HoursPerDay = 2
  MinutesPerHour = 4
  boostStep = 2
  boostDurations = {2}
  Configs <- MCTariff
  Requests = {}
  AppWindows = {}
  WorkModes = {35}
  MaxCommands = 1
  MaxMishaps = 1
  MaxEdits = 0
  PollPeriod = 1
PROPERTIES BoostSlotClears TariffSettles
