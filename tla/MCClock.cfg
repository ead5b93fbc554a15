SPECIFICATION FairSpec
CONSTANTS
  Units <- MCUnits
  Zones <- MCZones
  Shift = 4
  SyncEnabled = TRUE
  Threshold = 2
  MaxLag = 3
  MaxCommands = 1
  MaxMishaps = 2
  MaxSkews = 1
  MaxRollovers = 1
INVARIANT TypeOK
PROPERTIES SyncSetsClock SyncsWhenOff Resyncs SelfLimiting
