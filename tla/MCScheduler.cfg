SPECIFICATION FairSpec
CONSTANTS
  MaxRetries = 1
  FailureThreshold = 2
  Hooks = {1}
  MaxCommands = 1
  MaxRepairs = 1
  MaxMishaps = 2
INVARIANTS TypeOK ReconcileSeesInverter CacheIsLastRead ReadyMeansRecent
PROPERTIES PageDatesSetpoints CommandsEnd StateSettles
