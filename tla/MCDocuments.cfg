SPECIFICATION Spec
CONSTANTS
  Second = 10
  Limit = 131072
  Gap <- MCGap
  Words = {"none", "live", "mock", "other", "set"}
  Envs <- MCStarts
  Batteries <- MCBatteries
  Grids <- MCGrids
  Imports = {65535, 65536}
  Clocks <- MCClocks
  Codes = {0, 131}
  Breaks = {0, 30, 60}
  MaxChanges = 2
  MaxMishaps = 1
INVARIANTS TypeOK DocumentIsReal EntitiesWork SameEnvironment
PROPERTY TotalsNeverFall
CHECK_DEADLOCK FALSE
