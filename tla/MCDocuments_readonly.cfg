SPECIFICATION Spec
CONSTANTS
  Second = 10
  Limit = 131072
  Gap <- MCGap
  Words = {"none", "live", "mock", "other", "set"}
  Envs <- MCTwice
  Batteries <- MCBatteries
  Grids <- MCGrids
  Imports = {65535}
  Clocks <- MCClocks
  Codes = {0}
  Breaks = {}
  MaxChanges = 0
  MaxMishaps = 0
INVARIANT ReadOnlyHasNoCommands
CHECK_DEADLOCK FALSE
