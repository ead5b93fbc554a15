SPECIFICATION Spec
CONSTANTS
  Hooks = {h1, h2}
  MaxCommands = 1
CHECK_DEADLOCK FALSE
INVARIANT SignalExitsCleanly
