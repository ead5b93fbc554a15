SPECIFICATION FairSpec
CONSTANTS
  Hooks = {h1, h2}
  MaxCommands = 1
CHECK_DEADLOCK FALSE
INVARIANTS TypeOK AnnouncedWhenUp QuietAtDisconnect ExitAfterTeardown
PROPERTY ShutdownEnds
