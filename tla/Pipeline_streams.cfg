CONSTANTS
  Launchers = {l1, l2}
  Interrupters = {i1, i2}
  MaxLaunches = 2
  MaxInterrupts = 2
SPECIFICATION FairSpec
INVARIANT
  NothingLeftBehind
PROPERTIES
  ImplementsStream
  InterruptedStreamEnds
CHECK_DEADLOCK FALSE
