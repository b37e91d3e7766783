\* A task may wait for two wake-ups at a time (joined futures).
SPECIFICATION SafeSpec
CONSTANTS
  NULL = NULL
  N = 2
  Boxed = {b1}
  MaxWaits = 2
PROPERTIES WakesUnqueuedTask
