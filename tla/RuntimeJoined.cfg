\* Tasks that join two leaf futures.
SPECIFICATION SafeSpec
CONSTANTS
  NULL = NULL
  Task = {a, b}
  Width = 2
  SQSize = 4
INVARIANTS RequestLives
