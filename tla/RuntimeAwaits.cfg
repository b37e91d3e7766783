\* Every task awaits one future after the other; two entries for three tasks.
SPECIFICATION Spec
CONSTANTS
  NULL = NULL
  Task = {a, b, c}
  Width = 1
  SQSize = 2
INVARIANTS TypeOK RequestLives ParkedAwaitsOne
PROPERTIES ImplementsScheduler CompletionPolled
