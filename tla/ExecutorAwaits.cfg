\* Two pool slots and two leaked tasks; one wake-up outstanding per task.
SPECIFICATION Spec
CONSTANTS
  NULL = NULL
  N = 2
  Boxed = {b1, b2}
  MaxWaits = 1
INVARIANTS TypeOK QueueIntact EachTaskOnce SpawnedExact PoolIntact
PROPERTIES RunReturnsIdle ImplementsScheduler WokenIsPolled
