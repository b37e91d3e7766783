\* Signals only: no EBUSY or EAGAIN, no short submission, no other error.
SPECIFICATION Spec
CONSTANTS
  Req = {r1, r2}
  SQSize = 2
  Faults = {"intr"}
  MaxFaults = 2
  MaxRefused = 1
INVARIANTS TimersAccounted NoPanic
PROPERTIES CallReturns RequestsServed
