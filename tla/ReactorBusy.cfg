\* submit_and_wait may fail with EBUSY or EAGAIN, once.
SPECIFICATION SafeSpec
CONSTANTS
  Req = {r1, r2}
  SQSize = 2
  Faults = {"busy"}
  MaxFaults = 1
  MaxRefused = 0
INVARIANTS TimersAccounted
