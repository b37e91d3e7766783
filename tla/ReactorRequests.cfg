\* Every kind of fault; two requests for a queue of two entries.
SPECIFICATION SafeSpec
CONSTANTS
  Req = {r1, r2, r3}
  SQSize = 2
  Faults = {"intr", "busy", "partial", "fatal"}
  MaxFaults = 2
  MaxRefused = 1
INVARIANTS TypeOK RequestsAccounted SleepsOnlyIdle
