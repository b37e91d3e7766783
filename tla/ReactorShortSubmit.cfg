\* The kernel may take a part of the submission queue, twice.
SPECIFICATION Spec
CONSTANTS
  Req = {r1, r2}
  SQSize = 2
  Faults = {"partial"}
  MaxFaults = 2
  MaxRefused = 0
PROPERTIES CallReturns
