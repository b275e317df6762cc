SPECIFICATION Spec
CONSTANTS
  Requests = {x1, x2, x3}
  Readers = {l1}
  MaxRecords = 2
  MaxFaults = 1
INVARIANTS FileIsKept
CHECK_DEADLOCK FALSE
