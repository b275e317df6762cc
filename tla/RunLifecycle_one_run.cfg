SPECIFICATION FairSpec
CONSTANTS
  Requests = {q1}
  q1 = q1
  Boot = boot
  boot = boot
  MaxRuns = 1
  MaxToolSteps = 2
  MaxFaults = 3
  MaxStops = 1
INVARIANTS SuccessIsClean WellOrderedSteps TracePrefix EndIsRecorded
PROPERTIES RunEnds WritesAreFenced KeepsPromise
CHECK_DEADLOCK FALSE
