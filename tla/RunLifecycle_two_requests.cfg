SPECIFICATION Spec
CONSTANTS
  Requests = {q1, q2}
  q1 = q1
  q2 = q2
  Boot = boot
  boot = boot
  MaxRuns = 2
  MaxToolSteps = 0
  MaxFaults = 0
  MaxStops = 0
SYMMETRY RequestSymmetry
INVARIANTS SingleRunning
PROPERTIES EndsOnce
CHECK_DEADLOCK FALSE
