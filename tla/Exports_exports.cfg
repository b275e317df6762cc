SPECIFICATION Spec
CONSTANTS
  Requests = {x1, x2, x3}
  Readers = {l1}
  MaxRecords = 2
  MaxFaults = 1
SYMMETRY RequestSymmetry
INVARIANTS ExportInv NoFileIsLeft VerdictWarranted
PROPERTIES KeepsArchive
CHECK_DEADLOCK FALSE
