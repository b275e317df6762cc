SPECIFICATION Spec
CONSTANTS
  d1 = d1
  d2 = d2
  d3 = d3
  Docs = {d1, d2, d3}
  Locators = {1, 2}
  Readable <- MC_Readable
  Emails = {d2}
  Flawed = {d3}
  Intakes = {i1, i2}
  Excluders = {e1}
  None = None
  MaxDocuments = 1
  MaxRuns = 2
  MaxReports = 1
SYMMETRY Symmetry
INVARIANTS RunAvoidsExcluded OvershootBounded FinalizedReadAll CompleteIsRead
CHECK_DEADLOCK FALSE
