SPECIFICATION Spec
CONSTANTS
  Values = {"9", "in"}
  Numbers = {"9"}
  Drafted <- MC_Drafted
  Items = {i1}
  Questions = {}
  Lists = {}
  Inputs <- MC_Measures
  Decisions = {}
  MaxEdits = 2
  MaxConfirmations = 3
  MaxComments = 2
  MaxApprovals = 6
INVARIANTS QuantityHasUnit
CHECK_DEADLOCK FALSE
