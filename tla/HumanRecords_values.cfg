SPECIFICATION Spec
CONSTANTS
  Values = {"9", "in"}
  Numbers = {"9"}
  Drafted <- MC_Drafted
  Items = {i1}
  Questions = {}
  Lists = {}
  Inputs <- MC_Measures
  Decisions = {}
  MaxEdits = 4
  MaxConfirmations = 0
  MaxComments = 0
  MaxApprovals = 0
PROPERTIES CorrectionRepairs
CHECK_DEADLOCK FALSE
