SPECIFICATION CarrySpec
CONSTANTS
  Values = {"9", "in"}
  Numbers = {"9"}
  Drafted <- MC_Drafted
  Items = {i1}
  Questions = {q1}
  Lists = {l1}
  Inputs <- MC_Note
  Decisions = {}
  MaxEdits = 1
  MaxConfirmations = 2
  MaxComments = 1
  MaxApprovals = 3
INVARIANTS TypeOK ListedFlagWasTrue RecordsAreNoticed
CHECK_DEADLOCK FALSE
