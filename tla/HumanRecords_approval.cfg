SPECIFICATION Spec
CONSTANTS
  Values = {"9", "in"}
  Numbers = {"9"}
  Drafted <- MC_Drafted
  Items = {i1, i2}
  Questions = {}
  Lists = {}
  Inputs <- MC_Note
  Decisions = {"hold"}
  MaxEdits = 2
  MaxConfirmations = 3
  MaxComments = 2
  MaxApprovals = 6
INVARIANTS StateIsLatestEvent CheckWasEarned
PROPERTIES CommentTakenOnce KeepsReviewPromise
CHECK_DEADLOCK FALSE
