SPECIFICATION Spec
CONSTANTS
  Numerals = {"1", "2", "3", "4"}
  Names <- MC_Names
  Documents = {"1"}
  Inquiries <- MC_Inquiries
  MaxCalls = 6
INVARIANT ConflictsCanBeSplit
CHECK_DEADLOCK FALSE
