SPECIFICATION DummySpec
CONSTANTS
  Numerals = {"1", "2", "3", "4"}
  Names <- MC_DummyNames
  Documents = {"1", "2"}
  Inquiries <- MC_Inquiries
  Cases <- MC_Cases
  LateRanges = {"late"}
  MaxCalls = 6
INVARIANTS TypeOK AcceptedIsStorable BackstopsAreIdle FinalizedIsValid ViolationsCanBeRemedied InventoryReconciles RefusedForCause PublishesAllOrNothing
CHECK_DEADLOCK FALSE
