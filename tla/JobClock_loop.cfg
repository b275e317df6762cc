SPECIFICATION Spec
CONSTANTS
  Calls <- MC_Calls
  Codes = {"E1"}
  Violations = {"v1"}
  Reasons = {"exhausted"}
  MaxTurns = 3
  RepeatLimit = 2
  ValidationLimit = 2
  Inner = 2
  Inactivity = 1
  Cleanup = 1
  MaxWaiting = 2
  MaxMessages = 1
  Outer = 4
  Finish = 1
  Delay <- MC_Delay
  RECOVERY_GRACE = 11
  Slack = 1
INVARIANTS TypeOK StopIsWarranted RepliesMatch JobIsDoneFirst OuterIsLastResort
PROPERTIES SilenceIsReal LoopEnds
CHECK_DEADLOCK FALSE
