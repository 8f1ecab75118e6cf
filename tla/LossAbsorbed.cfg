CONSTANTS
  ScheduleSize = 3
  ConnectionLostDelay = TRUE
  ArmMayFail = FALSE
  QueueCommands = TRUE
  Budgets <- LostTwice
SPECIFICATION Spec
INVARIANTS
  LossIsRecovered
