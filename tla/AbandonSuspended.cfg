CONSTANTS
  ScheduleSize = 3
  ConnectionLostDelay = TRUE
  ArmMayFail = FALSE
  QueueCommands = TRUE
  Budgets <- LostWhileSuspended
SPECIFICATION Spec
PROPERTIES
  NoAbandonWhileSuspended
