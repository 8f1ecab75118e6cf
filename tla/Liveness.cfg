CONSTANTS
  ScheduleSize = 1
  ConnectionLostDelay = TRUE
  ArmMayFail = FALSE
  QueueCommands = FALSE
  Budgets <- LivenessBudgets
SPECIFICATION FairSpec
PROPERTIES
  SleepIsNotHeldUp
  CyclesEnd
  ReconnectEnds
  ClientsAreAnswered
