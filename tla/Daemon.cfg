CONSTANTS
  ScheduleSize = 1
  ConnectionLostDelay = TRUE
  ArmMayFail = TRUE
  QueueCommands = TRUE
  Budgets <- DaemonBudgets
SPECIFICATION Spec
INVARIANTS
  TypeOK
  OneCompletionPerCycle
  SafetyTimerOnlyInSuspend
  StaleSafetyEventHarmless
  LockFreeOncePrepared
  LockHeldWhenSettled
  WaitingIffRetryArmed
  AttemptInFlight
  SleepReady
  CommandsInOrder
  OneReplyPerCommand
  NothingBetweenCloseAndReopen
