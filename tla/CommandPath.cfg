SPECIFICATION Spec
CONSTANTS
  c1 = c1
  c2 = c2
  Clients = {c1, c2}
  Lines <- MixedLines
  HandRolled <- OddBytes
  RetryLimits = {0, 2}
  QueueCommands = TRUE
  baseInterval = 1
  maxInterval = 2
  MaxFaults = 2
  MaxSuspends = 1
SYMMETRY ClientSymmetry
INVARIANTS
  OnlyWhatWasSaid
  SuccessIsTrue
  OnceUnlessMisreported
PROPERTIES
  SlotsSpaced
CHECK_DEADLOCK FALSE
