SPECIFICATION FairSpec
CONSTANTS
  ScheduleSize = 2
  MaxOutages = 1
  MaxFaults = 1
  MaxSleeps = 2
  MaxRequests = 1
  MaxTimeouts = 1
INVARIANTS
  BusInv
  FollowsLogind
  LockAfterOutage
PROPERTIES
  BusRecovers
CHECK_DEADLOCK FALSE
