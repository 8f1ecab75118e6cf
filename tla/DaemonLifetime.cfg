SPECIFICATION FairSpec
INVARIANTS
  NoUseAfterDestruction
  NothingLeftBehind
PROPERTIES
  EndsEventually
CHECK_DEADLOCK FALSE
