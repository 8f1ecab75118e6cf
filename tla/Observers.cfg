SPECIFICATION FairSpec
CONSTANTS
  tv = tv
  hdmi1 = hdmi1
  Addresses = {tv, hdmi1}
  Configured = {"TVStandby", "InputSwitch", "HostActivated"}
  MaxObservations = 3
  MaxFaults = 1
INVARIANTS
  ScriptsSeeAChain
  HookInv
PROPERTIES
  CommitsOnlySettled
  SettledSourceReported
CHECK_DEADLOCK FALSE
