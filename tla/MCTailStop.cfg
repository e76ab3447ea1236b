CONSTANTS
  Content <- Terminated
  MaxTruncations = 0
  BufSize = 8
  Configs <- AllConfigs
  StopLines = {2}
SPECIFICATION Spec
CHECK_DEADLOCK FALSE
INVARIANT NothingAfterRefusal
