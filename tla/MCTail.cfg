CONSTANTS
  Content <- MixedNewlines
  MaxTruncations = 1
  BufSize = 4
  Configs <- AllConfigs
  StopLines = {4}
SPECIFICATION Spec
CHECK_DEADLOCK FALSE
INVARIANTS TypeOK ConsumedDelivered NeverGlued
PROPERTIES RefinesLineStream EveryLineDelivered EndsAtWholeLine CatchesUp
