CONSTANTS
  Content <- MixedNewlines
  MaxTruncations = 1
  BufSize = 4
  Configs <- AllConfigs
  StopLines = {3}
SPECIFICATION Spec
CHECK_DEADLOCK FALSE
INVARIANTS TypeOK ConsumedDelivered NothingAfterRefusal BlockedAtEnd
PROPERTIES RefinesLineStream EveryLineDelivered CatchesUp
