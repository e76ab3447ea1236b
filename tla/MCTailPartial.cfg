CONSTANTS
  Content <- Unterminated
  MaxTruncations = 0
  BufSize = 4
  Configs <- AllConfigs
  StopLines = {}
SPECIFICATION Spec
CHECK_DEADLOCK FALSE
PROPERTY EndsWithoutFollow
