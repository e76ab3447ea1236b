CONSTANTS
  MINUTE = 2
  HOUR = 6
  DAY = 24
  NoStamp = NoStamp
  Release <- MCRelease
  Instants <- MCInstants
  LastDay = 0
  LastTextDay = 0
  Name <- MCName
  Me <- MCMe
  Value <- MCValue
  ThirdPerson <- MCThirdPerson
SPECIFICATION Spec
INVARIANTS VerbWithoutSpaces
