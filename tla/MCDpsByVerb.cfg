CONSTANTS
  You = You
  Kai = Kai
  Orc = Orc
  hit = hit
  backstab = backstab
  NoName = NoName
  Name <- MCName
  YouAliases <- MCAliases
  Me = You
  Verb <- MCVerb
  KeepAlive = 1
  Extra = FALSE
  ByVerb = TRUE
  ReportByTarget = FALSE
  FinishingDamage = 3
  LogLines <- ReportLines
  Dates = {0, 1, 2}
  MonotoneDates = TRUE
  Since <- NoDate
  Until <- NoDate
  MaxLines = 5
SPECIFICATION Spec
CHECK_DEADLOCK FALSE
INVARIANT RowsSortedByDps
