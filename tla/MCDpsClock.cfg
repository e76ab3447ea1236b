CONSTANTS
  You = You
  Kai = Kai
  Orc = Orc
  hit = hit
  backstab = backstab
  NoName = NoName
  Name <- MCName
  YouAliases <- MCAliases
  Me = Kai
  Verb <- MCVerb
  KeepAlive = 1
  Extra = TRUE
  ByVerb = FALSE
  ReportByTarget = TRUE
  FinishingDamage = 3
  LogLines <- SpecialLines
  Dates <- ClockDates
  MonotoneDates = FALSE
  Since <- NoDate
  Until = 4
  MaxLines = 4
SPECIFICATION Spec
CHECK_DEADLOCK FALSE
INVARIANTS TypeOK NamesInterned FightsIndexed MagicWithinFight SpecialsAnnounced
  FinishingBlowsDealt RowsSortedByDps
