CONSTANTS
  You = You
  Kai = Kai
  Orc = Orc
  hit = hit
  backstab = backstab
  NoName = NoName
  Name <- MCName
  YouAliases <- MCAliases
  Me = Kai
  Verb <- MCVerb
  KeepAlive = 1
  Extra = FALSE
  ByVerb = TRUE
  ReportByTarget = FALSE
  FinishingDamage = 3
  LogLines <- LedgerLines
  Dates = {0, 1, 3, 4, 5}
  MonotoneDates = TRUE
  Since = 1
  Until = 4
  MaxLines = 4
  SpellsTotal = SpellsTotal
  Backstabs <- MCBackstabs
SPECIFICATION PairSpec
CHECK_DEADLOCK FALSE
INVARIANTS NothingLost BattleWindow SameStory
PROPERTIES RefinesLedger PortRefinesLedger
