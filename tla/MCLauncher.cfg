CONSTANTS
  MaxPresses = 2
  MaxGames = 1
  MaxQueue = 1
  MaxSignals = 1
SPECIFICATION Spec
CHECK_DEADLOCK FALSE
INVARIANTS TypeOK KeyboardThreadWoken
PROPERTIES ExitsWhenHeard StopsWithoutFocus
