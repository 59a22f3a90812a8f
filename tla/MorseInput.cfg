CONSTANTS
  Kinds = {"talk", "p2p", "openchat", "game"}
  Long = 3
  Gap = 5
  Lag = 1
  Pause = 7
  Rounds = 1
  MaxEvents = 6
SPECIFICATION MorseSpec
INVARIANTS
  KeyedIsCommitted
  KeyedTone
CHECK_DEADLOCK FALSE
