SPECIFICATION Spec
CONSTANTS
  ReadDelay = 2
  PollDelay = 1
  DeadReads = 6
  Jitter = 1
  MinDwell = 6
  MaxDwell = 8
  Spacing = 23
  MaxCoins = 3
INVARIANTS TypeOK CoinCountedOnce SeenCoinsAreCounted
PROPERTIES NoCoinMissed
CHECK_DEADLOCK FALSE
