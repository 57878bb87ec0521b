SPECIFICATION FairSpec
CONSTANTS
  m = m
  s1 = s1
  s2 = s2
  NKeys = 2
  Threads <- MCThreads
  Main = m
  Sensors <- MCSensors
  MaxCoins = 0
PROPERTIES CountingEnds VisiblePressStopsCounting
