SPECIFICATION HistorySpec
CONSTANTS
  m = m
  s1 = s1
  s2 = s2
  NKeys = 2
  Threads <- MCThreads
  Main = m
  Sensors <- MCSensors
  MaxCoins = 1
  MaxCredit = 2
SYMMETRY Symmetry
INVARIANTS TypeOK MotorOffInMenu OnePressOneAction
PROPERTY ImplementsSession
