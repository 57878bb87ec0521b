SPECIFICATION FairSpec
CONSTANTS
  t1 = t1
  t2 = t2
  NKeys = 2
  MaxRaised = 2
  Threads <- MCThreads
  Watch <- MCWatch
INVARIANTS TypeOK PressBudget
PROPERTIES ImplementsLatch KeptUntilReported VisiblePressIsReported
