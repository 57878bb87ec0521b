SPECIFICATION LedFairSpec
CONSTANTS
  app = app
  NKeys = 1
  Threads <- MCThreads
  App = app
  CharValues = 3
  MaxPresses = 4
INVARIANTS LedTypeOK ShownCountIsCurrent
PROPERTIES VisiblePressIsShown LedGoesOff
