SPECIFICATION OutputSpec
CONSTANTS
  p1 = p1
  p2 = p2
  p3 = p3
  None = None
  Procs <- MCProcs
  N = 3
  Base = 5
  Refreshes = 2
  Pulses = 2
  num <- MCnum
  fnd_values <- MCfnd_values
  Blank = Blank
  Unset = Unset
  Spoilt = Spoilt
SYMMETRY Symmetry
INVARIANTS OutputTypeOK OneHolder HandlerIsLoaded MappedUnlessRaced BusyHasCause DisplayIsRight
CHECK_DEADLOCK FALSE
