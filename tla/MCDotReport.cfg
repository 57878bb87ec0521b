SPECIFICATION FairSpec
CONSTANTS
  Counts <- MCCounts
INVARIANTS TypeOK StoresInBounds ReportIsRight
PROPERTIES WindowsAreWritten ReportEnds
CHECK_DEADLOCK FALSE
