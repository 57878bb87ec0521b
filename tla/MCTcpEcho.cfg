SPECIFICATION FairSpec
CONSTANTS
  BufSize = 4
  MaxLines = 3
INVARIANTS TypeOK EchoIsOrdered
PROPERTIES ReplyComes ServerEnds
CHECK_DEADLOCK FALSE
