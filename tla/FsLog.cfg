\* Two operations of two blocks fill the log; crashes between any two writes.
SPECIFICATION FairSpec
CONSTANTS
  Procs = {p1, p2}
  Blocks = {blkA, blkB, blkC}
  Data = {old, new}
  MAXOPBLOCKS = 2
  LOGSIZE = 4
  NLOG = 4
 
PROPERTIES  SleepersRetry
CHECK_DEADLOCK FALSE
