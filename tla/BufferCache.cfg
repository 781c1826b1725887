\* Two processes and two buffers for three blocks: buffers are recycled, and a
\* changed one may be kept with nobody using it.
SPECIFICATION FairSpec
CONSTANTS
  None = None
  Procs = {p1, p2}
  Bufs = {buf1, buf2}
  Blocks = {blk1, blk2, blk3}
  Data = {old, new}
 
PROPERTY BreadReturns
CHECK_DEADLOCK FALSE
