SPECIFICATION FairSpec
CONSTANTS
  o = o
  n = n
  Sessions = {o, n}
  Depth = 2
  Sizes = {1}
  TimelySweep = TRUE
  TimelyClear = TRUE
  MaxSeq = 4
  MaxFaults = 1
 
PROPERTY TakeoverEnds
CHECK_DEADLOCK FALSE
