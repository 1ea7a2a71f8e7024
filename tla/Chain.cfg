SPECIFICATION Spec
CONSTANTS
  o = o
  n = n
  Sessions = {o, n}
  Depth = 3
  Sizes = {1}
  TimelySweep = TRUE
  TimelyClear = TRUE
  MaxSeq = 6
  MaxFaults = 0
INVARIANTS AckedReachable
 
CHECK_DEADLOCK FALSE
