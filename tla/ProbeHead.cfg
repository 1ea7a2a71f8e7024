CONSTANTS
  Floor = 2
  MaxInflight = 3
  MaxSeq = 14
SPECIFICATION FairSpec
CHECK_DEADLOCK FALSE
INVARIANTS HeadIsFirstHole
PROPERTY ProbeEnds
