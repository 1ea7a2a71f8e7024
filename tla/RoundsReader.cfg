SPECIFICATION FairSpec
CONSTANTS
  s1 = s1
  s2 = s2
  f1 = f1
  f2 = f2
  r1 = r1
  Sessions = {s1}
  Folders = {f1}
  Readers = {r1}
  LongGrace = TRUE
  MaxSeq = 4
  MaxRound = 2
  MaxCrash = 1
INVARIANTS CaughtUp
PROPERTY LeftoverPublished
CHECK_DEADLOCK FALSE
