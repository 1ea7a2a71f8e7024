SPECIFICATION Spec
CONSTANTS
  s1 = s1
  s2 = s2
  f1 = f1
  f2 = f2
  r1 = r1
  Sessions = {s1, s2}
  Folders = {f1, f2}
  Readers = {}
  LongGrace = TRUE
  MaxSeq = 4
  MaxRound = 1
  MaxCrash = 1
SYMMETRY Alike
INVARIANTS NothingLost RoundsTile ResumesAtEnd
CHECK_DEADLOCK FALSE
