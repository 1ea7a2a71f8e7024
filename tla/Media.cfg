SPECIFICATION Spec
CONSTANTS
  w1 = w1
  w2 = w2
  t1 = t1
  r1 = r1
  Nothing = Nothing
  Writers = {w1, w2}
  Sealers = {t1}
  Readers = {r1}
  MaxFaults = 1
INVARIANTS FetchIsOwner
PROPERTY ImplementsSlot
CHECK_DEADLOCK FALSE
