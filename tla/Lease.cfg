SPECIFICATION FairSpec
CONSTANTS
  a = a
  b = b
  a1 = a1
  b1 = b1
  Nobody = Nobody
  Sessions = {a1, b1}
  Holders = {a, b}
  HolderOf <- MCHolderOf
  SkewOf <- MCSkewOf
  Stealers = {b1}
  BusyTtl = 1
  IdleTtl = 2
  MaxNow = 1
  MaxEpoch = 2
  MaxPublishes = 2
  MaxFaults = 1
INVARIANTS TypeOK NoZombiePublish OneHolderPerEpoch HistoryInOrder PublishedStays
PROPERTIES ManifestOnlyMovesForward StolenWriterStops
CHECK_DEADLOCK FALSE
