SPECIFICATION FairSpec
CONSTANTS
  a1 = a1
  a2 = a2
  a3 = a3
  b1 = b1
  Appends = {a1, a2, a3, b1}
  EpochOf <- MCEpochOf
  Inflight = 2
CHECK_DEADLOCK FALSE
INVARIANTS AcksAreDurable TeeFollowsAcks EpochsInChainOrder StragglersBounded
PROPERTIES EveryTicketResolves CloseReturns
