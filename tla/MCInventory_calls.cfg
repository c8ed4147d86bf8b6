CONSTANTS
  c1 = c1
  c2 = c2
  c3 = c3
  c4 = c4
  k1 = k1
  v1 = v1
  v2 = v2
  NoKey = NoKey
  Nobody = Nobody
  Warehouses = {1, 2}
  Variants = {v1, v2}
  Oversell = {v2}
  InitialOnHand = 2
  Archivable = {1}
  Keys = {k1}
  Calls = {c1, c2, c3, c4}
  Requests <- mcRequests
  Plans <- mcPlans
SPECIFICATION FairSpec
INVARIANTS
  KeySpentOnce
PROPERTIES
  NoOversell
  CrossingIsReported
  LedgerSpec
  EveryCallEnds
