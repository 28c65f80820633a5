\* One goroutine at a time and two, over batches of two networks, under fairness.
CONSTANTS
  Definitions <- MCDefinitions
  NoDex <- MCNoDex
  BatchSizes <- MCSizes
  Quotes <- MCQuotes
  NoPrice <- MCNoPrice
  Limits = {1, 2}
SPECIFICATION FairSpec
INVARIANTS
  LoadTypeOK
  LoadAccounting
  CacheIsComplete
  BatchesFit
  ReportNeverOver
  ExactUnlessRaced
PROPERTIES
  LoadEnds
