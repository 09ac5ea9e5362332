\* Two browsers, three visits, a batch per table kept in memory.
SPECIFICATION FairSpec
CONSTANTS
  Records <- MCRecords
  CacheSize = 1
  QueueBound = 1
INVARIANTS
  OnePlace
  IndexComplete
  DrainedAll
  ContentKept
PROPERTIES
  LedgerSpec
  EventuallySettled
