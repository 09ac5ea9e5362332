\* A crawl that crashed and its continuation.
SPECIFICATION Spec
CONSTANTS
  Tables = {"site_visits", "http_requests"}
  QueueLimit = 1
  SqlBatch = 1
  LdbBatch = 1
  MaxRuns = 2
  MaxVisits = 1
  QueueBound = 1
  StatusBound = 1
INVARIANTS
  VisitIdsUnique
