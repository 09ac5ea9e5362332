\* Three crawls on one database: each may crash anywhere, and its listener die.
SPECIFICATION Spec
CONSTANTS
  Tables = {"site_visits", "page_content"}
  QueueLimit = 1
  SqlBatch = 2
  LdbBatch = 2
  MaxRuns = 3
  MaxVisits = 2
  QueueBound = 2
  StatusBound = 1
INVARIANTS
  NoGaps
  NoCollision
  ExitKeepsAll
