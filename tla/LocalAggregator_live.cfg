\* One crawl of two visits that also creates a table, under fairness.
SPECIFICATION FairSpec
CONSTANTS
  Tables = {"site_visits", "create_table", "page_content"}
  QueueLimit = 1
  SqlBatch = 2
  LdbBatch = 2
  MaxRuns = 1
  MaxVisits = 2
  QueueBound = 1
  StatusBound = 1
PROPERTIES
  EventuallyStored
  SubmissionEnds
