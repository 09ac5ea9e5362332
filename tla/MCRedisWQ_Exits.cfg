\* Three workers, none of which crashes or outlasts a lease, and one job.
SPECIFICATION Spec
CONSTANTS
  w1 = w1
  w2 = w2
  w3 = w3
  j1 = j1
  Workers <- ThreeWorkers
  Mortal <- NoWorker
  Jobs <- OneJob
  Outlast = FALSE
  MaxRetries = 2
  NoJob = NoJob
PROPERTIES
  ExitsOnlyWhenEmpty
