\* Three workers share a job; two of them may crash; visits may outlast their leases.
SPECIFICATION FairSpec
CONSTANTS
  w1 = w1
  w2 = w2
  w3 = w3
  j1 = j1
  Workers <- ThreeWorkers
  Mortal <- FirstTwo
  Jobs <- OneJob
  Outlast = TRUE
  MaxRetries = 1
  NoJob = NoJob
INVARIANTS
  JobsKept
  RetryPolicy
PROPERTIES
  LedgerSpec
  SurvivorDrains
