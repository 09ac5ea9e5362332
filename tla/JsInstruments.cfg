\* One property of any kind, used four times, with log calls inside of each other.
SPECIFICATION FairSpec
CONSTANTS
  MaxVisits = 1
  Properties = {"p"}
  MaxLogCount = 2
  MaxOps = 4
  MaxDepth = 2
CHECK_DEADLOCK FALSE
INVARIANTS
  InOrder
  InLogTellsLogging
  Transparent
PROPERTIES
  Delivered
