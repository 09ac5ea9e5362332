\* Two browsers, two visits of two commands; the second failure in a row is one too many.
SPECIFICATION Spec
CONSTANTS
  NumBrowsers = 2
  FailureLimit = 1
  SpawnLimit = 1
  MaxVisits = 2
  NumCommands = 2
  Bloating = {1}
INVARIANTS
  RepliesMatch
  CleanVisits
  NoOrphan
  LimitEnforced
  JoinedMeansGone
