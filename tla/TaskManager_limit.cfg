\* Two browsers, no failure tolerated: a success of one hides the failure of the other.
SPECIFICATION Spec
CONSTANTS
  NumBrowsers = 2
  FailureLimit = 0
  SpawnLimit = 1
  MaxVisits = 2
  NumCommands = 2
  Bloating = {1}
INVARIANTS
  OverstepNoticed
