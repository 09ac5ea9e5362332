\* Two browsers, two visits of two commands.
SPECIFICATION Spec
CONSTANTS
  NumBrowsers = 2
  FailureLimit = 0
  SpawnLimit = 1
  MaxVisits = 2
  NumCommands = 2
  Bloating = {1}
INVARIANTS
  SeriesPerformed
