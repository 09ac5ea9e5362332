\* Two browsers, one visit: the TaskManager is closed.
SPECIFICATION Spec
CONSTANTS
  NumBrowsers = 2
  FailureLimit = 0
  SpawnLimit = 1
  MaxVisits = 1
  NumCommands = 2
  Bloating = {1}
INVARIANTS
  BrowsersClosed
