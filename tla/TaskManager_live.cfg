\* Two browsers, one visit: command threads and the shutdown end.
SPECIFICATION FairSpec
CONSTANTS
  NumBrowsers = 2
  FailureLimit = 1
  SpawnLimit = 2
  MaxVisits = 1
  NumCommands = 2
  Bloating = {1}
PROPERTIES
  ThreadsEnd
  ShutdownEnds
