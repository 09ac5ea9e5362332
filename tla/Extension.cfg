\* The extension from its start through one visit: one frame that navigates twice.
SPECIFICATION FairSpec
CONSTANTS
  MaxVisits = 1
  Frames = {"top"}
  MaxNavs = 2
  Channels = {"c1"}
  Actors = {"a1"}
  MaxCookies = 1
CHECK_DEADLOCK FALSE
INVARIANTS
  NeverStale
  NavigationsAccounted
  ListeningBeforeVisits
  RecordedOnce
PROPERTIES
  EverythingSettles
