\* One request whose response comes in two chunks.
SPECIFICATION Spec
CONSTANTS
  MaxVisits = 0
  Requests = {"r1"}
  MaxLegs = 1
  MaxChunks = 2
CHECK_DEADLOCK FALSE
INVARIANTS
  HashOfContent
