\* A request with a redirect, in or out of a tab; two visit ids reach the extension.
SPECIFICATION FairSpec
CONSTANTS
  MaxVisits = 2
  Requests = {"r1"}
  MaxLegs = 2
  MaxChunks = 2
CHECK_DEADLOCK FALSE
INVARIANTS
  EventsAccounted
  OrdinalsTellOrder
  PostBodyKept
  ContentComplete
PROPERTIES
  StampedWithNewest
  HandlersEnd
