\* Three messages to either reader; the network cuts the stream anywhere.
SPECIFICATION FairSpec
CONSTANTS
  Base = 4
  Payloads <- MCPayloads
  Symbols = {1, 2, 3}
  ExtSymbols = {1}
  PySymbols = {1, 2}
  Refused <- MCRefused
  MaxMessages = 3
CHECK_DEADLOCK FALSE
INVARIANTS
  NothingGarbled
PROPERTIES
  PipeSpec
  AllReceived
