SPECIFICATION FairSpec
CONSTANTS
  Bytes = {"r", "n"}
  Delim <- MCDelim
  Sizes = {0, 2}
  Payloads <- MCPayloads
  Chunk = 2
  SndBuf = 2
  MaxIn = 3
  MaxOut = 3
INVARIANTS
  StreamIntact
  CallsHonoured
  WireIntact
PROPERTY ReadReturns
\* A coroutine that lost its map entry to the other one stays where it is.
CHECK_DEADLOCK FALSE
