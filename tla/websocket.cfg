SPECIFICATION FairSpec
CONSTANTS
  Base = 8
  BitXor <- MCBitXor
  Opcodes = 4
  TextOp = 1
  CloseOp = 2
  PingOp = 3
  Limit = 66
  Clients <- MCClients
  Greeting <- MCGreeting
  Prefix <- MCPrefix
  None = None
INVARIANTS
  Received
  RepliesReadable
PROPERTIES
  EveryFrame
  HandlerEnds
\* The handler returns.
CHECK_DEADLOCK FALSE
