SPECIFICATION FairSpec
CONSTANTS
  id = id
  Words <- MCWords
  Names = {id}
  Star = Star
  Garbled = Garbled
  None = None
  RouteTable <- MCTable
  Patterns <- MCPatterns
  Paths <- MCPaths
  Middlewares = 1
  MaxBody = 2
  Dialogs <- MCDialogs
INVARIANTS
  AnswersInOrder
  InStep
  AsMeant
  RightHandler
  NothingAfterEnd
  RightAnswer
  RightParams
PROPERTY Ends
\* Connections end.
CHECK_DEADLOCK FALSE
