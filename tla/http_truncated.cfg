SPECIFICATION Spec
CONSTANTS
  id = id
  Words <- MCWords
  Names = {id}
  Star = Star
  Garbled = Garbled
  None = None
  RouteTable <- MCTable
  Patterns <- MCPatterns
  Paths <- MCPaths
  Middlewares = 1
  MaxBody = 2
  Dialogs <- OnePost
INVARIANT OnlyWhole
\* Connections end.
CHECK_DEADLOCK FALSE
