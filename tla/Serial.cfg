SPECIFICATION Spec
CONSTANTS
  Texts <- MCTexts
  Prefixes <- MCPrefixes
  MaxSent = 2
  MaxBad = 1
  MaxNul = 1
INVARIANTS SerialTypeOK WholeAfterResync
PROPERTY LinesInOrder
CHECK_DEADLOCK FALSE
