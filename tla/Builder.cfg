CONSTANTS
  Ops <- MCOps
  Blocks <- MCBlocks
  Root = 0
  NULL = NULL
  Functions <- MCFunctions
SPECIFICATION Spec
INVARIANT TypeOK
INVARIANT ParentsRight
PROPERTY ImplementsLists
CHECK_DEADLOCK FALSE
