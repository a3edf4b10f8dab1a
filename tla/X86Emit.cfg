CONSTANTS
  Words <- MCWords
  Frames <- MCFrames
  Starts <- MCStarts
  Ops <- MCOps
  Heap <- MCHeap
  MaxOps = 1
SPECIFICATION Spec
INVARIANT TypeOK
INVARIANT BehaviourPreserved
INVARIANT Encodable
CHECK_DEADLOCK FALSE
