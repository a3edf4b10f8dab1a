CONSTANTS
  NumVars = 3
  NoVar = NoVar
  Blocks <- MCBlocks
  IntArgRegs <- MCIntArgRegs
  XmmArgRegs <- MCXmmArgRegs
SPECIFICATION Spec
INVARIANT TypeOK
INVARIANT RegistersUnshared
INVARIANT ScratchFree
INVARIANT SlotsDisjoint
INVARIANT CallRegistersFree
INVARIANT ArgumentsDelivered
INVARIANT FrameCovered
CHECK_DEADLOCK FALSE
