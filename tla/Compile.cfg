CONSTANTS
  Modulus = 3
  MaxVars = 40
  MaxLabels = 8
  NoVar = NoVar
  NoLabel = NoLabel
  Functions <- MCFunctions
  Iterations = 1
  JumpIterations = 2
  Envs <- MCEnvs
  Fuel = 4
  FlatFuel = 90
SPECIFICATION Spec
INVARIANT TypeOK
INVARIANT SingleAssignment
INVARIANT NotRejected
INVARIANT LoweredWellFormed
INVARIANT JumpsFindLabels
INVARIANT BehaviourPreserved
CHECK_DEADLOCK FALSE
