CONSTANTS
  NumVars = 3
  L1 = L1
  L2 = L2
  Labels = {L1, L2}
  NoVar = NoVar
  NoLabel = NoLabel
  Modulus = 3
  Length = 3
  Programs <- MCPrograms
  ConstevalIterations = 1
  JumpIterations = 2
  Envs <- MCEnvs
  Fuel = 12
  Steps <- MCSteps
  More <- MCMore
SPECIFICATION Spec
INVARIANT TypeOK
INVARIANT BehaviourPreserved
INVARIANT JumpsDeclared
INVARIANT EndsWithExit
PROPERTY Terminates
CHECK_DEADLOCK FALSE
