CONSTANTS
  NumVars = 5
  L1 = L1
  L2 = L2
  Labels = {L1, L2}
  NoVar = NoVar
  NoLabel = NoLabel
  Modulus = 3
  Length = 3
  Programs <- MCPrograms
  Ins = {1}
  SizeOf <- MCSizeOf
  Envs <- MCEnvs
  Fuel = 10
  Steps <- MCSteps
  More <- MCMore
SPECIFICATION Spec
INVARIANT TypeOK
INVARIANT BehaviourPreserved
INVARIANT AliveInOp
PROPERTY Terminates
CHECK_DEADLOCK FALSE
