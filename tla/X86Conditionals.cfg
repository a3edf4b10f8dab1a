CONSTANTS
  NumVars = 4
  L1 = L1
  L2 = L2
  Labels = {L1, L2}
  NoVar = NoVar
  NoLabel = NoLabel
  Modulus = 4
  Length = 2
  Programs <- MCPrograms
  InRegister = {3, 4}
  Envs <- MCEnvs
  Fuel = 8
  Steps <- MCSteps
  More <- MCMore
SPECIFICATION Spec
INVARIANT TypeOK
INVARIANT AllConverted
INVARIANT ConditionsKept
CHECK_DEADLOCK FALSE
