CONSTANTS
  Width = 3
  LongBits = 5
  Programs <- MCPrograms
  Inputs <- MCInputs
  Envs <- MCEnvs
  Iterations = 2
SPECIFICATION Spec
INVARIANT TypeOK
INVARIANT BehaviourPreserved
INVARIANT UsesDeclared
INVARIANT Normalised
CHECK_DEADLOCK FALSE
