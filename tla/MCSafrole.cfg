CONSTANTS
  v1 = v1
  v2 = v2
  v3 = v3
  E = 3
  N = 4
  K = 3
  MaxSlot = 6
  Ids = {1, 2, 3, 4, 5}
  ValidatorSets <- MCValidatorSets
  Genesis <- MCGenesis
  Offenders = {v1}
  NullValidator = nobody
SPECIFICATION Spec
INVARIANTS SafroleInv
PROPERTIES MarkFulfilled EpochMarkFulfilled 
CHECK_DEADLOCK FALSE
