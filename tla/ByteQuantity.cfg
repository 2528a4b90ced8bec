CONSTANTS
  Inputs <- MCInputs
  UINT64_MAX = 1000000000
SPECIFICATION Spec
INVARIANTS SuffixHonoured
CHECK_DEADLOCK FALSE
