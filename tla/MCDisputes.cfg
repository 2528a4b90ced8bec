CONSTANTS
  Reports = {1, 2}
  Keys = {1, 2, 3, 4}
  ValidatorSets <- MCValidatorSets
  SuperMajority = 3
  MaxEpoch = 1
  Verdicts <- MCVerdicts
  Culprits <- MCCulprits
  Faults <- MCFaults
  NoReport = idle
SPECIFICATION Spec
INVARIANTS VerdictsRecorded CoreIsClear
PROPERTIES JudgedForGood 
CHECK_DEADLOCK FALSE
