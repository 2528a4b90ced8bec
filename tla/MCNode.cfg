CONSTANTS
  Registries = {r1, r2}
  Names = {n1}
  Labels = {l1, l2}
  Used = {"Gauge", "Histogram"}
  MaxUpdates = 2
  None = None
  Inputs <- MCInputs
  UINT64_MAX = 1000000000
SPECIFICATION MCSpec
INVARIANTS  MetricsInv
 
\* The start ends.
CHECK_DEADLOCK FALSE
