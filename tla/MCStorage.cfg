CONSTANTS
  Spaces = {default, other}
  Default = default
  Keys = {k1, k2}
  Values = {v1}
  NoValue = none
  MaxOps = 2
  MaxId = 3
SYMMETRY Symmetry
SPECIFICATION MCSpec
INVARIANTS  StorageInv
 
