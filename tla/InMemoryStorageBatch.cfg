CONSTANTS
  Keys = {1, 2, 3}
  Sizes = {0, 2}
  MaxOps = 2
SPECIFICATION Spec
PROPERTY CommitExecutesAll
