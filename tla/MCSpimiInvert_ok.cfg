SPECIFICATION Spec
CONSTANTS
  a = a
  b = b
  c = c
  Words = {a, b, c}
  Inputs <- MCInputs
  MaxSizes = {2,10}
INVARIANTS
  TypeOK
  MergeConserves
  MergeAscends
  MergedExact
  LengthsExact
