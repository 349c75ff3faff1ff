CONSTANT
  Inputs <- MCInputs
SPECIFICATION Spec
INVARIANTS
  PathTypeOK
  ParsesToNormalForm
  AncestryIsStructural
