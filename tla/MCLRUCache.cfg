SPECIFICATION Spec
CONSTANTS
  Keys = {k1, k2, k3, k4}
  Values = {v1, v2}
  Capacity = 3
  NoValue = NoValue
  Front = Front
  Back = Back
  Nil = Nil
INVARIANTS
  WellFormed
PROPERTY
  StoreSpec
SYMMETRY KeySymmetry
