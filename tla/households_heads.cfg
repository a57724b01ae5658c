SPECIFICATION Spec
CONSTANTS
  Family = {f1}
  Resident = {r1, r2}
  Calls = {c1, c2}
  Serialized = FALSE
  MaxRows = 2
  NoFamily = NoFamily
  NoResident = NoResident
SYMMETRY Symmetry
INVARIANT OneHead
