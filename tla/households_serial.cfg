SPECIFICATION Spec
CONSTANTS
  Family = {f1, f2}
  Resident = {r1, r2}
  Calls = {c1, c2}
  Serialized = TRUE
  MaxRows = 3
  NoFamily = NoFamily
  NoResident = NoResident
SYMMETRY Symmetry
INVARIANTS DeletedDetached DeletedFamilyEmpty OneHead
PROPERTIES HeadLeavesOffice MovedStays
