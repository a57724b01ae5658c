CONSTANTS
  Items = {i1}
  Years = {y1, y2}
  Users = {u1, u2}
  Tenants = {t1, t2}
  Calls = {c1, c2}
  Amounts = {1}
  MaxBalance = 3
  MaxEntries = 3
  Movable = {"year", "user"}
  NoYear = NoYear
  NoCall = NoCall
  NoUser = NoUser
SPECIFICATION Spec
SYMMETRY Symmetry
INVARIANTS EntriesInScope
