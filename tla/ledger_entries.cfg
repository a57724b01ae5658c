CONSTANTS
  Items = {i1}
  Years = {y1, y2}
  Users = {u1}
  Tenants = {t1, t2}
  Calls = {c1, c2}
  Amounts = {1, 2}
  MaxBalance = 3
  MaxEntries = 3
  Movable = {"item", "year", "user"}
  NoYear = NoYear
  NoCall = NoCall
  NoUser = NoUser
SPECIFICATION FairSpec
INVARIANTS CacheIsBalance NeverOverdrawn
PROPERTIES  CallsAnswered
