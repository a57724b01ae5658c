CONSTANTS
  Users = {u1, u2}
  AccountCalls = {a1}
  Operations = {"remove"}
  RoleCodes = {"admin_desa", "operator"}
  NoUser = NoUser
  People = {u1}
  Tabs = {t1}
  Calls = {c1, c2}
  MaxTokens = 3
  NoTab = NoTab
SPECIFICATION MCSpec
CHECK_DEADLOCK FALSE
INVARIANTS RotationSound  LogoutEndsLogin
PROPERTIES WaitersAnswered
