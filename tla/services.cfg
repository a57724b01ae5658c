CONSTANTS
  Complaint = {c1}
  WithEmail = {}
  Calls = {k1, k2}
  AnswerFrom = {"assigned", "in_progress"}
  Serialized = FALSE
  Failures = {}
  MaxAttempts = 2
  MaxQueue = 1
  Files = {f1, f2}
  Uploaders = {w1}
  Reports = {1, 2}
  Nobody = Nobody
  Staff = Staff
  MaxErased = 1
  MaxOutages = 1
  Users = {u1, u2}
  AccountCalls = {a1, a2}
  Operations = {"create", "status", "assign", "remove"}
  RoleCodes = {"admin_desa"}
  NoUser = NoUser
  Cards = {d1, d2}
  FactorCalls = {t1, t2}
  MaxSecrets = 2
  NoCard = NoCard
  Ids = {1, 2}
  Codes = {x1, x2}
  RegisterCalls = {q1, q2}
  NoCode = NoCode
  Tenants = {v1, v2}
  RowIds = {1, 2}
  NoTenant = NoTenant
  Nodes = {n1, n2, n3}
  TenantCodes = {y1, y2, y3}
  RegencyAdmins = {g1, g2}
  Above = n1
  Nil = Nil
  MaxPeople = 1
  Seeders = {z1, z2}
  MaxSeeds = 2
  MaxEdits = 1
  MaxCopies = 3
  MaxWrites = 2
  Listed = {1, 2}
  MaxPending = 1
SPECIFICATION MCSpec
CHECK_DEADLOCK FALSE
INVARIANTS
  ReachedInOrder 
  AttachmentKept ObjectFollowsRow
  FactorsSound   TreeSound   FormsSound
PROPERTIES
  AccountsKept PastKept PolicyKept
