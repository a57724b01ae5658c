CONSTANTS
  Requests = {r1, r2}
  Reviewers = {v1}
  Generators = {g1}
  PdfWorkers = {w1}
  Cleaners = {}
  MaxNumber = 2
  MaxAttempts = 2
  MayCrash = TRUE
  NoRequest = NoRequest
SPECIFICATION Spec
INVARIANTS NumbersUnique IssuedWasApproved NumberHasOutput
