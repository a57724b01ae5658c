CONSTANTS
  Requests = {r1}
  Reviewers = {v1, v2}
  Generators = {g1}
  PdfWorkers = {}
  Cleaners = {c1}
  MaxNumber = 1
  MaxAttempts = 1
  MayCrash = FALSE
  NoRequest = NoRequest
SPECIFICATION Spec
PROPERTIES AttachedStays
