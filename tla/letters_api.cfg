CONSTANTS
  Requests = {r1}
  Reviewers = {v1}
  Generators = {g1, g2, g3}
  PdfWorkers = {}
  Cleaners = {c1, c2}
  MaxNumber = 2
  MaxAttempts = 2
  MayCrash = TRUE
  NoRequest = NoRequest
SPECIFICATION Spec
SYMMETRY Symmetry
INVARIANTS ClaimExclusive IssuedOnce NoDanglingFile
PROPERTIES ImplementsLifecycle
