CONSTANTS
  Requests = {r1}
  Reviewers = {v1}
  Generators = {g1, g2}
  PdfWorkers = {}
  Cleaners = {c1}
  MaxNumber = 2
  MaxAttempts = 2
  MayCrash = FALSE
  NoRequest = NoRequest
SPECIFICATION FairSpec
PROPERTIES DecideInState ClaimReleased CleanupEnds
