SPECIFICATION Spec
CHECK_DEADLOCK FALSE
CONSTANTS
  Complaint = {c1}
  WithEmail = {c1}
  Calls = {k1}
  AnswerFrom = {"submitted", "verified", "assigned", "in_progress", "resolved", "rejected", "closed"}
  Serialized = TRUE
  Failures = {}
  MaxAttempts = 2
  MaxQueue = 2
PROPERTY RejectedStays
