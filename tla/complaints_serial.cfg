SPECIFICATION FairSpec
CHECK_DEADLOCK FALSE
CONSTANTS
  Complaint = {c1}
  WithEmail = {c1}
  Calls = {k1}
  AnswerFrom = {"assigned", "in_progress"}
  Serialized = TRUE
  Failures = {"audit", "queue", "mail"}
  MaxAttempts = 2
  MaxQueue = 3
 
PROPERTIES FollowsWorkflow ReporterInformed
