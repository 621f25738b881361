\* An engine that answers willRetry = FALSE, and one failing statement.
SPECIFICATION Spec
CONSTANTS
  p1 = p1
  p2 = p2
  NULL = NULL
  Reviews <- TwoReviews
  Profiles <- OneProfile
  Target <- TwoTargets
  Batches = {b1, b2}
  Starters = {s1, s2}
  MaxRetries = 2
  BatchLimit = 2
  EngineVerdicts = {TRUE, FALSE}
  Faults = {"error"}
  MaxFaults = 1
PROPERTY DeadLetterIsFinal
