\* The answer to one COMMIT of a fold is lost.
SPECIFICATION Spec
CONSTANTS
  p1 = p1
  p2 = p2
  NULL = NULL
  Reviews <- TwoReviews
  Profiles <- OneProfile
  Target <- TwoTargets
  Batches = {b1, b2}
  Starters = {s1, s2}
  MaxRetries = 2
  BatchLimit = 2
  EngineVerdicts = {TRUE}
  Faults = {"lost", "lostfold"}
  MaxFaults = 1
INVARIANT NoDoubleProcessing
