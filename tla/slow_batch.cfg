\* One live batch outlasts the stale threshold; nothing else goes wrong.
SPECIFICATION Spec
CONSTANTS
  p1 = p1
  p2 = p2
  NULL = NULL
  Reviews <- TwoReviews
  Profiles <- OneProfile
  Target <- TwoTargets
  Batches = {b1, b2}
  Starters = {s1, s2}
  MaxRetries = 2
  BatchLimit = 2
  EngineVerdicts = {TRUE}
  Faults = {"slow"}
  MaxFaults = 1
INVARIANT NoDoubleProcessing
