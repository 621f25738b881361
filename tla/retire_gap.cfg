\* Two crashes, the second between the two statements of a sweep.
SPECIFICATION Spec
CONSTANTS
  p1 = p1
  p2 = p2
  NULL = NULL
  Reviews <- TwoReviews
  Profiles <- OneProfile
  Target <- TwoTargets
  Batches = {b1, b2}
  Starters = {s1, s2}
  MaxRetries = 2
  BatchLimit = 2
  EngineVerdicts = {TRUE}
  Faults = {"crash", "gap"}
  MaxFaults = 2
INVARIANT NoStranded
