\* Batches of one review, so that the older review is always ahead of the
\* younger one; no symmetry, which is unsound for liveness.
SPECIFICATION FairSpec
CONSTANTS
  p1 = p1
  p2 = p2
  NULL = NULL
  Reviews <- TwoReviews
  Profiles <- OneProfile
  Target <- TwoTargets
  Batches = {b1, b2}
  Starters = {s1, s2}
  MaxRetries = 2
  BatchLimit = 1
  EngineVerdicts = {TRUE}
  Faults = {"error", "lost", "crash", "slow"}
  MaxFaults = 1
PROPERTIES
  EventuallyDecided
  EventuallyRetired
INVARIANTS
  NoStranded
