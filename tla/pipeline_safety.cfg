\* Two starters, two batch ids, three reviews in two groups; errors, crashes
\* and lost answers, up to two of them.
SPECIFICATION Spec
CONSTANTS
  p1 = p1
  p2 = p2
  NULL = NULL
  Reviews <- ThreeReviews
  Profiles <- TwoProfiles
  Target <- ThreeTargets
  Batches = {b1, b2}
  Starters = {s1, s2}
  MaxRetries = 2
  BatchLimit = 3
  EngineVerdicts = {TRUE}
  Faults = {"error", "lost", "crash"}
  MaxFaults = 2
SYMMETRY IdSymmetry
INVARIANTS
  TypeOK
  AtMostOneRunning
  RunnerOwnsBatch
  ExactlyOnce
  NoStranded
  DeadLetterAtLimit
PROPERTIES
  CommittedIsFinal
  DeadLetterIsFinal
  FailedRunStaysFailed
  ImplementsLedger
