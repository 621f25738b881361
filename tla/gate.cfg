\* Five submissions of two ids: two of the same review, two of different pairs
\* and one of a self review.  The quota is one review in a window of two ticks,
\* seen through an application clock that may be a tick off.  The behaviour ends
\* when the five are answered.  Onboard knows nobody, or is out of reach.
SPECIFICATION Spec
CONSTANTS
  q1 = q1
  q2 = q2
  q3 = q3
  q4 = q4
  q5 = q5
  i1 = i1
  i2 = i2
  anna = anna
  ben = ben
  carl = carl
  NULL = NULL
  Standings = {"ABSENT"}
  Requests <- RacingRequests
  Ids = {i1, i2}
  Profiles = {anna, ben, carl}
  Form <- RacingForms
  RateLimit = 1
  Window = 2
  Skew = 1
  MaxTime = 2
  MaxFaults = 1
SYMMETRY SameForm
INVARIANTS
  TypeOK
  AcceptanceIsTruthful
  AcceptedOnce
  AcceptedAsSubmitted
  WithinQuota
PROPERTIES
  RejectionIsTruthful
  AcceptedIsFinal
  ImplementsDesk
CHECK_DEADLOCK FALSE
