\* Three steps of evidence: calls about two sessions, on time or two ticks late,
\* and reviews, two of them tagged and one without text; clocks up to a tick
\* behind, and windows of one and two ticks.  The behaviour ends.
SPECIFICATION Spec
CONSTANTS
  x = x
  y = y
  unpaid = unpaid
  ask = ask
  scam = scam
  anna = anna
  ben = ben
  r1 = r1
  r2 = r2
  r3 = r3
  NULL = NULL
  Threads = {x, y}
  Tags = {ask, scam}
  Ask = ask
  Others <- Counterparties
  Reviews = {r1, r2, r3}
  Written <- WrittenAt
  Blank = {r3}
  Tagged = {r1, r2}
  Delays = {0, 2}
  SeenKeep = 1
  RecentKeep = 2
  RepeatWindow = 1
  RepeatMin = 2
  Skew = 1
  MaxTime = 4
  MaxCalls = 3
INVARIANTS
  TypeOK
  MassAsCounted
  OncePerConversation
  RatesAreFractions
  RepeatedAsCounted
  ReputationAsFolded
CHECK_DEADLOCK FALSE
