\* Two people who name no session report the same outcome, at one moment.
SPECIFICATION Spec
CONSTANTS
  x = x
  y = y
  unpaid = unpaid
  ask = ask
  scam = scam
  anna = anna
  ben = ben
  r1 = r1
  r2 = r2
  r3 = r3
  NULL = NULL
  Threads = {unpaid}
  Tags = {ask, scam}
  Ask = ask
  Others <- Reporters
  Reviews = {r1, r2, r3}
  Written <- WrittenAt
  Blank = {r3}
  Tagged = {r1, r2}
  Delays = {0}
  SeenKeep = 1
  RecentKeep = 2
  RepeatWindow = 1
  RepeatMin = 2
  Skew = 0
  MaxTime = 0
  MaxCalls = 3
INVARIANT RepeatedAsSeen
CHECK_DEADLOCK FALSE
