\* The same requests, one record of which carries a ts that is no timestamp.
SPECIFICATION Spec
CONSTANTS
  anna = anna
  ben = ben
  x = x
  y = y
  a1 = a1
  a2 = a2
  b1 = b1
  q1 = q1
  ask = ask
  unpaid = unpaid
  NULL = NULL
  Records <- ThreeRecords
  Session <- SessionOf
  Sender <- SenderOf
  Raises <- AsksForMoney
  Unreadable = {a2}
  Reports <- OneReport
  About <- AboutAnna
  Thread <- InX
  OutcomeTag <- Unpaid
  Tasks <- Deliveries
  Item <- ItemOf
  Sessions <- TwoSessions
  Profiles <- TwoProfiles
  Threads <- TwoSessions
  Tags <- TwoTags
  LockOf <- Hash
  LockIds = {1, 2}
  PoolSize = 2
  Faults = {"error", "lost", "reject"}
  MaxFaults = 1
INVARIANT FiledIsFolded
CHECK_DEADLOCK FALSE
