\* Three records, one of them delivered twice, of two senders in two sessions,
\* and a report sent twice; two connections; one fault of any kind.
SPECIFICATION FairSpec
CONSTANTS
  anna = anna
  ben = ben
  x = x
  y = y
  a1 = a1
  a2 = a2
  b1 = b1
  q1 = q1
  ask = ask
  unpaid = unpaid
  NULL = NULL
  Records <- ThreeRecords
  Session <- SessionOf
  Sender <- SenderOf
  Raises <- AsksForMoney
  Unreadable = {}
  Reports <- OneReport
  About <- AboutAnna
  Thread <- InX
  OutcomeTag <- Unpaid
  Tasks <- Deliveries
  Item <- ItemOf
  Sessions <- TwoSessions
  Profiles <- TwoProfiles
  Threads <- TwoSessions
  Tags <- TwoTags
  LockOf <- Hash
  LockIds = {1, 2}
  PoolSize = 2
  Faults = {"error", "lost", "reject"}
  MaxFaults = 1
INVARIANTS
  TypeOK
  FiledIsFolded
  CountedAsDetected
  AnswersAreTruthful
  HighIsQueued
  DeadlockTakesCollisions
  NoneFailsForOthers
PROPERTIES
  EveryRequestAnswered
  ImplementsLedger
CHECK_DEADLOCK FALSE
