SPECIFICATION FairSpec
CONSTANTS
  b1 = b1
  b2 = b2
  r1 = r1
  r2 = r2
  r3 = r3
  g1 = g1
  g2 = g2
  q1 = q1
  q2 = q2
  f1 = f1
  x1 = x1
  i1 = i1
  NULL = NULL
  Batch = {b1, b2}
  Row = {r1, r2, r3}
  Goal = {g1, g2}
  BatchOf <- Files
  GoalOf <- Goals
  Unreadable <- BothRead
  Malformed = {}
  Direct = {b2}
  Workers = {"fund-worker", "bank-worker"}
  Request = {q1}
  Ops <- UndoOnce
  Faults = {"api", "db", "worker"}
  MaxAttempts = 2
  MaxStalled = 1
  CrashLimit = 1
  FundFile = {f1}
  FundRow = {x1}
  TxnId = {i1}
  FundFileOf <- FundFiles
  FundIdOf <- FundIds
  FundGoalOf <- FundGoals
  Opening = {g1}
INVARIANTS
  TypeOK
  ForeignKeys
  AllOrNothing
  CompletedIsWhole
  CancelHolds
PROPERTIES
  ImplementsLedger
  JobsFinish
CHECK_DEADLOCK FALSE
