SPECIFICATION Spec
CONSTANTS
  b1 = b1
  b2 = b2
  r1 = r1
  r2 = r2
  r3 = r3
  i1 = i1
  i2 = i2
  i3 = i3
  g1 = g1
  g2 = g2
  a1 = a1
  c1 = c1
  q1 = q1
  q2 = q2
  q3 = q3
  NULL = NULL
  Batch = {b1}
  Row = {r1, r2}
  TxnId = {i1, i2}
  Goal = {g1, g2}
  Account = {a1}
  Client = {c1}
  BatchOf <- OneFile
  IdOf <- OneFileIds
  GoalOf <- OneFileGoals
  AccountOf <- OneAccount
  ClientOf <- OneClient
  Unreadable = {}
  Invalid = {}
  BadGroup = {}
  KnownGoal = {}
  BankGoal = {}
  Copy = {1, 2}
  FirstCopy = 1
  Request = {q1, q2}
  Ops <- ApproveAndRollback
  Faults = {}
  MaxAttempts = 1
  MaxStalled = 1
  CrashLimit = 0
PROPERTIES
  RollbackWaits
CHECK_DEADLOCK FALSE
