SPECIFICATION FairSpec
CONSTANTS
  b1 = b1
  b2 = b2
  r1 = r1
  r2 = r2
  u1 = u1
  u2 = u2
  q1 = q1
  q2 = q2
  NULL = NULL
  Batch = {b1, b2}
  Row <- Rows
  Opening = {b1}
  Fund = {"XUMMF", "XUBF"}
  Day = {1, 2, 3}
  Today = 2
  FirstPrice <- First
  Kind <- Kinds
  FileFund = {"XUMMF", "XUBF", "none"}
  File <- Files
  Change <- Changes
  Refresher = {r1, r2}
  Writer = {u1, u2}
  Deletes <- Deleted
  Reader = {q1, q2}
  Ask <- Asks
  Crew <- Crews
  Limit = 2
  Faults = {"redis", "db", "crash"}
INVARIANTS
  TypeOK
  CacheFollowsPrices
  ViewsFollowUploads
  AnswersAddUp
  DashboardAgrees
  AsOfAgrees
PROPERTIES
  StaleCacheHeals
CHECK_DEADLOCK FALSE
