SPECIFICATION Spec
CONSTANTS
  q1 = q1
  q2 = q2
  q3 = q3
  NULL = NULL
  AccountOf <- Accounts
  BankTxn <- Banks
  FundRow <- Funds
  Opening <- Scenes
  Leaving <- LeavingRows
  Window <- Windows
  InText <- Text
  Selection <- Selections
  Tag = {"MISSING_IN_GOAL", "TIMING_DIFFERENCE"}
  Decision = {"MATCHED", "CLEARED"}
  Request = {q1, q2, q3}
  Ops <- Users
  RunLimit = 2
  PageLimit = 2
INVARIANTS
  TypeOK
  MatchedOnce
  NothingLeftToMatch
  ManualMatchKept
  RemovalHolds
  SummaryKnowsMatches
  ReviewViewsAgree
  DetectionIsComplete
  RunDecidesAll
CHECK_DEADLOCK FALSE
