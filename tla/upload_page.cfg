SPECIFICATION FairSpec
CONSTANTS
  b1 = b1
  b2 = b2
  l1 = l1
  l2 = l2
  NoDate = NoDate
  NoNumber = NoNumber
  Now <- Noon
  Batch = {b1, b2}
  Scenes <- SomeScenes
  Row <- ComparedRows
  Loop = {l1, l2}
  MaxAttempts = 2
  MaxClicks = 2
  MaxLost = 1
INVARIANTS
  TypeOK
  DatesAgree
  
  CodesSeparate
  ApprovedWhatWasShown
PROPERTIES
  PageCatchesUp
CHECK_DEADLOCK FALSE
