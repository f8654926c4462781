SPECIFICATION FairSpec
CONSTANTS
  q1 = q1
  q2 = q2
  Blank = Blank
  Query = {q1, q2}
  MaxKeys = 5
INVARIANTS
  TypeOK
  PageIsOwned
PROPERTIES
  NoStaleAnswer
  PageCatchesUp
CHECK_DEADLOCK FALSE
