SPECIFICATION FairSpec
CONSTANTS
  r1 = r1
  r2 = r2
  Unknown = Unknown
  Request = {r1, r2}
  MaxRetries = 2
  Cap = 3
  MaxLimit = 5
  Announce = {"after", "none"}
INVARIANTS
  TypeOK
  SleepBounded
  LimitIsRiddenOut
PROPERTIES
  WaitsAsAsked
  EveryGetEnds
