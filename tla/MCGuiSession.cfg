SPECIFICATION FairSpec
CONSTANTS
  arm = arm
  Host = "arm64-v8a"
  Unfiltered = Unfiltered
  None = None
  Variant = {arm}
  Arch <- MCArch
  Kind <- MCKind
  Size = 3
  Capacity = 2
  MinStep = 2
  MaxBuilds = 2
  MaxClicks = 3
INVARIANTS
  TypeOK
  BarIsHonest
  OneCallPerRow
  PageFollowsLibrary
PROPERTIES
  BarNeverGoesBack
  EveryClickSettles
CHECK_DEADLOCK FALSE
