CONSTANTS
  density = density
  locale = locale
  plain = plain
  v1 = v1
  v2 = v2
  c1 = c1
  c2 = c2
  Client = {c1, c2}
  Key <- Keys
  Setting = {density, locale, plain}
  Path <- Paths
  Plain = {plain}
  Default = {density}
  Value = {v1, v2}
  Initial <- Initials
  Faults = {"stop", "crash"}
  None = None
  Unset = Unset
SPECIFICATION FairSpec
INVARIANTS TypeOK DefaultsPresent
PROPERTIES SavedStays RequestsEnd
