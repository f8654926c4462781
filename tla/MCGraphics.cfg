CONSTANTS
  h1 = h1
  h2 = h2
  h3 = h3
  a1 = a1
  a2 = a2
  a3 = a3
  a4 = a4
  u1 = u1
  u2 = u2
  t1 = t1
  t2 = t2
  Handle <- Handles
  Address <- Addresses
  Poster <- Posters
  MaxScreens = 3
  User <- Users
  MaxNew = 2
  Faults = {"probe", "pan", "flip", "map", "file", "buffer"}
  None = None
SPECIFICATION Spec
SYMMETRY Symmetry
CONSTRAINT OneMoves
INVARIANTS GraphicsTypeOK SlotsExclusive BaseIsMapped ScreenShowsCurrent HeldIsLive
PROPERTIES FramebufferMappedOnce
CHECK_DEADLOCK FALSE
