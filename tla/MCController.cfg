SPECIFICATION FairSpec
CONSTANTS
  c1 = c1
  c2 = c2
  None = None
  Ctl = {c1, c2}
  Command <- MCCommand
  First = {"apk", "adbd"}
  Second = {"stop", "restart", "am", "ui"}
  Service = {"servicemanager", "zygote", "adbd"}
  MaxPid = 3
  MaxClicks = 1
  Mortal = {"servicemanager", "app"}
  Broken = {"zygote"}
  Faults = {"crash", "socket"}
INVARIANTS
  TypeOK
  OwnServiceTracked
  LossStopsRest
PROPERTIES
  LossEndsSession
CHECK_DEADLOCK FALSE
