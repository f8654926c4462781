SPECIFICATION Spec
CONSTANTS
  a1 = a1
  a2 = a2
  a3 = a3
  gui = gui
  cli = cli
  v1 = v1
  v2 = v2
  None = None
  Failed = Failed
  Hole = Hole
  Process = {gui, cli}
  Owner <- MCOwner
  Published = v1
  Attempt = {a1, a2, a3}
  Version = {v1, v2}
  Size <- MCSizeGrows
  Checksum = TRUE
  Discipline = "quiescent"
  Faults = {"refuse", "ignoreRange", "stream", "eof", "disk", "crash"}
INVARIANTS
  TypeOK
  FinalWhole
  PartAligned
  AtMostOneWriteBehind
PROPERTIES
  CancelKeepsProgress
  PartFileSpec
CHECK_DEADLOCK FALSE
