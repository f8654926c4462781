SPECIFICATION Spec
CONSTANTS
  a1 = a1
  a2 = a2
  a3 = a3
  gui = gui
  cli = cli
  v1 = v1
  v2 = v2
  None = None
  Failed = Failed
  Hole = Hole
  Process = {gui, cli}
  Owner <- MCOwner
  Published = v1
  Attempt = {a1, a2}
  Version = {v1}
  Size <- MCSizeGrows
  Checksum = TRUE
  Discipline = "free"
  Faults = {}
INVARIANTS
  FinalWhole
CHECK_DEADLOCK FALSE
