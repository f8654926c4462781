SPECIFICATION Spec
CONSTANTS
  base = base
  arm = arm
  xapk = xapk
  xapk2 = xapk2
  gui = gui
  cli = cli
  None = None
  Torn = Torn
  Process = {gui, cli}
  File = {base, arm, xapk, xapk2}
  Info <- MCInfo
  Path <- MCPath
  Discipline = "exclusive"
  Faults = {"crash", "disk"}
INVARIANTS
  TypeOK
  IndexWhole
  ReportedIsKept
PROPERTIES
  StoreSpec
