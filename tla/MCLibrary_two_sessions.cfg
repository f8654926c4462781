SPECIFICATION Spec
CONSTANTS
  base = base
  arm = arm
  xapk = xapk
  xapk2 = xapk2
  gui = gui
  cli = cli
  None = None
  Torn = Torn
  Process = {gui, cli}
  File = {base, xapk}
  Info <- MCInfo
  Path <- MCPath
  Discipline = "turns"
  Faults = {}
INVARIANTS
  ReportedIsKept
