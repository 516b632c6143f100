SPECIFICATION FairSpec
CONSTANTS
  p1 = p1
  p2 = p2
  f1 = f1
  f2 = f2
  Procs = {p1, p2}
  Files = {f1}
  Blocks = 1
  MaxEntries = 1
  MaxWasted = 1
  Edited = {f1}
  MaxEdits = 1
  Invalidators = {p1}
  Resetters = {}
  Crashing = {}
  Hanging = {p2}
  NoProc = NoProc
  NoFile = NoFile
INVARIANTS
  ExhaustedRestarts
  OffMeansRestart
PROPERTIES
  RestartBegins
CHECK_DEADLOCK FALSE
