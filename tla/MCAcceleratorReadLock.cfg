SPECIFICATION Spec
CONSTANTS
  p1 = p1
  p2 = p2
  f1 = f1
  f2 = f2
  Procs = {p1, p2}
  Files = {f1}
  Blocks = 1
  MaxEntries = 3
  MaxWasted = 1
  Edited = {f1}
  MaxEdits = 1
  Invalidators = {}
  Resetters = {p1}
  Crashing = {}
  Hanging = {}
  NoProc = NoProc
  NoFile = NoFile
PROPERTIES
  CountedIsSafe
CHECK_DEADLOCK FALSE
