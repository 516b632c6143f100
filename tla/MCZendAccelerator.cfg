SPECIFICATION Spec
CONSTANTS
  p1 = p1
  p2 = p2
  f1 = f1
  f2 = f2
  Procs = {p1, p2}
  Files = {f1}
  Blocks = 1
  MaxEntries = 2
  MaxWasted = 1
  Edited = {f1}
  MaxEdits = 1
  Invalidators = {p2}
  Resetters = {p1}
  Crashing = {p2}
  Hanging = {}
  NoProc = NoProc
  NoFile = NoFile
INVARIANTS
  TypeOK
  HashSound
  CachedContentFresh
PROPERTIES
  NotOverwritten
  
CHECK_DEADLOCK FALSE
