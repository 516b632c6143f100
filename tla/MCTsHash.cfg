SPECIFICATION FairSpec
CONSTANTS
  t1 = t1  t2 = t2  t3 = t3  a = a  b = b  c = c  k1 = k1
  Threads = {t1, t2}
  Tables = {a, b, c}
  Keys = {k1}
  None = None
  UintMod = 8
  MaxCalls = 2
  CopyPairs <- MCPairs
  ComparePairs <- MCPairs
  CleanTables = {c}
INVARIANTS TypeOK Exclusion ReaderCount FreedUnlocked
PROPERTIES EveryCallReturns ImplementsRWTable
CHECK_DEADLOCK FALSE
