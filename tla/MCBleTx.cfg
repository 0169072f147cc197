CONSTANTS
  Size <- MCSize
  QLen = 1
  SeqMod = 2
  MaxConn = 2
  Reorder = FALSE
  Flaky = FALSE
SPECIFICATION FairSpec
CHECK_DEADLOCK FALSE
INVARIANTS TypeOK 
 
