CONSTANTS
  Size <- MCSize
  QLen = 1
  SeqMod = 2
  MaxConn = 1
  Reorder = FALSE
  Flaky = TRUE
SPECIFICATION FairSpec
CHECK_DEADLOCK FALSE
PROPERTIES DatagramsLeave
