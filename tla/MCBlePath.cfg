CONSTANTS
  Size <- MCSize
  QLen = 1
  SeqMod = 3
  BufSize = 2
  MaxConn = 2
  MaxFaults = 1
  Reorder = FALSE
  Flaky = FALSE
SPECIFICATION PathSpec
CHECK_DEADLOCK FALSE
INVARIANTS PathTypeOK DgramsWhole DgramsInOrder NoGap
