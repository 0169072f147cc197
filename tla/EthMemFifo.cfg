CONSTANTS
  Pbuf = {p1, p2}
  NoPbuf = NoPbuf
  QEntries = 2
  QLen = 1
  MaxRef = 2
SPECIFICATION FairSpec
INVARIANTS NoEmAssert
PROPERTIES ImplementsLossyFifo FreedReturns
