CONSTANTS
  Pbuf = {p1, p2, p3}
  NoPbuf = NoPbuf
  QLen = 2
SPECIFICATION FairSpec
INVARIANTS TypeOK NoOverwrite NoStrandedBlock
PROPERTIES HandedOver
