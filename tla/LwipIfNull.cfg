CONSTANTS
  Pbuf = {p1, p2}
  NoPbuf = NoPbuf
  QLen = 1
SPECIFICATION Spec
INVARIANTS NoNullBlock
