CONSTANTS
  Pbuf = {p1, p2, p3}
  NoPbuf = NoPbuf
  QEntries = 2
  QLen = 1
  MaxRef = 1
SPECIFICATION Spec
SYMMETRY Perms
INVARIANTS TypeOK Ownership NoEmAssert EntriesConserved NoLostWakeup CallbackOwed PendingMeansEmpty
