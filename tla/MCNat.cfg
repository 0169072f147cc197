CONSTANTS
  s1 = s1
  s2 = s2
  d1 = d1
  d2 = d2
  c1 = c1
  c2 = c2
  Flow <- Flows
  Pcb <- Pcbs
  Null = Null
  NTab = 2
  QLen = 2
  MaxSock = 2
  PipeLen = 1
SPECIFICATION Spec
SYMMETRY Perms
INVARIANTS TypeOK SendsOwnData ActiveHasPcb PipeWakes
