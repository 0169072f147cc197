CONSTANTS
  Client = {c1, c2, c3}
  N = 2
  Lease = 2
  Cap = 2
SPECIFICATION ListSpec
SYMMETRY Perms
INVARIANTS TypeOK PoolSound FreeAddressFound NoAddressConflict ListAgrees LoopsAgree
