CONSTANTS
  Adder = {a1, a2, a3}
  Bits = {b1, b2}
  MaxSem = 2
SPECIFICATION FairSpec
INVARIANTS TypeOK BitsHaveWakeup
PROPERTIES ImplementsAtomic
