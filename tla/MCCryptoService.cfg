SPECIFICATION Spec
CONSTANTS
  Alice = Alice
  Bob = Bob
  Nobody = Nobody
  NoOpk = NoOpk
  Opks = {k1}
  MaxInits = 2
  MaxTakes = 2
  MaxSends = 3
  Faults = {"disk", "crash"}
INVARIANTS TypeOK KeysAreUsedOnce OneEndPerOpk
SYMMETRY UserSymmetry
CHECK_DEADLOCK FALSE
