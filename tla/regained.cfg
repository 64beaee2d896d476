SPECIFICATION CustodySpec
CONSTANTS
  Ops = {r1, r2}
  Actors = {a1, a2}
  NoOp = NoOp
  MaxReads = 2
  MaxFence = 2
SYMMETRY Interchangeable
CHECK_DEADLOCK FALSE
INVARIANTS
  OwnerMayContinue
