SPECIFICATION ReadSpec
CONSTANTS
  Ops = {r1}
  Actors = {a1, a2}
  NoOp = NoOp
  MaxReads = 2
SYMMETRY ReaderSymmetry
CHECK_DEADLOCK FALSE
INVARIANTS
  ReadTypeOK
  RunningIsUnsettled
PROPERTIES
  ReceiptsAreFinal
  CancelledNeverSucceeds
  ImplementsSourceAttempt
