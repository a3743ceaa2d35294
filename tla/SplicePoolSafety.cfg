SPECIFICATION Spec
CONSTANTS
  NoThread = NoThread
  Thread = {t1, t2}
  BlockSize = 2
  Counts = {0, 1, 2, 3}
  MaxNodes = 4
  IsPointer = FALSE
  Observers = {}
SYMMETRY ThreadSymmetry
INVARIANTS TypeOK MutualExclusion CallLocals OnePlace NoNodeLost OnlyClientsDirty Quiescent
PROPERTIES ExactCount CleanHandOut ImplementsPromise
