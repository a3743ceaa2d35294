SPECIFICATION LinkedSpec
CONSTANTS
  NoThread = NoThread
  Nil = Nil
  Thread = {t1, t2}
  BlockSize = 2
  Counts = {1, 3}
  MaxNodes = 4
  IsPointer = FALSE
  Observers = {}
SYMMETRY ThreadSymmetry
INVARIANTS Represents StacksExact
