SPECIFICATION FairSpec
CONSTANTS
  NoThread = NoThread
  Thread = {t1, t2}
  BlockSize = 1
  Counts = {2}
  MaxNodes = 3
  IsPointer = TRUE
  Observers = {t1}
INVARIANTS AvailableBound
PROPERTIES MutexFreed CallReturns
