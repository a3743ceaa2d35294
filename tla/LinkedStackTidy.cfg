SPECIFICATION TidySpec
CONSTANTS
  Node = {1, 2, 3, 4}
  Nil = Nil
  Stk = {A, B}
  Value <- PairedValues
  Counts = {0, 1, 2, 3}
INVARIANTS TypeOK SizeExact NoSharing NodesKept
PROPERTIES ImplementsSequences
