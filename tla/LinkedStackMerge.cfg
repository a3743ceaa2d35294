SPECIFICATION MergeSpec
CONSTANTS
  Node = {1, 2, 3, 4, 5, 6}
  Nil = Nil
  Stk = {A, B}
  Value <- PairedValues
  Counts = {}
INVARIANTS MergeAssertion TailsExact
PROPERTIES ImplementsSequences
