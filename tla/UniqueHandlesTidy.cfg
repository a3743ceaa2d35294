SPECIFICATION TidySpec
CONSTANTS
  p = p
  q = q
  Pool = {p, q}
  NoPool = NoPool
  Node = {1, 2, 3, 4}
  Home <- TwoHomes
  NodeVar = {x, y}
  StackVar = {s, u}
  Counts = {0, 1, 2}
INVARIANTS TypeOK OneOwner NoLeak HomeAgain
PROPERTIES GivenByOwner
