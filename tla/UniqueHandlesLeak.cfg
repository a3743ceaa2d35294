SPECIFICATION Spec
CONSTANTS
  p = p
  q = q
  Pool = {p}
  NoPool = NoPool
  Node = {1, 2, 3, 4}
  Home <- OneHome
  NodeVar = {x, y}
  StackVar = {s, u}
  Counts = {0, 1, 2}
INVARIANTS NoLeak
