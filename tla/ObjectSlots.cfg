SPECIFICATION Spec
CONSTANTS
  Node = {n1, n2, n3}
  NodeVar = {x, y}
  StackVar = {s, u}
  Counts = {0, 1, 2}
SYMMETRY SlotSymmetry
INVARIANTS TypeOK FreeDefault
PROPERTIES LostInAssignment AcquireForgetsNone
