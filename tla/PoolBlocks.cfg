SPECIFICATION Spec
CONSTANTS
  NoThread = NoThread
  Thread = {t1, t2}
  BufferSize = 2
  BlockSize = 2
  SizeLimit = 5
  Blocks = {1, 2}
  MaxBlocks = 3
SYMMETRY ThreadSymmetry
INVARIANTS TypeOK InsertsAlone BlockOwned Backed Apart Intact
