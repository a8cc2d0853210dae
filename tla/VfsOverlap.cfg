\* Two empty files may get one offset, and then share sectors.
CONSTANTS
  Name = {a, b}
  Data = {}
  Zero = Zero
  SectorCells = 1
  Base = 1
  total_sectors = 3
  MaxFiles = 2
  MaxSize = 2
  IOErrors = FALSE
SPECIFICATION Spec
SYMMETRY Symmetry
INVARIANT NoOverlap
