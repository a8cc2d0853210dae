\* A file that grows may be moved onto a part of itself.
CONSTANTS
  Name = {a, b}
  Data = {d}
  Zero = Zero
  SectorCells = 1
  Base = 1
  total_sectors = 4
  MaxFiles = 2
  MaxSize = 3
  IOErrors = FALSE
SPECIFICATION Spec
SYMMETRY Symmetry
PROPERTY RelocationKeepsContents
