\* Only the table matters: no data, three names in five sectors of one cell, every access may fail.
CONSTANTS
  Name = {a, b, c}
  Data = {}
  Zero = Zero
  SectorCells = 1
  Base = 1
  total_sectors = 5
  MaxFiles = 3
  MaxSize = 4
  IOErrors = TRUE
SPECIFICATION Spec
SYMMETRY Symmetry
INVARIANTS InsideDataArea Accounting
PROPERTIES OverlapStartsAtEmptyFile
