\* Sectors of two cells; the data area starts in the middle of a sector of the cache.
CONSTANTS
  Name = {a, b}
  Data = {d}
  Zero = Zero
  SectorCells = 2
  Base = 1
  total_sectors = 3
  MaxFiles = 2
  MaxSize = 3
  IOErrors = FALSE
SPECIFICATION Spec
SYMMETRY Symmetry
INVARIANTS FreeSpaceIsZero AnswersAreTrue
PROPERTY VacatedIsWipedOnDisk
