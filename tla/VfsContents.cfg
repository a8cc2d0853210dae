\* Two names and four sectors, enough for a file to be relocated onto itself or onto another.
CONSTANTS
  Name = {a, b}
  Data = {d}
  Zero = Zero
  SectorCells = 1
  Base = 1
  total_sectors = 4
  MaxFiles = 2
  MaxSize = 3
  IOErrors = FALSE
SPECIFICATION Spec
SYMMETRY Symmetry
INVARIANTS TypeOK NamesUnique AnswersAreTrue
PROPERTY StepsImplementFileSystem
