\* One window, no handler inside another; two volumes opened in a run of the
\* process, of two files; the volume file, memory and FUSE may fail.
CONSTANTS
  Vol = {v1, v2}
  Path = {p, q}
  Thread = {t1, t2}
  Table = {Empty, x}
  Empty = Empty
  Mixed = Mixed
  Unreadable = Unreadable
  None = None
  MaxDepth = 1
  IOErrors = TRUE
SPECIFICATION FairSpec
INVARIANTS TypeOK ServesOpenVolume FreedHoldsNoKeys
PROPERTIES SavedOnClose FreedIsSaved HandlersReturn
