\* A handler may run inside another one, at the progress callback.
CONSTANTS
  Vol = {v1, v2}
  Path = {p}
  Thread = {t1, t2}
  Table = {Empty, x}
  Empty = Empty
  Mixed = Mixed
  Unreadable = Unreadable
  None = None
  MaxDepth = 2
  IOErrors = FALSE
SPECIFICATION Spec
PROPERTY DestroyedAfterUnmount
