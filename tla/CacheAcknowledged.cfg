\* The comment on cache_flush_all, without exception.
CONSTANTS
  s1 = s1
  s2 = s2
  s3 = s3
  d1 = d1
  d2 = d2
  Torn = Torn
  Wiped = Wiped
  NoSector = NoSector
  NumSlots = 1
  Sector <- MCSector
  Data <- MCData
SPECIFICATION Spec
SYMMETRY Symmetry
INVARIANT AcknowledgedFlushSurvives
