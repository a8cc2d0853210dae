\* Three sectors with two contents go through one slot: every other access evicts.
CONSTANTS
  s1 = s1
  s2 = s2
  s3 = s3
  d1 = d1
  d2 = d2
  Torn = Torn
  Wiped = Wiped
  NoSector = NoSector
  NumSlots = 1
  Sector <- MCSector
  Data <- MCData
SPECIFICATION Spec
SYMMETRY Symmetry
INVARIANTS CleanCopyMatchesDisk AcknowledgedUnlessLost
PROPERTY ImplementsStore
