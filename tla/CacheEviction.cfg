\* Three sectors share two slots, so that the LRU order and the pins decide what is evicted.
CONSTANTS
  s1 = s1
  s2 = s2
  s3 = s3
  d1 = d1
  d2 = d2
  Torn = Torn
  Wiped = Wiped
  NoSector = NoSector
  NumSlots = 2
  Sector <- MCSector
  Data <- MCOneData
SPECIFICATION Spec
SYMMETRY SectorSymmetry
INVARIANTS TypeOK OneSlotPerSector
PROPERTY PinnedStays
