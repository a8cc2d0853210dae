---------------------------- MODULE MCSectorCache ----------------------------
(* SectorCache on small instances. *)
EXTENDS SectorCache, TLC

CONSTANTS s1, s2, s3, d1, d2

MCSector == {s1, s2, s3}
MCData == {d1, d2}
MCOneData == {d1}

\* Sectors and contents are interchangeable; slots are not (lru_victim scans
\* them in order).
Symmetry == Permutations(MCSector) \cup Permutations(MCData)
SectorSymmetry == Permutations(MCSector)
==============================================================================
