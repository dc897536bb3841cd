\* Two savers, one reader, three saves of two sources, one bundled version, and one
\* version past the last that a listing shows.
SPECIFICATION Spec
CONSTANTS
  s1 = s1  s2 = s2  r1 = r1
  Savers = {s1, s2}
  Readers = {r1}
  A = A  B = B
  Sources = {A, B}
  Bundled = {1}
  MaxListed = 3
  MaxVersion = 4
  MaxSaves = 3
  MaxReads = 1
SYMMETRY MCSymmetry
CHECK_DEADLOCK FALSE
INVARIANTS EntryHangsTogether AppendedIsLatest
PROPERTIES LoadedStays
