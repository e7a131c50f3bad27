CONSTANTS
  d1 = d1  d2 = d2  f1 = f1  f2 = f2
  FileNames = {f1, f2}
  DirNames = {d1, d2}
  Trees <- Few
  MaxNodes = 4
  MaxRecs = 8
  MaxOps = 3
  MaxLate = 1
  MaxStops = 1
  OrphanLimit = 2
SPECIFICATION Spec
SYMMETRY Symm
CHECK_DEADLOCK FALSE
INVARIANTS TracksDisk NeverRefused KeepsIdentity NoStranger
