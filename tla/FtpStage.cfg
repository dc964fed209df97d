\* Two uploads, four names in two directories, a reader; two renames
\* of staged files.
CONSTANTS
  f1 = f1
  f2 = f2
  r1 = r1
  d1 = d1
  d2 = d2
  x = x
  y = y
  NoFile = NoFile
  Files <- TwoFiles
  Dirs = {d1, d2}
  Names = {x, y}
  Readers <- OneReader
  MaxMoves = 2
SPECIFICATION Spec
SYMMETRY Sym
INVARIANTS
  DropsItsOwn
  NamesFreed
  RenameLands
\* When every upload is over and every handle closed nothing is left to do.
CHECK_DEADLOCK FALSE
