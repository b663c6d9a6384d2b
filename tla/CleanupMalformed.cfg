CONSTANTS
  Nil = Nil
  Runs = {1, 2}
  Sessions = {s1, s2}
  Procs = {p1}
  Named <- MCNamed
  RawTtl <- MCRawTtl
  CompactTtl = 1
  MaxCompact = 1
  MaxAge = 1
SPECIFICATION Spec
SYMMETRY Symmetry
PROPERTIES
  FailsClosed
CHECK_DEADLOCK FALSE
