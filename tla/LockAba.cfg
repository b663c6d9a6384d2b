CONSTANTS
  p1 = p1
  p2 = p2
  p3 = p3
  Procs = {p1, p2, p3}
  Host <- OneHost
  MaxTokens = 2
  Aging = "abandoned"
  GuardCrash = TRUE
  Nil = Nil
  Malformed = Malformed
SPECIFICATION Spec
SYMMETRY Symmetry
INVARIANTS
  MutualExclusion
CHECK_DEADLOCK FALSE
