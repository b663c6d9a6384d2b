CONSTANTS
  w1 = w1
  w2 = w2
  Lead = lead
  Nil = nil
  Workers = {w1, w2}
  Procs = {p1}
  RoundIds = {}
  MessageIds = {}
  LeaseIds = {l1, l2}
  Scopes <- MCScopes
  Files <- MCFiles
  MaxRounds = 0
SPECIFICATION Spec
INVARIANTS
  OneWriterPerFile
CHECK_DEADLOCK FALSE
