CONSTANTS
  Lead = lead
  Nil = nil
  Workers = {w1, w2}
  Procs = {p1, p2}
  RoundIds = {r1, r2}
  MessageIds = {m1, m2}
  LeaseIds = {l1, l2}
  Scopes <- MCScopes
  Files <- MCFiles
  MaxRounds = 1
  Initial = {initial}
  Added = {added}
  WaveWorkers = {initial}
  Writers = {initial}
  ResourceIds = {c1, c2}
  Holders = {holder}
  ProofRefs = {"ref"}
  Runs = {1, 2}
  Sessions = {"session"}
  RawTtl <- MCRawTtl
  CompactTtl = 1
  MaxCompact = 1
  MaxAge = 1
  Named <- MCNamed
  Cleaners = {"cleaner"}
SPECIFICATION AllSpec
SYMMETRY AllSymmetry
INVARIANTS
  CheckAccepts
  ReceivedOnceInOrder
  LeasesAreDisjoint
  LaunchInv
  CleanupIsTrue
PROPERTIES
  BoundRunsSurvive
  NothingLost
CHECK_DEADLOCK FALSE
