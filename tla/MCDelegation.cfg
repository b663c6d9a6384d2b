CONSTANTS
  w1 = w1
  w2 = w2
  w3 = w3
  w4 = w4
  v1 = v1
  v2 = v2
  r1 = r1
  r2 = r2
  x = x
  p1 = p1
  p2 = p2
  p3 = p3
  Nil = Nil
  Workers = {w1, w2, w3, w4}
  Threads = {w1, w3}
  Waves = {v1, v2}
  Rounds = {r1, r2}
  MaxTotal = 3
  MaxConcurrency = 2
  MaxRounds = 3
  TerminalIds <- MCTerminalIds
  CleanupIds <- MCCleanupIds
  Leases <- MCLeases
  SharedIds = {v1}
  SharedLease = {x}
  Outcomes = {"completed"}
  Forms = {TRUE, FALSE}
  Interruptions = TRUE
  Joiners = {p1, p2, p3}
  SerialWaves = {v1}
  MortalWaves = {v1}
SPECIFICATION AllSpec
SYMMETRY AllSymmetry
INVARIANTS
  BudgetInv
  RoundsAccountedFor
  PublicationIsSound
PROPERTIES
  HistoryIsFinal
  ImplementsSchedule
CHECK_DEADLOCK FALSE
