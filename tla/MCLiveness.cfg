CONSTANTS
  p1 = p1
  p2 = p2
  w1 = w1
  w2 = w2
  w3 = w3
  v1 = v1
  v2 = v2
  i1 = i1
  g1 = g1
  g2 = g2
  m1 = m1
  t1 = t1
  e1 = e1
  e2 = e2
  Procs = {p1, p2}
  Nil = Nil
  Malformed = Malformed
  Workers = {w1, w2, w3}
  Threads = {w1, w3}
  Waves = {v1, v2}
  Canonical = canonical
  Runner = runner
  Guard = guard
  Edited = edited
  Absent = absent
  Runners = {t1}
  Events = {e1, e2}
  EventOf <- OneEventEach
  Delegated = TRUE
  Mortal = {t1}
SPECIFICATION FairAllSpec
PROPERTIES
  AttemptEnds
  DeadOwnerReplaced
  ActiveWaveCloses
  Recovers
  CancellationStops
CHECK_DEADLOCK FALSE
