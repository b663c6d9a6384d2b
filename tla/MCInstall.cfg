CONSTANTS
  i1 = i1
  i2 = i2
  h1 = h1
  g1 = g1
  g2 = g2
  m1 = m1
  Installers = {i1, i2}
  Old = {i2}
  Hooks = {h1}
  Gens = {g1, g2}
  Modules = {m1}
  Undigested = {m1}
  MaxMishaps = 1
  Epoch <- MCEpoch
  Canonical = canonical
  Runner = runner
  Guard = guard
  Edited = edited
  Absent = absent
  Nil = Nil
  Surfaces = {"skills"}
  Versions = {1, 2}
  Tree <- MCTree
  Runs = {"r1", "r2"}
  States <- MCStates
  Locks = {"live", "stale", "malformed", "installer"}
  MaxChanges = 1
SPECIFICATION AllSpec
SYMMETRY AllSymmetry
INVARIANTS
  InstallationIsSound
  HookRunsOneInstallation
  ReportsAreTrue
PROPERTIES
  NoDowngrade
CHECK_DEADLOCK FALSE
