CONSTANTS
  p1 = p1
  p2 = p2
  s1 = s1
  r1 = r1
  r2 = r2
  Nil = Nil
  Procs = {p1, p2}
  Sessions = {s1}
  Runs = {r1, r2}
  MaxRevision <- MCMaxRevision
  MaxBinding = 3
  Legacy = r1
  LegacyStatus = "active"
  Failures = TRUE
SPECIFICATION Spec
SYMMETRY Symmetry
INVARIANTS
  NoLostUpdate
  BindingInv
PROPERTIES
  SwitchSawTarget
  ClosedIsTerminal
