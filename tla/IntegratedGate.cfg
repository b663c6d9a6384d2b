SPECIFICATION Spec
INVARIANTS
  GatePasses
