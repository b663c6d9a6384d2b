CONSTANTS
  Nil = Nil
  Starts <- MCStarts
  Updates <- MCUpdates
  Registers <- MCRegisters
  Messages <- MCMessages
  ExecRuns = {"none", "active"}
  Capsules = {"none"}
  Loads = {"applies"}
SPECIFICATION Spec
INVARIANTS
  WorkersClaimNothing
