CONSTANTS
  Procs = {p1}
  Todos = {t1, t2}
  Receipts = {f1}
  Criteria = {c1}
  Halted = {"blocked"}
  Absent = absent
  MaxAttempts = 2
  MaxNow = 1
  MaxStarts = 1
  HookStarts <- MCHookStarts
  HookUpdates <- MCHookUpdates
  HookRuns = {"none", "broken", "active"}
  HookRegisters <- MCHookRegisters
  HookCapsules = {"none", "invalid"}
  HookMessages <- MCHookMessages
  HookLoads = {"applies", "invalid binding"}
  CapsuleProcs = {q1, q2}
  CapsuleContexts <- MCCapsuleContexts
  CapsuleRefs <- MCCapsuleRefs
  CapsuleStarts <- MCCapsuleStarts
  CapsuleUpdates <- MCCapsuleUpdates
  CapsuleDecisions <- MCCapsuleDecisions
  MaxCommands = 4
  Intents <- MCIntents
  Designs <- MCDesigns
  Modes = {"full", "design-to-plan", "decompose-only"}
  Profiles = {Nil, "brownfield"}
  Tasks <- MCTasks
  Controls <- MCControls
  Hosts <- MCHosts
  FlowStarts <- MCStarts
  WorkerIds = {"w1"}
  Scopes = {"s1"}
  EvidenceIds = {ev1, ev2}
  Evidence <- MCEvidence
  MaxViolations = 1
  Nil = Nil
  Torn = Torn
SPECIFICATION AllSpec
SYMMETRY AllSymmetry
INVARIANTS
  RunIsSound
  ReplayIsCurrent
  HooksHold
  ToldIsTrue
  GatesAreAsked
  RouteIsSupported
PROPERTIES
  HistoryStands
CHECK_DEADLOCK FALSE
