CONSTANTS
  other = other
  e1 = e1
  e2 = e2
  e3 = e3
  Nil = Nil
  Malformed = Malformed
  Procs = {p1, p2, other}
  Host <- OneHost
  MaxTokens = 2
  Aging = "never"
  GuardCrash = TRUE
  Callers = {p1, p2}
  ActionIds = {a1, a2}
  KeyOf <- OneKey
  MaxTime = 2
  Window = 1
  MaxAge = 1
  Runners = {p1, p2, other}
  Events = {e1, e2}
  EventOf <- TwoEvents
  Delegated = TRUE
  Mortal = {p1, p2, other}
  Hosts = {"host"}
  Repos = {"repo", "other"}
  Tickets = {"ticket"}
  LeaseIds = {a1, a2}
  LeaseTime = 1
  Actors = {"producer", "reviewer"}
  Producer = "producer"
  Candidates = {a1, a2}
  Requirements = {"tests"}
  MaxReceipts = 2
  EventIds = {e1, e2, e3}
  Runs = {"n1", "n2"}
  Patterns = {"pattern"}
  MaxEvents = 3
SPECIFICATION AllSpec
SYMMETRY AllSymmetry
INVARIANTS
  MutualExclusion
  ReleaseSucceeds
  LedgerIsSound
  TicketInv
  OneWriterPerRepo
  VerifiedIsEarned
  CandidateIsJustified
PROPERTIES
  RecordsStand
CHECK_DEADLOCK FALSE
