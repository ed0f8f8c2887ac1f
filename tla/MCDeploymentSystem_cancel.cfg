\* Both deployments are cancelled at any moment; both requests may be abandoned.
CONSTANTS
  None = None
  r1 = r1
  s1 = s1
  Deployments = {1, 2}
  Rollbacks = {r1}
  Stops = {s1}
  Deletes = {}
  HasDomain = TRUE
  MaxFaults = 0
  LostReplies = FALSE
  Cancels = {1, 2}
  Disconnects = {r1, s1}
  HealthOn = FALSE
  MaxExits = 0
  MaxCrashes = 0
SPECIFICATION Spec
INVARIANTS
  NothingLeftBehind
  CandidateHasOwner
PROPERTIES
  CancelledIsFinal
