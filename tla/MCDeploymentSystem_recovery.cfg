\* One call fails without effect, or the API process dies once and starts again.
CONSTANTS
  None = None
  r1 = r1
  s1 = s1
  Deployments = {1, 2, 3}
  Rollbacks = {r1}
  Stops = {}
  Deletes = {}
  HasDomain = TRUE
  MaxFaults = 1
  LostReplies = FALSE
  Cancels = {}
  Disconnects = {}
  HealthOn = TRUE
  MaxExits = 0
  MaxCrashes = 1
SPECIFICATION Spec
CONSTRAINT OneMishap
INVARIANTS
  ServedWhileRunning
  NothingLeftBehind
