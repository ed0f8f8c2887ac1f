\* Three overlapping deployments, one rollback and one stop; every external call works.
CONSTANTS
  None = None
  r1 = r1
  s1 = s1
  Deployments = {1, 2, 3}
  Rollbacks = {r1}
  Stops = {s1}
  Deletes = {}
  HasDomain = TRUE
  MaxFaults = 0
  LostReplies = FALSE
  Cancels = {}
  Disconnects = {}
  HealthOn = FALSE
  MaxExits = 0
  MaxCrashes = 0
SPECIFICATION Spec
INVARIANTS
  ServedWhileRunning
  OneReleaseAtRest
