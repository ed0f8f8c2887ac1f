\* The application is deleted while a deployment is in flight.
CONSTANTS
  None = None
  r1 = r1
  s1 = s1
  Deployments = {1, 2}
  Rollbacks = {}
  Stops = {s1}
  Deletes = {s1}
  HasDomain = TRUE
  MaxFaults = 0
  LostReplies = FALSE
  Cancels = {}
  Disconnects = {}
  HealthOn = FALSE
  MaxExits = 0
  MaxCrashes = 0
SPECIFICATION Spec
INVARIANTS
  DeletedIsGone
