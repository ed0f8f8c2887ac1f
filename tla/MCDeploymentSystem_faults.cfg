\* One call fails, possibly after it took effect; requests may be abandoned.
CONSTANTS
  None = None
  r1 = r1
  s1 = s1
  Deployments = {1, 2}
  Rollbacks = {r1}
  Stops = {s1}
  Deletes = {s1}
  HasDomain = TRUE
  MaxFaults = 1
  LostReplies = TRUE
  Cancels = {}
  Disconnects = {r1, s1}
  HealthOn = FALSE
  MaxExits = 0
  MaxCrashes = 0
SPECIFICATION Spec
INVARIANTS
  TypeOK
  RolloutsSerialized
PROPERTIES
  LegalTransitions
  DeletionCleansUpFirst
