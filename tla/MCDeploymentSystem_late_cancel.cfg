\* A cancel request that arrives while the pipeline promotes.
CONSTANTS
  None = None
  r1 = r1
  s1 = s1
  Deployments = {1, 2}
  Rollbacks = {}
  Stops = {}
  Deletes = {}
  HasDomain = TRUE
  MaxFaults = 0
  LostReplies = FALSE
  Cancels = {2}
  Disconnects = {}
  HealthOn = FALSE
  MaxExits = 0
  MaxCrashes = 0
SPECIFICATION Spec
INVARIANTS
  NoPromotedOrphan
