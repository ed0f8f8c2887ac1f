\* Everything ends: a rollback, a container that exits, the health checker, a stop.
CONSTANTS
  None = None
  r1 = r1
  s1 = s1
  Deployments = {1, 2}
  Rollbacks = {r1}
  Stops = {s1}
  Deletes = {}
  HasDomain = TRUE
  MaxFaults = 0
  LostReplies = FALSE
  Cancels = {}
  Disconnects = {}
  HealthOn = TRUE
  MaxExits = 1
  MaxCrashes = 0
SPECIFICATION FairSpec
PROPERTIES
  RolloutsEnd
  DeploymentsConclude
  DeadReleaseNoticed
