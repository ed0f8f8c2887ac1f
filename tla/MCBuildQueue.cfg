\* Four deployments for two slots: two can queue, be cancelled and be granted together.
CONSTANTS
  d1 = d1
  d2 = d2
  d3 = d3
  d4 = d4
  Deployments <- FourDeployments
  MaxConcurrentBuilds = 2
SPECIFICATION FairSpec
INVARIANTS
  TypeOK
  SlotAccounting
  WorkConserving
  NoGhostWaiter
PROPERTIES
  AcquireReturns
  ImplementsBuildSlots
