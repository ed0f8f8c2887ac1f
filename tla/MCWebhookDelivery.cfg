\* A push delivered twice; two changes, one failing call or disconnect, one crash.
CONSTANTS
  None = None
  app1 = app1
  app2 = app2
  push1 = push1
  a1 = a1
  a2 = a2
  main = main
  dev = dev
  i1 = i1
  i2 = i2
  Apps <- TwoApps
  Deliveries <- OneDelivery
  Attempts <- TwoAttempts
  Branches <- TwoBranches
  Installations <- TwoInstallations
  Changing = {app1}
  MaxChanges = 2
  MaxFaults = 1
  MaxCrashes = 1
  LostReplies = TRUE
SPECIFICATION FairSpec
INVARIANTS
  TypeOK
  OncePerDelivery
  DeploysFollowers
  RecordIsTrue
PROPERTIES
  DeliveriesSettle
