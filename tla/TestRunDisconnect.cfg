SPECIFICATION FairSpec
CONSTANTS
  holder = holder
  owner = owner
  driver = driver
  proxied = proxied
  Tasks <- MCTasks
  Ops <- PlanOps
  MaxOps = 1
  MaxCode = 1
  MaxId = 0
  MaxReceived = 3
  Identifiers <- MCIdentifiers
  Proxied <- MCProxied
  Registered <- MCRegistered
  MayDrop = FALSE
PROPERTY DisconnectIsSurfaced
CHECK_DEADLOCK FALSE
