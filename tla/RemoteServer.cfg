SPECIFICATION FairSpec
CONSTANTS
  holder = holder
  owner = owner
  driver = driver
  proxied = proxied
  Tasks <- MCTasks
  Ops <- MCOps
  MaxOps = 1
  MaxCode = 1
  MaxId = 2
  MaxReceived = 2
  Identifiers <- MCIdentifiers
  Proxied <- MCProxied
  Registered <- MCRegistered
  MayDrop = TRUE
INVARIANTS
  TypeOK
  ReplyReachesItsCall
  AckedIsServed
PROPERTY WaitsEnd
CHECK_DEADLOCK FALSE
