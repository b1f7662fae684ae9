SPECIFICATION Spec
CONSTANTS
  Bytes = {o, n}
  Lists = {l1, l2}
  Ours = Ours
  Stale = Stale
  Torn = Torn
  Absent = Absent
  NoMove = NoMove
  Kinds = {"write", "delete"}
  Faults = {"io", "denied", "drop", "slow", "crash", "write", "daemon"}
INVARIANTS
  TypeOK
  SuccessIsApplied
  ListRestored
PROPERTIES
  DaemonListKept
  FailedWriteIsOver
  CallReturns
  NextCallSucceeds
