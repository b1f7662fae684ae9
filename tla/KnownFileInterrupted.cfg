SPECIFICATION RetrySpec
CONSTANTS
  Bytes = {o, n}
  Absent = Absent
  NoJournal = NoJournal
  Kinds = {"read", "list", "restore"}
  Faults = {"crash"}
PROPERTIES
  InterruptedIsRecoverable
