SPECIFICATION RetrySpec
CONSTANTS
  Bytes = {o, n}
  Absent = Absent
  NoJournal = NoJournal
  Kinds = {"replace", "delete", "list", "restore"}
  Faults = {"crash", "drop"}
PROPERTIES
  CallsReturn
  StagedIsRecovered
  CommittedDeleteCloses
