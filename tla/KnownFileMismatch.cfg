SPECIFICATION RetrySpec
CONSTANTS
  Bytes = {o, n}
  Absent = Absent
  NoJournal = NoJournal
  Kinds = {"replace", "list", "restore"}
  Faults = {"crash", "drop"}
PROPERTIES
  ManualRestoreEnds
