SPECIFICATION Spec
CONSTANTS
  Bytes = {o, n}
  Absent = Absent
  NoJournal = NoJournal
  Kinds = {"read", "createProbe", "delete", "list", "restore"}
  Faults = {"io", "denied", "drop", "crash", "write"}
SYMMETRY Symmetry
INVARIANTS
  OriginalNeverLost
  CommittedDeleteRetained
PROPERTIES
  KeepsCustody
