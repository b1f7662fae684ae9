SPECIFICATION Spec
CONSTANTS
  Bytes = {o, n, x}
  Absent = Absent
  NoJournal = NoJournal
  Kinds = {"replace", "restore"}
  Faults = {"io", "denied", "drop", "crash", "write"}
SYMMETRY Symmetry
INVARIANTS
  TypeOK
  WriteAhead
  SuccessIsInPlace
  FailureLeavesOriginal
PROPERTIES
  NoBlindOverwrite
  JournalClosesSettled
  KeepsCustody
