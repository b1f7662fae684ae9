SPECIFICATION Spec
CONSTANTS
  Tracked = {list, upload}
  InSync = {list, upload}
  Manifest = list
  Bytes = {b1, b2}
  Ours = Ours
  Torn = Torn
  Absent = Absent
  NoJournal = NoJournal
  Faults = {"io", "crash", "daemon"}
INVARIANTS
  TypeOK
  OursIsRecorded
PROPERTIES
  LibraryRestored
  DaemonBytesKept
  BooksRecovers
CHECK_DEADLOCK FALSE
