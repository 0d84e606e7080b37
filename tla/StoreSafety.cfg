SPECIFICATION Spec
CONSTANTS
  conf = conf
  svc = svc
  a = a
  b = b
  Files = {conf, svc}
  Contents = {a, b}
  Absent = Absent
  NoImage = NoImage
  Conf = conf
  Good = {a, b}
  RestartFiles = {conf}
  Rank <- MCRank
  CreatedAt <- ForwardClock
  Keep = 2
  MaxId = 4
  MaxFaults = 1
  MaxCrashes = 2
  MaxEdits = 1
SYMMETRY Symmetry
INVARIANTS
  TypeOK
  JournalRecoverable
  BaselineLoadable
  Retention
  BackupExists
  WriteAhead
  AnsweredIsBaseline
PROPERTY Atomicity
CONSTRAINT AnyTwo
