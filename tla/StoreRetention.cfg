SPECIFICATION Spec
CONSTANTS
  conf = conf
  svc = svc
  a = a
  b = b
  Files = {conf, svc}
  Contents = {a, b}
  Absent = Absent
  NoImage = NoImage
  Conf = conf
  Good = {a, b}
  RestartFiles = {conf}
  Rank <- MCRank
  CreatedAt <- ForwardClock
  Keep = 2
  MaxId = 5
  MaxFaults = 0
  MaxCrashes = 1
  MaxEdits = 0
INVARIANT RetentionAfterApply
