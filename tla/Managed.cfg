SPECIFICATION ManagedFairSpec
CONSTANTS
  conf = conf
  svc = svc
  a = a
  b = b
  Files = {conf, svc}
  Contents = {a, b}
  Absent = Absent
  NoImage = NoImage
  Conf = conf
  Good = {a, b}
  RestartFiles = {conf}
  Rank <- MCRank
  CreatedAt <- ForwardClock
  Keep = 2
  MaxId = 2
  MaxFaults = 1
  MaxCrashes = 1
  MaxEdits = 0
  Runnable <- MCRunnable
  MaxOutages = 1
INVARIANTS
  ManagedTypeOK
  RunsWhatIsOnDisk
  StopNeverInterrupts
  StopHolds
PROPERTY RecoversToRunnable
