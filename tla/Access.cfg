SPECIFICATION Spec
CONSTANTS
  r1 = r1
  r2 = r2
  r3 = r3
  a1 = a1
  a2 = a2
  nowhere = nowhere
  Requests = {r1, r2, r3}
  Addresses = {a1, a2}
  Nowhere = nowhere
  AttemptLimit = 2
  TableLimit = 1
  VerifySlots = 2
  SessionLimit = 1
  MaxCrashes = 1
SYMMETRY Same
INVARIANTS
  TypeOK
  GuessLimit
  SlotsReturned
  NothingUnrecorded
  AnsweredIsRecorded
  LogoutIsFinal
CHECK_DEADLOCK FALSE
