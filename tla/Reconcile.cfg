SPECIFICATION Spec
CONSTANTS
  r1 = r1
  r2 = r2
  boot = boot
  nobody = nobody
  a = a
  b = b
  Requests = {r1, r2}
  Boot = boot
  Nobody = nobody
  Contents = {a, b}
  MaxVersions = 2
  MaxLost = 1
  MaxTroubles = 1
SYMMETRY Same
INVARIANTS
  TypeOK
  CopyWasAccepted
  HonestDrift
  AnsweredIsCopied
PROPERTY NeverGoesBack
CHECK_DEADLOCK FALSE
