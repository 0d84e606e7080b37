SPECIFICATION Spec
CONSTANTS
  r1 = r1
  r2 = r2
  boot = boot
  nobody = nobody
  a = a
  b = b
  Requests = {r1, r2}
  Boot = boot
  Nobody = nobody
  Contents = {a, b}
  MaxVersions = 2
  MaxLost = 1
  MaxTroubles = 0
SYMMETRY Same
INVARIANT AlwaysCaughtUp
CHECK_DEADLOCK FALSE
