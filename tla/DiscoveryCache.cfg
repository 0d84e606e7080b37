SPECIFICATION Spec
CONSTANTS
  a = a
  b = b
  c = c
  d = d
  ta = ta
  tb = tb
  Services = {a, b, c, d}
  Types = {ta, tb}
  TypeOf <- MCTypeOf
  Workers = {w1, w2}
  Idle = Idle
  Streams = {s}
  QueueLimit = 2
  ResultLimit = 1
  TypeLimit = 1
  ServiceLimit = 2
  MaxChanges = 3
  MaxFailures = 1
INVARIANTS
  TypeOK
  ShownIsLatest
  NothingMissed
  StreamsUpToDate
PROPERTIES
  Converges
