SPECIFICATION Spec
CONSTANTS
  s1 = s1
  s2 = s2
  Streams = {s1, s2}
  Slots = 1
  MaxChanges = 2
  MaxSaves = 1
  MaxErrors = 0
SYMMETRY Handlers
INVARIANTS
  TypeOK
  NoLostChange
CHECK_DEADLOCK FALSE
