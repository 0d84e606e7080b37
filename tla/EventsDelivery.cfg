SPECIFICATION Spec
CONSTANTS
  s1 = s1
  s2 = s2
  Streams = {s1}
  Slots = 1
  MaxChanges = 3
  MaxSaves = 1
  MaxErrors = 1
INVARIANTS
  NoDeafDirectory
PROPERTIES
  ChangeReachesStreams
  StreamEnds
CHECK_DEADLOCK FALSE
