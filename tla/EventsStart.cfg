SPECIFICATION Spec
CONSTANTS
  s1 = s1
  s2 = s2
  Streams = {s1}
  Slots = 1
  MaxChanges = 1
  MaxSaves = 1
  MaxErrors = 0
PROPERTIES
  EveryStreamStarts
CHECK_DEADLOCK FALSE
