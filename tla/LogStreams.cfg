SPECIFICATION FairSpec
CONSTANTS
  r1 = r1
  Requests = {r1}
  Slots = 2
  Capacity = 2
  PageLimit = 2
  MaxLines = 4
INVARIANTS
  TypeOK
  InOrder
  NoOrphans
  HonestEnd
PROPERTIES
  RequestsEnd
  LinesArrive
CHECK_DEADLOCK FALSE
