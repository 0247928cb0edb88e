SPECIFICATION Spec
CONSTANTS
  a = a  b = b
  Address = {a, b}
  Nobody = Nobody
  Slot <- MCSlot
  Parties <- MCParties
  RangeSize = 2
  LiveLimit = 2
  PageLimit = 2
  MaxAge = 1
  DefaultSlot = 2
  MaxSlot = 3
  MaxTrouble = 1
INVARIANTS TypeOK NothingSlips EachOncePerPoll WalkIsComplete
