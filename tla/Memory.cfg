SPECIFICATION FairSpec
CONSTANTS
  Size = 5
  Block = 3
  Blink = 1
  Offsets = {0, 2, 3}
  MaxReads = 2
INVARIANTS TypeOK BlockInOrder OneBusy Fresh Placed
PROPERTIES Answered
