SPECIFICATION FairSpec
CONSTANTS
  Size = 5
  Block = 4
  Blink = 2
  Offsets = {0, 1}
  MaxReads = 1
  RingSize = 2
  MaxWrites = 3
INVARIANTS TypeOK SlotKept Stored Delivered
PROPERTIES AllStored
