SPECIFICATION FairSpec
CONSTANTS
  Size = 5
  Block = 2
  Blink = 1
  Offsets = {0}
  MaxReads = 1
  RingSize = 2
  MaxWrites = 2
PROPERTY ReadEnds
