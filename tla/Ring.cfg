SPECIFICATION FairSpec
CONSTANTS
  Size = 4
  MaxWrites = 9
INVARIANTS TypeOK NoRace Fifo NoLostWakeup
PROPERTIES AbortsOnlyWhenFull AllRead
