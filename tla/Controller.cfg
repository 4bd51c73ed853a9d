SPECIFICATION FairSpec
CONSTANTS
  Batch = 3
  PauseTurns = 4
INVARIANTS TypeOK Exclusive EndedFirst
PROPERTIES Answered TeardownEnds
