SPECIFICATION FairSpec
CONSTANTS
  NumIds = 2
  PeerIds = {0, 1}
PROPERTIES EndsTold
CHECK_DEADLOCK FALSE
