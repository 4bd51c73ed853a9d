SPECIFICATION FairSpec
CONSTANTS
  NumIds = 2
  PeerIds = {0}
INVARIANTS TypeOK NoAbort CommandsOnce OneRight
PROPERTIES WrittenBack DestructionEnds
