SPECIFICATION FairSpec
CONSTANTS
  NumIds = 2
  Triples = 2
  MaxWrites = 3
  FirstOwner <- MCSplit
  FreeWrites = FALSE
  DeleteWhen = "never"
INVARIANTS TypeOK OneByte NoAbort TransfersAgree DeliveryOrder Conservation
PROPERTIES MirrorImplemented Mirrored
