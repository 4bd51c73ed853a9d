SPECIFICATION FairSpec
CONSTANTS
  NumIds = 1
  Triples = 2
  MaxWrites = 3
  FirstOwner <- MCFpgaOwns
  FreeWrites = FALSE
  DeleteWhen = "poweredOn"
INVARIANTS SighupClean ShutdownOrder
PROPERTIES DestructionEnds
