SPECIFICATION FairSpec
CONSTANTS
  NumIds = 1
  Triples = 1
  MaxWrites = 1
  FirstOwner <- MCFpgaOwns
  FreeWrites = FALSE
  DeleteWhen = "anytime"
PROPERTIES DestructionEnds
