SPECIFICATION Spec
CONSTANTS
  NumIds = 2
  Triples = 2
  MaxWrites = 2
  FirstOwner <- MCSplit
  FreeWrites = TRUE
  DeleteWhen = "never"
INVARIANTS FreeSafe
