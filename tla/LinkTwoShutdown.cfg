SPECIFICATION Spec
CONSTANTS
  NumIds = 2
  Triples = 1
  MaxWrites = 2
  FirstOwner <- MCFpgaOwns
  FreeWrites = FALSE
  DeleteWhen = "poweredOn"
INVARIANTS DeliveryOrder
