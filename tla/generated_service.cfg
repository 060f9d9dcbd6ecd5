SPECIFICATION Spec
CONSTANTS
  Order <- CreationOrder
  BelongsTo <- Relations
  Stacks = {"go", "typescript", "python"}
  Clients = {c1, c2}
  MaxId = 2
  MaxRequests = 5
  c1 = c1
  c2 = c2
\* The system rests when nobody sends a request.
CHECK_DEADLOCK FALSE
SYMMETRY Symmetry
INVARIANTS
  ServiceSound
PROPERTIES
  OnlyBranchesFall
