CONSTANTS
  A = A
  B = B
  C = C
  D = D
  Names = {A, B, C, D}
  MaxUses = 5
  Schemas <- AllSchemas
SPECIFICATION Spec
INVARIANTS NothingLost StrandedReachCycle
PROPERTIES FirstReadyInSchemaOrder OrderSpec
CHECK_DEADLOCK FALSE
