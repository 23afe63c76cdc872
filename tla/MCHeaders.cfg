CONSTANTS
  MaxDepth = 2
  StackRoom = 8
  TypeNames <- Names
  Schemas <- AllSchemas
SPECIFICATION JsonSpec
INVARIANTS TypesBeforeUses OwnNamesDeclared FunctionsHaveTypes DeclaredOnce AdaptersHaveTypes AdaptedOnce SchemaUnlessSelfContaining
CHECK_DEADLOCK FALSE
