CONSTANTS
  M1 = M1
  M2 = M2
  M3 = M3
  A = A
  B = B
  C = C
  D = D
  K = K
  v = v
  P = P
  X = X
  U = U
  INTEGER = INTEGER
  Names <- AllNames
  Primitives <- OnePrimitive
  Classes <- OneClass
  Values <- OneValue
  Aliases <- OneAlias
  Schemas <- AllSchemas
SPECIFICATION FairSpec
INVARIANTS RecursionIsBounded ModuleIsLinked BoundByOwnOrImporter ErrorsAreTrue BoundsAreLexical
PROPERTIES BindingSpec Termination
CHECK_DEADLOCK FALSE
