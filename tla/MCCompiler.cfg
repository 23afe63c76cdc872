CONSTANTS
  M = M
  N = N
  Dot = Dot
  Inc = Inc
  Bare = Bare
  T = T
  V = V
  Places <- AllPlaces
  NoPlace = Bare
  Names <- AllNames
  Types <- AllTypes
  Worlds <- Started
SPECIFICATION FairSpec
INVARIANTS ParsedIsReachable ModulesOnce SourceMeansSuccess
PROPERTY Termination
CHECK_DEADLOCK FALSE
