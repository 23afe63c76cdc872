CONSTANTS
  Sources <- AllSources
  Letters <- OneLetter
  Digits <- OneDigit
  Keywords <- OneKeyword
SPECIFICATION Spec
INVARIANTS LocationsAreTrue NothingDropped LongestTokens
CHECK_DEADLOCK FALSE
