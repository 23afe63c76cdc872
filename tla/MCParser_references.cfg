CONSTANTS
  Files <- OfReferences
  UpperCase <- Uppers
SPECIFICATION FairSpec
INVARIANT ReferencesKept
CHECK_DEADLOCK FALSE
