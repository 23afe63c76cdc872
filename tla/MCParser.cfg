CONSTANTS
  Files <- AllFiles
  UpperCase <- Uppers
SPECIFICATION FairSpec
INVARIANTS RoundTrip NothingInvented
PROPERTY Termination
CHECK_DEADLOCK FALSE
