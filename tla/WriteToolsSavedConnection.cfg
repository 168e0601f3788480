\* Git credentials by reference to a saved connection.
CONSTANTS
  Modes <- MCModes
  Keys <- MCKeys
  Credentials <- MCSaved
  MaxTries = 1
SPECIFICATION Spec
INVARIANTS CompleteCallsAreSent
\* The caller gives up after MaxTries.
CHECK_DEADLOCK FALSE
