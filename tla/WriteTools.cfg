\* Every write tool with every subset of its optional arguments, tried three times.
CONSTANTS
  Modes <- MCModes
  Keys <- MCKeys
  Credentials <- MCInline
  MaxTries = 3
SPECIFICATION Spec
INVARIANTS TypeOK ArgumentsReachTheRequest CompleteCallsAreSent IncompleteCallsAreRefused RepeatIsHarmless
\* The caller gives up after MaxTries.
CHECK_DEADLOCK FALSE
