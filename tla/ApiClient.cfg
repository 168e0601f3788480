\* Two calls at once, of any kind, possibly with the same key, two attempts each, one of
\* which may be spent on "in progress" (in the code three and two), with liveness.
CONSTANTS
  c1 = c1
  c2 = c2
  k1 = k1
  NoKey = NoKey
  Calls <- MCCalls
  Keys <- MCKeys
  MaxRetries = 2
  MaxInProgress = 1
SPECIFICATION FairSpec
INVARIANTS TypeOK NeverRaisesNothing AppliedAtMostOnce SuccessIsReal
PROPERTIES Terminates
CHECK_DEADLOCK FALSE
