\* A finding: a fetch that straddles a write stores what it read before it.
CONSTANTS
  t1 = t1
  t2 = t2
  Tasks <- MCTasks
  Keys <- MCRmdOnly
  RmdKey <- MCRmd
  Scopes = {"VERSION"}
  Drops <- MCDrops
  Changes <- MCChanges
  NoEntry = NoEntry
  NoSample = NoSample
  TTL = 1
  MaxFetchTime = 1
  MaxVersion = 1
  Disturbances = {"overlap"}
SPECIFICATION Spec
INVARIANTS ReadYourWrites
