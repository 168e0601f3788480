\* Everything at once on one key: reads, writes, refreshes, failures, an outsider, time.
CONSTANTS
  t1 = t1
  t2 = t2
  Tasks <- MCTasks
  Keys <- MCRmdOnly
  RmdKey <- MCRmd
  Scopes = {"VERSION"}
  Drops <- MCDrops
  Changes <- MCChanges
  NoEntry = NoEntry
  NoSample = NoSample
  TTL = 1
  MaxFetchTime = 1
  MaxVersion = 1
  Disturbances = {"overlap", "outsider", "api", "lost", "disk", "leftovers", "cancel"}
SPECIFICATION FairSpec
INVARIANTS BoundedStaleness
PROPERTIES EventuallyFresh
