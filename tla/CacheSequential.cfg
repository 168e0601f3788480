\* Reads and writes that do not overlap, with every other disturbance but an outsider.
CONSTANTS
  t1 = t1
  t2 = t2
  Tasks <- MCTasks
  Keys <- MCRmdAndMeasures
  RmdKey <- MCRmd
  Scopes = {"VERSION"}
  Drops <- MCDrops
  Changes <- MCChanges
  NoEntry = NoEntry
  NoSample = NoSample
  TTL = 0
  MaxFetchTime = 0
  MaxVersion = 2
  Disturbances = {"api", "lost", "disk", "cancel"}
SPECIFICATION Spec
SYMMETRY TaskSymmetry
INVARIANTS TypeOK ReadYourWrites RefreshIsHonest
