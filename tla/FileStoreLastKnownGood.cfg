\* A get while another thread sets the same key, or after a crash.
CONSTANTS
  t1 = t1
  t2 = t2
  cacheDir = cacheDir
  rmd = rmd
  one = one
  entryA = entryA
  entryB = entryB
  entryOne = entryOne
  none = none
  None <- none
  Threads <- MCThreads
  Keys <- MCKeys
  Dirs <- MCDirs
  Root <- cacheDir
  Up <- MCUp
  Home <- MCHome
  Under <- MCUnder
  Prefixes <- MCPrefixes
  Top <- MCTop
  Leaf <- MCLeaf
  MaxSets = 2
  Nothing = Nothing
  Ok = Ok
  Failed = Failed
  Absent = Absent
  Empty = Empty
  Mixed = Mixed
SPECIFICATION Spec
INVARIANTS LastKnownGoodSurvives
