\* Every write use case on every project and version, with ids that are prefixes of others.
CONSTANTS
  ProjectIds <- MCProjectIds
  VersionIds <- MCVersionIds
SPECIFICATION Spec
INVARIANTS WriteDropsWhatItChanges
PROPERTIES WriteStaysInScope
