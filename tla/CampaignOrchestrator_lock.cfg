SPECIFICATION FairSpec
CONSTANTS
  SourceRows = 2
  BatchSize = 1
  MaxReleases = 1
  MaxClashes = 1
  Faults = {}
  MaxMishaps = 0
INVARIANTS
  NoDuplicateScheduling
