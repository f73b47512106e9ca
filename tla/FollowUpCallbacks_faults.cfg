SPECIFICATION Spec
CONSTANTS
  j1 = j1
  j2 = j2
  h1 = h1
  h2 = h2
  Jobs = {j1, j2}
  Handlers = {h1}
  MaxCallbacks = 3
  MaxRuns = 2
  MaxRequests = 1
  MaxRoots = 1
  BatchLimit = 2
  MaxDeliveries = 1
  Faults = {"refuse", "save", "db", "early", "cancel"}
SYMMETRY Symmetry
INVARIANTS
  TypeOK
  JobsOwnCallbacks
  RetriesAreLeaves
