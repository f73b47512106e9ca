SPECIFICATION FairSpec
CONSTANTS
  j1 = j1
  j2 = j2
  h1 = h1
  h2 = h2
  Jobs = {j1, j2}
  Handlers = {h1, h2}
  MaxCallbacks = 4
  MaxRuns = 3
  MaxRequests = 2
  MaxRoots = 1
  BatchLimit = 2
  MaxDeliveries = 2
  Faults = {"refuse"}
INVARIANTS
  RetriesAreReported
  ConnectedMeansCompleted
PROPERTIES
  EveryAttemptResolves
  ImplementsCallbackPromise
