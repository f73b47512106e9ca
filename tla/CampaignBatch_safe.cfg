SPECIFICATION Spec
CONSTANTS
  r1 = r1
  r2 = r2
  t1 = t1
  w1 = w1
  w2 = w2
  s1 = s1
  s2 = s2
  q1 = q1
  q2 = q2
  q3 = q3
  NoRow = NoRow
  SourceRows = {r1, r2}
  Retries = {}
  Parent <- MCNoParent
  Workers = {w1, w2}
  Syncs = {s1}
  Requests = {q1}
  Kinds = {"start", "trip"}
  BatchSize = 2
  MaxJobs = 1
  Faults = {"refuse", "save", "exhausted", "db", "redis", "source", "cancel"}
SYMMETRY MCAll
INVARIANTS
  TypeOK
  DialOnce
PROPERTIES
  ImplementsCallQueue
