SPECIFICATION FairSpec
CONSTANTS
  r1 = r1
  r2 = r2
  t1 = t1
  w1 = w1
  w2 = w2
  s1 = s1
  s2 = s2
  q1 = q1
  q2 = q2
  q3 = q3
  NoRow = NoRow
  SourceRows = {r1}
  Retries = {t1}
  Parent <- MCParent
  Workers = {w1}
  Syncs = {s1, s2}
  Requests = {q1, q2}
  Kinds = {"start", "pause", "resume", "trip"}
  BatchSize = 1
  MaxJobs = 1
  Faults = {"refuse", "exhausted"}
INVARIANTS
  NoRowForgotten
PROPERTIES
  EveryRowSettles
  CampaignEnds
