SPECIFICATION FairSpec
CONSTANTS
  SourceRows = 2
  BatchSize = 1
  MaxReleases = 1
  MaxClashes = 1
  Faults = {"lost", "restart", "long", "slow", "cancel", "fail", "busy", "trip", "pause", "db", "window"}
  MaxMishaps = 1
INVARIANTS
  TypeOK
  OneBatchAtATime
PROPERTIES
  WorkIsPickedUp
  CampaignEnds
