SPECIFICATION FairSpec
CONSTANTS
  a1 = a1
  a2 = a2
  a3 = a3
  n1 = n1
  n2 = n2
  h1 = h1
  h2 = h2
  Attempts = {a1, a2}
  Numbers = {n1}
  Handlers = {h1, h2}
  NoNumber = NoNumber
  NoRun = NoRun
  NoLimit = NoLimit
  CampaignLimit <- MCOneLimited
  OrgLimit = 2
  DefaultLimit = 2
  StaleAge = 2
  NumberTTL = 3
  MaxDeliveries = 2
  Faults = {"create", "save"}
INVARIANTS
  NoOrphanSlot
  NumberHasOwner
PROPERTIES
  EndedCallReleases
