SPECIFICATION Spec
CONSTANTS
  a1 = a1
  a2 = a2
  a3 = a3
  n1 = n1
  n2 = n2
  h1 = h1
  h2 = h2
  Attempts = {a1, a2, a3}
  Numbers = {n1, n2}
  Handlers = {h1}
  NoNumber = NoNumber
  NoRun = NoRun
  NoLimit = NoLimit
  CampaignLimit <- MCUnlimited
  OrgLimit = 2
  DefaultLimit = 1
  StaleAge = 2
  NumberTTL = 3
  MaxDeliveries = 1
  Faults = {"refuse", "lookup", "tag", "cancel", "lostStatus"}
SYMMETRY MCFullSymmetry
INVARIANTS
  TypeOK
  SlotsWithinLimit
  LiveCallsHoldSlots
PROPERTIES
  ImplementsOutboundCalls
