SPECIFICATION FairSpec
CONSTANTS
  Nodes <- MCNodes
  StartNode = greet
  EndNodes <- MCEndNodes
  Edges <- MCEdges
  Extracting <- MCExtracting
  Disposing <- MCDisposing
  Reasons <- MCReasons
  greet = greet
  ask = ask
  bye = bye
  NoValue = NoValue
  Faults = {"raise", "timeout", "setup", "late", "fatal", "silence", "interrupt", "db"}
  MaxMishaps = 2
INVARIANTS
  TypeOK
  NothingExtractedIsLost
  DispositionIsMapped
PROPERTIES
  EveryCallIsSaved
CHECK_DEADLOCK FALSE
