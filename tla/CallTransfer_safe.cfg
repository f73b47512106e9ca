SPECIFICATION FairSpec
CONSTANTS
  Attempts = {t1, t2}
  NoAttempt = NoAttempt
  Faults = {"refuse", "media", "bridge", "early", "drop", "lost", "db", "leaves",
            "add", "hangup", "join", "swap", "delete"}
  MaxMishaps = 2
INVARIANTS
  TypeOK
PROPERTIES
  TransferKeepsCaller
  
  CallerIsServed
CHECK_DEADLOCK FALSE

