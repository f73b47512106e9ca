SPECIFICATION Spec
CONSTANTS
  r1 = r1
  r2 = r2
  Runs = {r1, r2}
  Priced = {r1}
  Files <- MCFiles
  None = None
  MaxTries = 2
  Faults = {"refused", "storage", "llm", "db", "shutdown", "kill", "timeout"}
  MaxMishaps = 1
INVARIANTS
  TypeOK
  TranscriptHeals
  CostCoversUsage
  LedgerIsSound
