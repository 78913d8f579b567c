SPECIFICATION Spec
CONSTANTS
  Periodic = {"cleanup"}
  OneShot = {}
  Caller = {"req1"}
  MaxRetries = 0
  MaxRuns = 4
  MaxDbErrors = 0
  MaxRestarts = 0
INVARIANTS
  DocCancelHitsRunningJob
