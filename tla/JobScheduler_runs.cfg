SPECIFICATION FairSpec
CONSTANTS
  Periodic = {"cleanup"}
  OneShot = {}
  Caller = {"req1"}
  MaxRetries = 1
  MaxRuns = 3
  MaxDbErrors = 1
  MaxRestarts = 1
INVARIANTS
  TypeOK
  RunningRowsHaveOneRunner
  CallsBounded
  ShutdownQuiesces
PROPERTIES
  OutcomesFinal
  AlarmClearedOnlyByNewRun
  ShutdownCompletes
