SPECIFICATION FairSpec
CHECK_DEADLOCK FALSE
CONSTANTS
  Request = {"r1", "r2"}
  Schedule = "cron"
  Period = 2
  Margin = 0
  MaxRuntime = 1
  Limited = TRUE
  Sent = {"in_progress", "ok", "timeout"}
  MaxTime = 3
  MaxCalls = 2
  MaxFaults = 1
INVARIANTS
  TypeOK
  CountersAddUp
  OneMissPerDeadline
  TimelyReportsStand
PROPERTIES
  DetectorsCatchUp
