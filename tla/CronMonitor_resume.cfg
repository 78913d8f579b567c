SPECIFICATION Spec
CHECK_DEADLOCK FALSE
CONSTANTS
  Request = {"r1"}
  Schedule = "interval"
  Period = 2
  Margin = 1
  MaxRuntime = 1
  Limited = TRUE
  Sent = {"in_progress", "ok", "timeout"}
  MaxTime = 6
  MaxCalls = 2
  MaxFaults = 0
PROPERTIES
  DocResumeRecalculates
